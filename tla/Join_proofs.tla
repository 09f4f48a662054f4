----------------------------- MODULE Join_proofs -----------------------------
(***************************************************************************)
(* What module Join promises, for any nodes and bounds:                    *)
(*                                                                         *)
(*   TypeCorrect       the types, and that a locked range has an owner     *)
(*   LocksInOneHand    a lock id is in one hand, wherever it has been      *)
(*                                                                         *)
(* The types need more than TypeOK says: of the messages under way, whose  *)
(* headers and ids the handlers copy, and of the instances of the nodes.   *)
(* One hand per id needs that an id is never newer than the lock of the    *)
(* node it comes from: then the id a request is granted is one nobody has. *)
(* Every other step keeps an id, drops it, or moves it from a message to   *)
(* the node that receives it or from a node to the reply it sends.         *)
(***************************************************************************)
EXTENDS Join, FiniteSetTheorems, TLAPS

Header == [inst : 0..MaxInstance, phase : Booting..Shutdown]

LockItem == [node : Nodes, inst : 1..MaxInstance, id : 0..MaxLockId, held : BOOLEAN]

\* What node n knows: its own instance is a real one, and so is that of every node
\* it has in its ring.
RowOK(n, t) ==
    /\ t \in [Nodes -> Header]
    /\ t[n].inst >= 1
    /\ \A k \in Nodes : Available(t[k]) => t[k].inst >= 1

\* The lock entries of node n.
EntriesOK(n, es) == DOMAIN es \subseteq Nodes \ {n} /\ es \in [DOMAIN es -> Entry]

\* A message under way.
MsgOK(m) ==
    /\ m.from \in Nodes /\ m.to \in Nodes /\ m.owner \in Nodes
    /\ m.headers \in [Nodes -> Header]
    /\ \A k \in Nodes : Available(m.headers[k]) => m.headers[k].inst >= 1
    /\ m.kind /= "Fault" => m.id \in 0..MaxLockId
    /\ m.locks \subseteq LockItem /\ IsFiniteSet(m.locks)
    /\ m.kind = "LockRenew" => m.from /= m.to

\* The lock of node n.
LockOK(n, l) ==
    /\ l \in [owner : Nodes, ownerInst : 1..MaxInstance, id : 0..MaxLockId, held : BOOLEAN]
    /\ l.held => l.owner /= n

MsgsOK == IsFiniteSet(msgs) /\ Cardinality(msgs) <= MaxMessages /\ \A m \in msgs : MsgOK(m)

\* Like TypeOK, with what a step needs to preserve it.
IInv ==
    /\ table \in [Nodes -> [Nodes -> Header]] /\ \A n \in Nodes : RowOK(n, table[n])
    /\ whole \in [Nodes -> BOOLEAN]
    /\ stage \in [Nodes -> Stages]
    /\ entries = [n \in Nodes |-> entries[n]] /\ \A n \in Nodes : EntriesOK(n, entries[n])
    /\ lock = [n \in Nodes |-> lock[n]] /\ \A n \in Nodes : LockOK(n, lock[n])
    /\ MsgsOK
    /\ lapses \in 0..MaxLapses

\* What the threads of a node have left to do; an instance is restarted only while the
\* bound on the instances allows it.
CallsOK ==
    /\ calls \in [Nodes -> SUBSET Calls] /\ overtaken \subseteq Nodes
    /\ \A n \in Nodes : "RestartInstance" \in calls[n] => Inst(n) < MaxInstance

-----------------------------------------------------------------------------
(***************************************************************************)
(* What a node learns.                                                     *)
(***************************************************************************)

\* A header with another phase.
LEMMA WithPhase ==
    ASSUME NEW h \in Header, NEW p
    PROVE  [h EXCEPT !.phase = p] = [inst |-> h.inst, phase |-> p]
<1>1. \A r, x, y : r = [inst |-> x, phase |-> y]
          => [r EXCEPT !.phase = p] = [inst |-> x, phase |-> p]
  OBVIOUS
<1>2. h = [inst |-> h.inst, phase |-> h.phase]
  BY DEF Header
<1>3. QED
  BY <1>1, <1>2

\* A header considered is the one known, the one met, or the one met as down: of
\* the right type, and available only when one of the two is.
LEMMA ConsideredOK ==
    ASSUME NEW n \in Nodes, NEW k \in Nodes, NEW h \in Header, NEW isInserting,
           table \in [Nodes -> [Nodes -> Header]], RowOK(n, table[n]),
           Available(h) => h.inst >= 1
    PROVE  LET c == Considered(n, k, h, isInserting)
           IN  /\ c \in Header
               /\ Available(c) => c.inst >= 1
               /\ k = n => c = table[n][n]
<1> DEFINE c == Considered(n, k, h, isInserting)
<1>1. \/ c = table[n][k] \/ c = h
      \/ c = [h EXCEPT !.phase = Shutdown]
  BY DEF Considered
<1>2. k = n => c = table[n][n]
  BY DEF Considered
<1>3. [h EXCEPT !.phase = Shutdown] \in Header /\ ~Available([h EXCEPT !.phase = Shutdown])
  <2>1. [h EXCEPT !.phase = Shutdown] = [inst |-> h.inst, phase |-> Shutdown]
    BY WithPhase
  <2>2. [inst |-> h.inst, phase |-> Shutdown] \in Header
    BY DEF Header, Booting, Shutdown
  <2>3. ~Available([inst |-> h.inst, phase |-> Shutdown])
    BY DEF Available, Shutdown, Inserting, Routing
  <2>4. QED
    BY <2>1, <2>2, <2>3
<1>4. table[n][k] \in Header /\ (Available(table[n][k]) => table[n][k].inst >= 1)
  BY DEF RowOK
<1> HIDE DEF c
<1>5. c \in Header /\ (Available(c) => c.inst >= 1)
  BY <1>1, <1>3, <1>4
<1>6. QED
  BY <1>2, <1>5 DEF c

\* What n learns from a message is a row of its table, and its own header is
\* untouched.
LEMMA LearnedOK ==
    ASSUME NEW n \in Nodes, NEW m,
           table \in [Nodes -> [Nodes -> Header]], RowOK(n, table[n]),
           m.headers \in [Nodes -> Header],
           \A k \in Nodes : Available(m.headers[k]) => m.headers[k].inst >= 1
    PROVE  RowOK(n, Learned(n, m)) /\ Learned(n, m)[n] = table[n][n]
<1> DEFINE c(k) == Considered(n, k, m.headers[k], m.kind = "Unlock" /\ k = m.from)
<1>1. \A k \in Nodes : /\ c(k) \in Header
                       /\ Available(c(k)) => c(k).inst >= 1
                       /\ k = n => c(k) = table[n][n]
  BY ConsideredOK
<1>2. Learned(n, m) = [k \in Nodes |-> c(k)]
  BY DEF Learned
<1> HIDE DEF c
<1>3. QED
  BY <1>1, <1>2 DEF RowOK

\* Whoever takes a node for down keeps a table of the right type.
LEMMA GoneOK ==
    ASSUME NEW n \in Nodes, NEW t, NEW k \in Nodes, NEW inst, RowOK(n, t)
    PROVE  RowOK(n, Gone(t, k, inst)) 
<1> DEFINE g == [t EXCEPT ![k].phase = Shutdown]
<1>1. g \in [Nodes -> Header] /\ \A x \in Nodes : g[x].inst = t[x].inst /\ (Available(g[x]) => Available(t[x]))
  BY DEF RowOK, Header, Available, Booting, Shutdown, Inserting, Routing
<1>2. RowOK(n, g)
  BY <1>1 DEF RowOK
<1>3. Gone(t, k, inst) \in {t, g}
  BY DEF Gone
<1>4. QED
  BY <1>2, <1>3

\* A new instance of a node.
LEMMA RebornOK ==
    ASSUME NEW j \in Nodes, table \in [Nodes -> [Nodes -> Header]],
           RowOK(j, table[j]), Inst(j) < MaxInstance
    PROVE  RowOK(j, [table[j] EXCEPT ![j] = [inst |-> Inst(j) + 1, phase |-> Joining]])
<1>1. [inst |-> Inst(j) + 1, phase |-> Joining] \in Header
  BY NodesAssumption DEF Header, Inst, Booting, Shutdown, Joining, RowOK
<1>2. Inst(j) + 1 >= 1
  BY NodesAssumption DEF Header, Inst, RowOK
<1>3. QED
  BY <1>1, <1>2 DEF RowOK

\* Another phase of a node itself, which has a real instance.
LEMMA OwnPhaseOK ==
    ASSUME NEW n \in Nodes, NEW t, RowOK(n, t), NEW p \in Booting..Shutdown
    PROVE  RowOK(n, [t EXCEPT ![n].phase = p])
<1> DEFINE g == [t EXCEPT ![n].phase = p]
<1>1. g \in [Nodes -> Header] /\ g[n].inst = t[n].inst /\ \A x \in Nodes \ {n} : g[x] = t[x]
  BY DEF RowOK, Header
<1>2. QED
  BY <1>1 DEF RowOK

-----------------------------------------------------------------------------
(***************************************************************************)
(* Messages.                                                               *)
(***************************************************************************)

\* Built by a node that knows a proper row, a message is a proper one.
LEMMA BuiltOK ==
    ASSUME NEW n \in Nodes, NEW k \in Nodes, NEW inst, NEW kind, NEW id, NEW v,
           RowOK(n, table'[n]), kind /= "LockRenew" \/ n /= k,
           kind /= "Fault" => id \in 0..MaxLockId
    PROVE  /\ MsgOK(WithId(n, k, inst, kind, id))
           /\ v \in Nodes => MsgOK([WithId(n, k, inst, kind, id) EXCEPT !.owner = v])
           /\ MsgOK([WithId(n, k, inst, kind, id) EXCEPT !.renew = v])
<1>1. {} \subseteq LockItem /\ IsFiniteSet({})
  BY FS_EmptySet
<1>2. MsgOK(WithId(n, k, inst, kind, id))
  <2> DEFINE m == WithId(n, k, inst, kind, id)
  <2>1. /\ m.kind = kind /\ m.from = n /\ m.to = k /\ m.headers = table'[n]
        /\ m.id = id /\ m.locks = {} /\ m.owner = n
    BY DEF WithId, Message
  <2> HIDE DEF m
  <2>2. MsgOK(m)
    BY <1>1, <2>1 DEF MsgOK, RowOK
  <2>3. QED
    BY <2>2 DEF m
<1>3. ASSUME v \in Nodes PROVE MsgOK([WithId(n, k, inst, kind, id) EXCEPT !.owner = v])
  <2> DEFINE m == [WithId(n, k, inst, kind, id) EXCEPT !.owner = v]
  <2>1. /\ m.kind = kind /\ m.from = n /\ m.to = k /\ m.headers = table'[n]
        /\ m.id = id /\ m.locks = {} /\ m.owner = v
    BY DEF WithId, Message
  <2> HIDE DEF m
  <2>2. MsgOK(m)
    BY <1>1, <1>3, <2>1 DEF MsgOK, RowOK
  <2>3. QED
    BY <2>2 DEF m
<1>4. MsgOK([WithId(n, k, inst, kind, id) EXCEPT !.renew = v])
  <2> DEFINE m == [WithId(n, k, inst, kind, id) EXCEPT !.renew = v]
  <2>1. /\ m.kind = kind /\ m.from = n /\ m.to = k /\ m.headers = table'[n]
        /\ m.id = id /\ m.locks = {} /\ m.owner = n
    BY DEF WithId, Message
  <2> HIDE DEF m
  <2>2. MsgOK(m)
    BY <1>1, <2>1 DEF MsgOK, RowOK
  <2>3. QED
    BY <2>2 DEF m
<1>5. QED
  BY <1>2, <1>3, <1>4

\* A message that only tells what its sender knows, or also of locks.
LEMMA ToldOK ==
    ASSUME NEW n \in Nodes, NEW k \in Nodes, NEW inst, NEW kind, NEW v,
           RowOK(n, table'[n]), kind /= "LockRenew"
    PROVE  /\ MsgOK(Message(n, k, inst, kind))
           /\ v \subseteq LockItem /\ IsFiniteSet(v)
                => MsgOK([Message(n, k, inst, kind) EXCEPT !.locks = v])
<1>0. 0 \in 0..MaxLockId
  BY NodesAssumption
<1>1. {} \subseteq LockItem /\ IsFiniteSet({})
  BY FS_EmptySet
<1>2. MsgOK(Message(n, k, inst, kind))
  <2> DEFINE m == Message(n, k, inst, kind)
  <2>1. /\ m.kind = kind /\ m.from = n /\ m.to = k /\ m.headers = table'[n]
        /\ m.id = 0 /\ m.locks = {} /\ m.owner = n
    BY DEF Message
  <2> HIDE DEF m
  <2>2. MsgOK(m)
    BY <1>0, <1>1, <2>1 DEF MsgOK, RowOK
  <2>3. QED
    BY <2>2 DEF m
<1>3. ASSUME v \subseteq LockItem, IsFiniteSet(v)
      PROVE  MsgOK([Message(n, k, inst, kind) EXCEPT !.locks = v])
  <2> DEFINE m == [Message(n, k, inst, kind) EXCEPT !.locks = v]
  <2>1. /\ m.kind = kind /\ m.from = n /\ m.to = k /\ m.headers = table'[n]
        /\ m.id = 0 /\ m.locks = v /\ m.owner = n
    BY DEF WithId, Message
  <2> HIDE DEF m
  <2>2. MsgOK(m)
    BY <1>0, <1>3, <2>1 DEF MsgOK, RowOK
  <2>3. QED
    BY <2>2 DEF m
<1>4. QED
  BY <1>2, <1>3

-----------------------------------------------------------------------------
(***************************************************************************)
(* Lock entries.                                                           *)
(***************************************************************************)

\* An entry that is reset or acquired keeps the rest of what it says.
LEMMA EntryFields ==
    ASSUME NEW e \in Entry, NEW id \in 0..MaxLockId
    PROVE  /\ Reset(e) \in Entry /\ Reset(e).id = e.id /\ ~Reset(e).done /\ Reset(e).inst = e.inst
           /\ Reset(e).known = e.known
           /\ LET a == AcquireLock(e, id)
              IN  a \in Entry /\ a.done /\ a.inst = e.inst /\ a.known = e.known
                  /\ a.id = IF e.done THEN e.id ELSE id
           /\ LET k == [e EXCEPT !.known = TRUE]
              IN  k \in Entry /\ k.done = e.done /\ k.id = e.id /\ k.inst = e.inst /\ k.known
           /\ LET d == [e EXCEPT !.done = TRUE]
              IN  d \in Entry /\ d.done /\ d.id = e.id /\ d.inst = e.inst /\ d.known = e.known
<1>1. Reset(e) \in Entry /\ Reset(e).id = e.id /\ ~Reset(e).done /\ Reset(e).inst = e.inst
      /\ Reset(e).known = e.known
  BY DEF Reset, Entry
<1>2. LET a == AcquireLock(e, id)
      IN  a \in Entry /\ a.done /\ a.inst = e.inst /\ a.known = e.known
          /\ a.id = IF e.done THEN e.id ELSE id
  BY DEF AcquireLock, Entry
<1>3. LET k == [e EXCEPT !.known = TRUE]
      IN  k \in Entry /\ k.done = e.done /\ k.id = e.id /\ k.inst = e.inst /\ k.known
  BY DEF Entry
<1>4. LET d == [e EXCEPT !.done = TRUE]
      IN  d \in Entry /\ d.done /\ d.id = e.id /\ d.inst = e.inst /\ d.known = e.known
  BY DEF Entry
<1>5. QED
  BY <1>1, <1>2, <1>3, <1>4

\* The entries a node has once it has compared them with its neighbourhood: those it
\* had, and new ones.
LEMMA UpdateOK ==
    ASSUME NEW j \in Nodes, NEW es, NEW t, EntriesOK(j, es), RowOK(j, t)
    PROVE  LET u == UpdateNeighborhood(j, es, t)
           IN  /\ EntriesOK(j, u)
               /\ DOMAIN u = Hood(t, j)
               /\ \A k \in DOMAIN u : u[k].done => k \in DOMAIN es /\ u[k] = es[k]
<1> DEFINE u == UpdateNeighborhood(j, es, t)
<1>1. DOMAIN u = Hood(t, j) /\ DOMAIN u \subseteq Nodes \ {j}
  BY DEF UpdateNeighborhood, Hood
<1>2. \A k \in DOMAIN u : u[k] = IF k \in DOMAIN es /\ es[k].inst >= t[k].inst THEN es[k]
                                 ELSE NewEntry(t[k].inst)
  BY <1>1 DEF UpdateNeighborhood
<1>3. \A k \in DOMAIN u : NewEntry(t[k].inst) \in Entry /\ ~NewEntry(t[k].inst).done
  <2> TAKE k \in DOMAIN u
  <2> HIDE DEF u
  <2>0. k \in Nodes /\ Available(t[k])
    BY <1>1 DEF Hood
  <2>1. t[k].inst \in 1..MaxInstance
    <3>1. t[k].inst \in 0..MaxInstance /\ t[k].inst >= 1
      BY <2>0 DEF RowOK, Header
    <3>2. QED
      BY <3>1, NodesAssumption
  <2>2. 0 \in 0..MaxLockId
    BY NodesAssumption
  <2>3. QED
    BY <2>1, <2>2 DEF NewEntry, Entry
<1>4. u = [k \in DOMAIN u |-> u[k]]
  BY <1>1 DEF UpdateNeighborhood
<1> HIDE DEF u
<1>5. \A k \in DOMAIN u : u[k] \in Entry
  BY <1>2, <1>3 DEF EntriesOK
<1>6. EntriesOK(j, u)
  BY <1>1, <1>4, <1>5 DEF EntriesOK
<1>7. \A k \in DOMAIN u : u[k].done => k \in DOMAIN es /\ u[k] = es[k]
  BY <1>2, <1>3
<1>8. QED
  BY <1>1, <1>6, <1>7 DEF u

\* A step of the JoinManager towards the next stage: it keeps all entries, or
\* resets all of them, or has done with them.
LEMMA CheckOK ==
    ASSUME NEW j \in Nodes, NEW es, NEW st \in {"Locking", "Establishing", "UnLocking"},
           EntriesOK(j, es), CheckCompletion(j, st, es)
    PROVE  \E ns \in Stages : \E ne :
              /\ stage' = [stage EXCEPT ![j] = ns] /\ entries' = [entries EXCEPT ![j] = ne]
              /\ EntriesOK(j, ne)
              /\ \/ ns = st /\ ne = es
                 \/ /\ AllCompleted(es) /\ ns \in {"Establishing", "UnLocking"}
                    /\ DOMAIN ne = DOMAIN es /\ \A k \in DOMAIN es : ne[k] = Reset(es[k])
                 \/ DOMAIN ne = {}
<1> DEFINE ns == NextStage(st, es)
           reset == [k \in DOMAIN es |-> Reset(es[k])]
           ne == IF ~AllCompleted(es) THEN es ELSE IF st = "UnLocking" THEN NoEntries ELSE reset
<1>1. stage' = [stage EXCEPT ![j] = ns] /\ entries' = [entries EXCEPT ![j] = ne]
  BY DEF CheckCompletion
<1>2. /\ ns \in Stages
      /\ ~AllCompleted(es) => ns = st
      /\ AllCompleted(es) /\ st /= "UnLocking" =>
            \/ ns \in {"Establishing", "UnLocking"}
            \/ DOMAIN es = {}
  BY DEF NextStage, Stages
<1>3. EntriesOK(j, NoEntries) /\ DOMAIN NoEntries = {}
  BY DEF EntriesOK, NoEntries
<1>4. EntriesOK(j, reset) /\ DOMAIN reset = DOMAIN es /\ \A k \in DOMAIN es : reset[k] = Reset(es[k])
  <2>1. \A k \in DOMAIN es : Reset(es[k]) \in Entry
    <3>1. \A k \in DOMAIN es : es[k] \in Entry
      BY DEF EntriesOK
    <3>2. 0 \in 0..MaxLockId
      BY NodesAssumption
    <3>3. QED
      BY <3>1, <3>2, EntryFields
  <2>2. QED
    BY <2>1 DEF EntriesOK
<1> HIDE DEF ns, reset
<1>5. CASE ~AllCompleted(es)
  BY <1>1, <1>2, <1>5
<1>6. CASE AllCompleted(es) /\ st = "UnLocking"
  BY <1>1, <1>2, <1>3, <1>6
<1>7. CASE AllCompleted(es) /\ st /= "UnLocking"
  <2>1. ne = reset
    BY <1>7
  <2>2. ns \in Stages /\ EntriesOK(j, ne) /\ DOMAIN ne = DOMAIN es /\ \A k \in DOMAIN es : ne[k] = Reset(es[k])
    BY <1>2, <1>4, <2>1
  <2> HIDE DEF ne
  <2>3. QED
    BY <1>1, <1>2, <1>7, <2>2
<1>8. QED
  BY <1>5, <1>6, <1>7

\* What is made of each element of a finite set is a finite set.
LEMMA FiniteImage ==
    ASSUME NEW S, IsFiniteSet(S), NEW T, NEW f \in [S -> T], \A y \in T : \E x \in S : f[x] = y
    PROVE  IsFiniteSet(T)
<1>1. f \in Surjection(S, T)
  BY DEF Surjection
<1>2. QED
  BY <1>1, FS_Surjection

\* The releases of the locks a node no longer needs are proper messages.
LEMMA ReleasesOK ==
    ASSUME NEW j \in Nodes, NEW es, NEW t, EntriesOK(j, es), RowOK(j, table'[j])
    PROVE  /\ IsFiniteSet(Releases(j, es, t))
           /\ \A r \in Releases(j, es, t) : MsgOK(r) /\ r.kind = "LockRelease"
<1> DEFINE S == {x \in DOMAIN es \ Hood(t, j) : es[x].done}
           w(k) == WithId(j, k, es[k].inst, "LockRelease", es[k].id)
           R == {w(k) : k \in S}
<1>1. \A k \in S : MsgOK(w(k)) /\ w(k).kind = "LockRelease"
  <2> TAKE k \in S
  <2>1. k \in Nodes /\ es[k].id \in 0..MaxLockId
    BY DEF EntriesOK, Entry
  <2>2. MsgOK(w(k))
    BY <2>1, BuiltOK
  <2>3. w(k).kind = "LockRelease"
    BY DEF WithId, Message
  <2>4. QED
    BY <2>2, <2>3
<1>2. IsFiniteSet(S)
  BY FS_Subset, NodesAssumption DEF EntriesOK
<1> HIDE DEF w, S
<1>3. [k \in S |-> w(k)] \in [S -> R] /\ \A y \in R : \E x \in S : [k \in S |-> w(k)][x] = y
  OBVIOUS
<1>4. IsFiniteSet(R)
  BY <1>2, <1>3, FiniteImage
<1>5. R = Releases(j, es, t)
  BY DEF R, S, w, Releases
<1>6. QED
  BY <1>1, <1>4, <1>5

-----------------------------------------------------------------------------
(***************************************************************************)
(* What a step of node n does to each variable, as far as the types go.    *)
(***************************************************************************)

RowStep(n) ==
    \/ UNCHANGED table
    \/ \E r : RowOK(n, r) /\ table' = [table EXCEPT ![n] = r]

WholeStep(n) ==
    \/ UNCHANGED whole
    \/ \E b \in BOOLEAN : whole' = [whole EXCEPT ![n] = b]

StageStep(n) ==
    \/ UNCHANGED stage
    \/ \E st \in Stages : stage' = [stage EXCEPT ![n] = st]

EntriesStep(n) ==
    \/ UNCHANGED entries
    \/ \E es : EntriesOK(n, es) /\ entries' = [entries EXCEPT ![n] = es]

LockStep(n) ==
    \/ UNCHANGED lock
    \/ \E l : LockOK(n, l) /\ lock' = [lock EXCEPT ![n] = l]

\* Messages go, and proper ones come if there is room for them.
MsgsStep ==
    \E new : /\ IsFiniteSet(new) /\ (\A m \in new : MsgOK(m))
             /\ msgs' \subseteq msgs \cup new
             /\ msgs' \subseteq msgs \/ Cardinality(msgs') <= MaxMessages

LapsesStep == lapses' \in 0..MaxLapses

\* A node's table after its step.
LEMMA RowStepOK ==
    ASSUME NEW n \in Nodes, RowStep(n),
           table \in [Nodes -> [Nodes -> Header]], \A k \in Nodes : RowOK(k, table[k])
    PROVE  table' \in [Nodes -> [Nodes -> Header]] /\ \A k \in Nodes : RowOK(k, table'[k])
<1>1. CASE UNCHANGED table
  BY <1>1
<1>2. CASE \E r : RowOK(n, r) /\ table' = [table EXCEPT ![n] = r]
  <2>1. PICK r : RowOK(n, r) /\ table' = [table EXCEPT ![n] = r]
    BY <1>2
  <2>2. r \in [Nodes -> Header]
    BY <2>1 DEF RowOK
  <2>3. table' \in [Nodes -> [Nodes -> Header]]
    BY <2>1, <2>2
  <2>4. \A k \in Nodes : table'[k] = IF k = n THEN r ELSE table[k]
    BY <2>1
  <2>5. QED
    BY <2>1, <2>3, <2>4
<1>3. QED
  BY <1>1, <1>2 DEF RowStep

\* Steps that do no more than that preserve the invariant.
LEMMA StepOK ==
    ASSUME IInv, NEW n \in Nodes,
           RowStep(n), WholeStep(n), StageStep(n), EntriesStep(n), LockStep(n), MsgsStep, LapsesStep
    PROVE  IInv'
<1>1. table' \in [Nodes -> [Nodes -> Header]] /\ \A k \in Nodes : RowOK(k, table'[k])
  BY RowStepOK DEF IInv
<1>2. whole' \in [Nodes -> BOOLEAN]
  BY DEF IInv, WholeStep
<1>3. stage' \in [Nodes -> Stages]
  BY DEF IInv, StageStep
<1>4. entries' = [k \in Nodes |-> entries'[k]] /\ \A k \in Nodes : EntriesOK(k, entries'[k])
  <2>1. CASE UNCHANGED entries
    BY <2>1 DEF IInv
  <2>2. CASE \E es : EntriesOK(n, es) /\ entries' = [entries EXCEPT ![n] = es]
    <3>1. PICK es : EntriesOK(n, es) /\ entries' = [entries EXCEPT ![n] = es]
      BY <2>2
    <3>2. entries = [k \in Nodes |-> entries[k]] /\ \A k \in Nodes : EntriesOK(k, entries[k])
      BY DEF IInv
    <3>3. entries' = [k \in Nodes |-> IF k = n THEN es ELSE entries[k]]
      BY <3>1, <3>2
    <3>4. QED
      BY <3>1, <3>2, <3>3
  <2>3. QED
    BY <2>1, <2>2 DEF EntriesStep
<1>5. lock' = [k \in Nodes |-> lock'[k]] /\ \A k \in Nodes : LockOK(k, lock'[k])
  <2>1. CASE UNCHANGED lock
    BY <2>1 DEF IInv
  <2>2. CASE \E l : LockOK(n, l) /\ lock' = [lock EXCEPT ![n] = l]
    <3>1. PICK l : LockOK(n, l) /\ lock' = [lock EXCEPT ![n] = l]
      BY <2>2
    <3>2. lock = [k \in Nodes |-> lock[k]] /\ \A k \in Nodes : LockOK(k, lock[k])
      BY DEF IInv
    <3>3. lock' = [k \in Nodes |-> IF k = n THEN l ELSE lock[k]]
      BY <3>1, <3>2
    <3>4. QED
      BY <3>1, <3>2, <3>3
  <2>3. QED
    BY <2>1, <2>2 DEF LockStep
<1>6. MsgsOK'
  <2>1. IsFiniteSet(msgs) /\ Cardinality(msgs) <= MaxMessages /\ \A m \in msgs : MsgOK(m)
    BY DEF IInv, MsgsOK
  <2>2. PICK new : /\ IsFiniteSet(new) /\ (\A m \in new : MsgOK(m))
                   /\ msgs' \subseteq msgs \cup new
                   /\ msgs' \subseteq msgs \/ Cardinality(msgs') <= MaxMessages
    BY DEF MsgsStep
  <2>3. IsFiniteSet(msgs \cup new)
    BY <2>1, <2>2, FS_Union
  <2>4. IsFiniteSet(msgs')
    BY <2>2, <2>3, FS_Subset
  <2>5. Cardinality(msgs') <= MaxMessages
    <3>1. CASE msgs' \subseteq msgs
      <4>1. Cardinality(msgs') <= Cardinality(msgs)
        BY <2>1, <3>1, FS_Subset
      <4>2. Cardinality(msgs') \in Nat /\ Cardinality(msgs) \in Nat
        BY <2>1, <2>4, FS_CardinalityType
      <4>3. QED
        BY <2>1, <4>1, <4>2, NodesAssumption
    <3>2. QED
      BY <2>2, <3>1
  <2>6. \A m \in msgs' : MsgOK(m)
    BY <2>1, <2>2
  <2>7. QED
    BY <2>4, <2>5, <2>6 DEF MsgsOK
<1>7. lapses' \in 0..MaxLapses
  BY DEF LapsesStep
<1>8. QED
  BY <1>1, <1>2, <1>3, <1>4, <1>5, <1>6, <1>7 DEF IInv

-----------------------------------------------------------------------------
(***************************************************************************)
(* The handlers preserve the types.                                        *)
(***************************************************************************)

\* A message in hand, whoever takes it.
LEMMA InHand ==
    ASSUME IInv, NEW n \in Nodes, NEW m \in msgs
    PROVE  /\ MsgOK(m) /\ RowOK(n, table[n]) /\ EntriesOK(n, entries[n]) /\ LockOK(n, lock[n])
           /\ stage[n] \in Stages
           /\ RowOK(n, Learned(n, m)) /\ Learned(n, m)[n] = table[n][n]
           /\ From(n, m) \in Header /\ From(n, m) = Learned(n, m)[m.from]
           /\ Inst(n) \in 1..MaxInstance
<1>1. MsgOK(m) /\ RowOK(n, table[n]) /\ EntriesOK(n, entries[n]) /\ LockOK(n, lock[n])
      /\ stage[n] \in Stages /\ table \in [Nodes -> [Nodes -> Header]]
  BY DEF IInv, MsgsOK
<1>2. RowOK(n, Learned(n, m)) /\ Learned(n, m)[n] = table[n][n]
  BY <1>1, LearnedOK DEF MsgOK
<1>3. From(n, m) \in Header /\ From(n, m) = Learned(n, m)[m.from]
  BY <1>1, <1>2 DEF From, RowOK, MsgOK
<1>4. Inst(n) \in 1..MaxInstance
  BY <1>1, NodesAssumption DEF Inst, RowOK, Header
<1>5. QED
  BY <1>1, <1>2, <1>3, <1>4

\* Whether a range is the whole ring is true or false.
LEMMA ExtendedOK ==
    ASSUME NEW n, NEW m, NEW t, NEW b, IInv, n \in Nodes,
           b = Extended(n, m, t) \/ b = whole[n], whole' = [whole EXCEPT ![n] = b]
    PROVE  WholeStep(n)
<1>1. Extended(n, m, t) \in BOOLEAN
  BY DEF Extended
<1>2. whole[n] \in BOOLEAN
  BY DEF IInv
<1>3. b \in BOOLEAN
  BY <1>1, <1>2
<1>4. QED
  BY <1>3 DEF WholeStep

\* Receiving a message, as far as the types go.
LEMMA ReceivedOK ==
    ASSUME IInv, NEW n \in Nodes, NEW m, NEW kind, Received(n, m, kind)
    PROVE  /\ m \in msgs /\ m.kind = kind /\ m.to = n
           /\ table' = [table EXCEPT ![n] = Learned(n, m)] /\ table'[n] = Learned(n, m)
           /\ RowStep(n) /\ WholeStep(n) /\ RowOK(n, table'[n])
           /\ From(n, m).inst \in 1..MaxInstance
<1>1. /\ m \in msgs /\ m.kind = kind /\ m.to = n /\ Learned(n, m)[m.from].inst > 0
      /\ table' = [table EXCEPT ![n] = Learned(n, m)]
      /\ whole' = [whole EXCEPT ![n] = Extended(n, m, Learned(n, m))]
  BY DEF Received
<1>2. RowOK(n, Learned(n, m)) /\ From(n, m) \in Header /\ From(n, m) = Learned(n, m)[m.from]
  BY <1>1, InHand
<1>3. table'[n] = Learned(n, m)
  BY <1>1 DEF IInv
<1>4. WholeStep(n)
  BY <1>1, ExtendedOK
<1>5. RowStep(n)
  BY <1>1, <1>2 DEF RowStep
<1>6. From(n, m).inst \in 1..MaxInstance
  BY <1>1, <1>2, NodesAssumption DEF Header
<1>7. QED
  BY <1>1, <1>2, <1>3, <1>4, <1>5, <1>6

\* Exchanging a message for new ones.
LEMMA ExchangedOK ==
    ASSUME NEW m, NEW new, Exchanged(m, new), IsFiniteSet(new), \A x \in new : MsgOK(x)
    PROVE  MsgsStep
  BY DEF Exchanged, MsgsStep

\* Exchanging a message for at most one.
LEMMA ExchangedOne ==
    ASSUME NEW m, NEW new, NEW x, Exchanged(m, new), new = {} \/ (new = {x} /\ MsgOK(x))
    PROVE  MsgsStep
<1>1. IsFiniteSet(new)
  BY FS_EmptySet, FS_Singleton
<1>2. QED
  BY <1>1, ExchangedOK

\* Sending new messages, when there is room.
LEMMA SentOK ==
    ASSUME NEW new, msgs' = msgs \cup new, Cardinality(msgs') <= MaxMessages,
           IsFiniteSet(new), \A x \in new : MsgOK(x)
    PROVE  MsgsStep
  BY DEF MsgsStep

\* Nothing lapses.
LEMMA NoLapse ==
    ASSUME IInv, UNCHANGED lapses
    PROVE  LapsesStep
  BY DEF IInv, LapsesStep

\* A message for another instance: what it tells is learned, a fault is sent.
LEMMA UndeliveredOK ==
    ASSUME IInv, NEW n \in Nodes, NEW m, Undelivered(n, m)
    PROVE  IInv'
<1> DEFINE from == Learned(n, m)[m.from]
           fault == WithId(n, m.from, from.inst, "Fault", m.toInst)
<1>1. /\ m \in msgs
      /\ table' = [table EXCEPT ![n] = Learned(n, m)]
      /\ whole' = [whole EXCEPT ![n] =
                     IF m.toInst = Inst(n) THEN Extended(n, m, Learned(n, m)) ELSE whole[n]]
      /\ UNCHANGED <<stage, entries, lock, lapses>>
      /\ Exchanged(m, IF from.inst = 0 THEN {} ELSE {fault})
  BY DEF Undelivered
<1>2. MsgOK(m) /\ RowOK(n, Learned(n, m))
  BY <1>1, InHand
<1>3. RowStep(n)
  BY <1>1, <1>2 DEF RowStep
<1>4. WholeStep(n)
  BY <1>1, ExtendedOK
<1>5. RowOK(n, table'[n])
  BY <1>1, <1>2 DEF IInv
<1>6. MsgOK(fault)
  BY <1>2, <1>5, BuiltOK DEF MsgOK
<1> HIDE DEF fault, from
<1>7. MsgsStep
  BY <1>1, <1>6, ExchangedOne
<1>8. QED
  BY <1>1, <1>3, <1>4, <1>7, NoLapse, StepOK DEF StageStep, EntriesStep, LockStep

\* A fault: its sender may be taken for down.
LEMMA FaultHandlerOK ==
    ASSUME IInv, NEW n \in Nodes, NEW m, FaultHandler(n, m)
    PROVE  IInv'
<1> DEFINE t == Learned(n, m)
<1>1. /\ m \in msgs
      /\ table' = [table EXCEPT ![n] = Gone(t, m.from, m.id)]
      /\ whole' = [whole EXCEPT ![n] = Extended(n, m, t)]
      /\ UNCHANGED <<stage, entries, lock, lapses>>
      /\ Exchanged(m, {})
  BY DEF FaultHandler
<1>2. MsgOK(m) /\ RowOK(n, t)
  BY <1>1, InHand
<1>3. RowOK(n, Gone(t, m.from, m.id))
  BY <1>2, GoneOK DEF MsgOK
<1>4. RowStep(n)
  BY <1>1, <1>3 DEF RowStep
<1>5. WholeStep(n)
  BY <1>1, ExtendedOK
<1>6. MsgsStep
  BY <1>1, ExchangedOne
<1>7. QED
  BY <1>1, <1>4, <1>5, <1>6, NoLapse, StepOK DEF StageStep, EntriesStep, LockStep

\* A ping is learned from.
LEMMA PingHandlerOK ==
    ASSUME IInv, NEW n \in Nodes, NEW m, PingHandler(n, m)
    PROVE  IInv'
<1>1. Received(n, m, "Ping") /\ UNCHANGED <<stage, entries, lock, lapses>> /\ Exchanged(m, {})
  BY DEF PingHandler
<1>2. RowStep(n) /\ WholeStep(n)
  BY <1>1, ReceivedOK
<1>3. MsgsStep
  BY <1>1, ExchangedOne
<1>4. QED
  BY <1>1, <1>2, <1>3, NoLapse, StepOK DEF StageStep, EntriesStep, LockStep

\* A lock request: the lock goes to a node other than its own, with the next id.
LEMMA LockRequestHandlerOK ==
    ASSUME IInv, NEW n \in Nodes, NEW m, LockRequestHandler(n, m)
    PROVE  IInv'
<1> DEFINE reply(kind) == WithId(n, m.from, From(n, m).inst, kind, lock'[n].id)
           deny == [reply("LockDeny") EXCEPT !.owner = DenyOwner(n, m)]
           grant == reply("LockGrant")
           asked == Phase(n) = Routing /\ From(n, m).phase = Joining
<1>1. Received(n, m, "LockRequest") /\ UNCHANGED <<stage, entries, lapses>>
  BY DEF LockRequestHandler
<1>2. /\ m \in msgs /\ RowStep(n) /\ WholeStep(n) /\ RowOK(n, table'[n]) 
      /\ From(n, m).inst \in 1..MaxInstance
  BY <1>1, ReceivedOK
<1>3. MsgOK(m) /\ LockOK(n, lock[n]) /\ Learned(n, m)[n] = table[n][n] /\ From(n, m) = Learned(n, m)[m.from]
  BY <1>2, InHand
<1>4. lock = [k \in Nodes |-> lock[k]]
  BY DEF IInv
<1>5. \/ UNCHANGED lock /\ Exchanged(m, {})
      \/ UNCHANGED lock /\ Exchanged(m, {deny})
      \/ /\ asked /\ lock[n].id < MaxLockId
         /\ lock' = [lock EXCEPT ![n] = Granted(n, m, NextLockId(n))] /\ Exchanged(m, {grant})
  BY DEF LockRequestHandler
<1>6. CASE UNCHANGED lock /\ Exchanged(m, {})
  <2>1. MsgsStep
    BY <1>6, ExchangedOne
  <2>2. QED
    BY <1>1, <1>2, <1>6, <2>1, NoLapse, StepOK DEF StageStep, EntriesStep, LockStep
<1>7. CASE UNCHANGED lock /\ Exchanged(m, {deny})
  <2>1. DenyOwner(n, m) \in Nodes
    BY <1>3 DEF DenyOwner, LockOK
  <2>2. lock'[n].id \in 0..MaxLockId /\ m.from \in Nodes
    BY <1>3, <1>7 DEF LockOK, MsgOK
  <2>3. MsgOK(deny)
    BY <1>2, <2>1, <2>2, BuiltOK
  <2> HIDE DEF deny
  <2>4. MsgsStep
    BY <1>7, <2>3, ExchangedOne
  <2>5. QED
    BY <1>1, <1>2, <1>7, <2>4, NoLapse, StepOK DEF StageStep, EntriesStep, LockStep
<1>8. CASE /\ asked /\ lock[n].id < MaxLockId
           /\ lock' = [lock EXCEPT ![n] = Granted(n, m, NextLockId(n))] /\ Exchanged(m, {grant})
  <2>1. NextLockId(n) \in 0..MaxLockId
    BY <1>3, <1>8, NodesAssumption DEF NextLockId, LockOK
  <2>2. m.from /= n /\ m.from \in Nodes
    BY <1>3, <1>8 DEF Phase, MsgOK, Joining, Routing
  <2>3. LockOK(n, Granted(n, m, NextLockId(n))) /\ Granted(n, m, NextLockId(n)).id = NextLockId(n)
    BY <1>2, <2>1, <2>2 DEF Granted, LockOK
  <2>4. LockStep(n) /\ lock'[n].id = NextLockId(n)
    BY <1>4, <1>8, <2>3 DEF LockStep
  <2>5. MsgOK(grant)
    BY <1>2, <2>1, <2>2, <2>4, BuiltOK
  <2> HIDE DEF grant
  <2>6. MsgsStep
    BY <1>8, <2>5, ExchangedOne
  <2>7. QED
    BY <1>1, <1>2, <2>4, <2>6, NoLapse, StepOK DEF StageStep, EntriesStep
<1>9. QED
  BY <1>5, <1>6, <1>7, <1>8

\* A renewal comes from another node, which gets the lock again.
LEMMA LockRenewHandlerOK ==
    ASSUME IInv, NEW n \in Nodes, NEW m, LockRenewHandler(n, m)
    PROVE  IInv'
<1> DEFINE renewed == /\ From(n, m).phase = Joining
                      /\ m.id = lock[n].id /\ lock[n].owner /= n
                      /\ Extended(n, m, Learned(n, m))
           grant == [WithId(n, m.from, From(n, m).inst, "LockGrant", m.id) EXCEPT !.renew = TRUE]
<1>1. /\ Received(n, m, "LockRenew") /\ UNCHANGED <<stage, entries, lapses>>
      /\ lock' = IF renewed THEN [lock EXCEPT ![n] = Granted(n, m, m.id)] ELSE lock
      /\ Exchanged(m, IF renewed THEN {grant} ELSE {})
  BY DEF LockRenewHandler
<1>2. /\ m \in msgs /\ m.kind = "LockRenew" /\ m.to = n
      /\ RowStep(n) /\ WholeStep(n) /\ RowOK(n, table'[n])
      /\ From(n, m).inst \in 1..MaxInstance
  BY <1>1, ReceivedOK
<1>3. MsgOK(m)
  BY <1>2, InHand
<1>4. m.from \in Nodes /\ m.from /= n /\ m.id \in 0..MaxLockId
  BY <1>2, <1>3 DEF MsgOK
<1>5. LockOK(n, Granted(n, m, m.id))
  BY <1>2, <1>4 DEF Granted, LockOK
<1>6. MsgOK(grant)
  BY <1>2, <1>4, BuiltOK
<1> HIDE DEF renewed, grant
<1>7. LockStep(n)
  BY <1>1, <1>5 DEF LockStep
<1>8. MsgsStep
  BY <1>1, <1>6, ExchangedOne
<1>9. QED
  BY <1>1, <1>2, <1>7, <1>8, NoLapse, StepOK DEF StageStep, EntriesStep

\* A lock that is released has its own node as owner, and is free.
LEMMA ReleaseLockOK ==
    ASSUME IInv, NEW n \in Nodes, lock' = ReleaseLock(n) \/ UNCHANGED lock
    PROVE  LockStep(n)
<1> DEFINE l == [owner |-> n, ownerInst |-> Inst(n), id |-> lock[n].id, held |-> FALSE]
<1>1. Inst(n) \in 1..MaxInstance
  BY NodesAssumption DEF IInv, Inst, RowOK, Header
<1>2. LockOK(n, lock[n])
  BY DEF IInv
<1>3. LockOK(n, l)
  BY <1>1, <1>2 DEF LockOK
<1>4. QED
  BY <1>3 DEF ReleaseLock, LockStep

\* A release.
LEMMA LockReleaseHandlerOK ==
    ASSUME IInv, NEW n \in Nodes, NEW m, LockReleaseHandler(n, m)
    PROVE  IInv'
<1>1. /\ Received(n, m, "LockRelease") /\ UNCHANGED <<stage, entries, lapses>>
      /\ lock' = ReleaseLock(n) \/ UNCHANGED lock
      /\ Exchanged(m, {})
  BY DEF LockReleaseHandler
<1>2. RowStep(n) /\ WholeStep(n)
  BY <1>1, ReceivedOK
<1>3. MsgsStep
  BY <1>1, ExchangedOne
<1>4. QED
  BY <1>1, <1>2, <1>3, ReleaseLockOK, NoLapse, StepOK DEF StageStep, EntriesStep

\* An unlock request.
LEMMA UnlockHandlerOK ==
    ASSUME IInv, NEW n \in Nodes, NEW m, UnlockHandler(n, m)
    PROVE  IInv'
<1> DEFINE kind == IF m.id = lock[n].id THEN "UnlockGrant" ELSE "UnlockDeny"
           answer == WithId(n, m.from, From(n, m).inst, kind, m.id)
<1>1. /\ Received(n, m, "Unlock") /\ UNCHANGED <<stage, entries, lapses>>
      /\ lock' = ReleaseLock(n) \/ UNCHANGED lock
      /\ Exchanged(m, {answer})
  BY DEF UnlockHandler
<1>2. m \in msgs /\ m.kind = "Unlock" /\ RowStep(n) /\ WholeStep(n) /\ RowOK(n, table'[n])
  BY <1>1, ReceivedOK
<1>3. m.from \in Nodes /\ m.id \in 0..MaxLockId
  BY <1>2, InHand DEF MsgOK
<1>4. MsgOK(answer)
  <2>1. kind /= "LockRenew"
    OBVIOUS
  <2>2. QED
    BY <1>2, <1>3, <2>1, BuiltOK
<1> HIDE DEF answer
<1>5. MsgsStep
  BY <1>1, <1>4, ExchangedOne
<1>6. QED
  BY <1>1, <1>2, <1>5, ReleaseLockOK, NoLapse, StepOK DEF StageStep, EntriesStep

\* The answer to a query.
LEMMA QueryCompletedOK ==
    ASSUME IInv, NEW j \in Nodes, NEW m, OnNeighborhoodQueryRequestCompleted(j, m)
    PROVE  IInv'
<1>1. /\ Received(j, m, "QueryReply") /\ UNCHANGED <<entries, lock, lapses>>
      /\ stage' = stage \/ stage' = [stage EXCEPT ![j] = "Locking"]
      /\ Exchanged(m, {})
  BY DEF OnNeighborhoodQueryRequestCompleted
<1>2. RowStep(j) /\ WholeStep(j)
  BY <1>1, ReceivedOK
<1>3. MsgsStep
  BY <1>1, ExchangedOne
<1>4. StageStep(j)
  BY <1>1 DEF StageStep, Stages
<1>5. QED
  BY <1>1, <1>2, <1>3, <1>4, NoLapse, StepOK DEF EntriesStep, LockStep

\* A query that reaches a node of the ring.
LEMMA QueryRequestHandlerOK ==
    ASSUME IInv, NEW n \in Nodes, NEW j \in Nodes, NeighborhoodQueryRequestHandler(n, j)
    PROVE  IInv'
<1> DEFINE query == [kind |-> "Query", from |-> j, headers |-> table[j], range |-> FALSE]
           reply == Message(n, j, Inst(j), "QueryReply")
<1>1. /\ table' = [table EXCEPT ![n] = Learned(n, query)]
      /\ UNCHANGED <<whole, stage, entries, lock, lapses>>
      /\ msgs' = msgs \cup {reply} /\ Cardinality(msgs') <= MaxMessages
  BY DEF NeighborhoodQueryRequestHandler
<1>2. RowOK(n, table[n]) /\ RowOK(j, table[j]) /\ table \in [Nodes -> [Nodes -> Header]]
  BY DEF IInv
<1>3. query.headers = table[j]
  OBVIOUS
<1> HIDE DEF query
<1>4. RowOK(n, Learned(n, query))
  BY <1>2, <1>3, LearnedOK DEF RowOK
<1>5. RowOK(n, table'[n]) /\ RowStep(n)
  BY <1>1, <1>2, <1>4 DEF RowStep
<1>6. MsgOK(reply)
  BY <1>5, ToldOK
<1> HIDE DEF reply
<1>7. IsFiniteSet({reply})
  BY FS_Singleton
<1>8. MsgsStep
  BY <1>1, <1>6, <1>7, SentOK
<1>9. QED
  BY <1>1, <1>5, <1>8, NoLapse, StepOK DEF WholeStep, StageStep, EntriesStep, LockStep

\* The periodic ping.
LEMMA PingOK ==
    ASSUME IInv, NEW n \in Nodes, NEW k \in Nodes, Ping(n, k)
    PROVE  IInv'
<1> DEFINE ping == Message(n, k, table[n][k].inst, "Ping")
<1>1. /\ UNCHANGED <<table, whole, stage, entries, lock, lapses>>
      /\ msgs' = msgs \cup {ping} /\ Cardinality(msgs') <= MaxMessages
  BY DEF Ping
<1>2. RowOK(n, table'[n])
  BY <1>1 DEF IInv
<1>3. MsgOK(ping)
  BY <1>2, ToldOK
<1> HIDE DEF ping
<1>4. IsFiniteSet({ping})
  BY FS_Singleton
<1>5. MsgsStep
  BY <1>1, <1>3, <1>4, SentOK
<1>6. QED
  BY <1>1, <1>5, NoLapse, StepOK DEF RowStep, WholeStep, StageStep, EntriesStep, LockStep

\* Messages that stay.
LEMMA NoMessages ==
    ASSUME msgs' \subseteq msgs
    PROVE  MsgsStep
<1>1. IsFiniteSet({})
  BY FS_EmptySet
<1>2. QED
  BY <1>1 DEF MsgsStep

\* A message is lost.
LEMMA LoseOK ==
    ASSUME IInv, NEW m \in msgs, Lose(m)
    PROVE  IInv'
<1>1. msgs' = msgs \ {m} /\ UNCHANGED <<table, whole, stage, entries, lock, lapses>>
  BY DEF Lose
<1>2. MsgsStep
  BY <1>1, NoMessages
<1>3. m.to \in Nodes
  BY DEF IInv, MsgsOK, MsgOK
<1>4. QED
  BY <1>1, <1>2, <1>3, NoLapse, StepOK DEF RowStep, WholeStep, StageStep, EntriesStep, LockStep

\* A lock expires or is reset.
LEMMA LockLapsesOK ==
    ASSUME IInv, NEW n \in Nodes, LockExpires(n) \/ ResetLock(n)
    PROVE  IInv'
<1>1. lapses < MaxLapses /\ lapses' = lapses + 1 /\ UNCHANGED <<table, whole, stage, entries, msgs>>
  BY DEF LockExpires, ResetLock
<1>2. LapsesStep
  BY <1>1, NodesAssumption DEF IInv, LapsesStep
<1>3. LockStep(n)
  <2>1. CASE LockExpires(n)
    <3>1. lock' = [lock EXCEPT ![n].held = FALSE]
      BY <2>1 DEF LockExpires
    <3>2. LockOK(n, lock[n]) /\ lock = [k \in Nodes |-> lock[k]]
      BY DEF IInv
    <3>3. LockOK(n, [lock[n] EXCEPT !.held = FALSE])
      BY <3>2 DEF LockOK
    <3>4. lock' = [lock EXCEPT ![n] = [lock[n] EXCEPT !.held = FALSE]]
      BY <3>1
    <3>5. QED
      BY <3>3, <3>4 DEF LockStep
  <2>2. CASE ResetLock(n)
    BY <2>2, ReleaseLockOK DEF ResetLock
  <2>3. QED
    BY <2>1, <2>2
<1>4. MsgsStep
  BY <1>1, NoMessages
<1>5. QED
  BY <1>1, <1>2, <1>3, <1>4, StepOK DEF RowStep, WholeStep, StageStep, EntriesStep

\* A node's own phase changes.
LEMMA OwnPhaseStep ==
    ASSUME IInv, NEW n \in Nodes, NEW p \in Booting..Shutdown,
           table' = [table EXCEPT ![n][n].phase = p]
    PROVE  RowStep(n)
<1>1. RowOK(n, table[n]) /\ table \in [Nodes -> [Nodes -> Header]]
  BY DEF IInv
<1>2. RowOK(n, [table[n] EXCEPT ![n].phase = p])
  BY <1>1, OwnPhaseOK
<1>3. table' = [table EXCEPT ![n] = [table[n] EXCEPT ![n].phase = p]]
  OBVIOUS
<1>4. QED
  BY <1>2, <1>3 DEF RowStep

\* A node closes, inserts itself or is in the ring.
LEMMA PhaseStepsOK ==
    ASSUME IInv, NEW n \in Nodes, Close(n) \/ StartLeaseEstablish(n) \/ StartRouting(n)
    PROVE  IInv'
<1>1. UNCHANGED table \/ \E p \in Booting..Shutdown : table' = [table EXCEPT ![n][n].phase = p]
  <2>1. {Shutdown, Inserting, Routing} \subseteq Booting..Shutdown
    BY DEF Booting, Inserting, Routing, Shutdown
  <2>2. \/ UNCHANGED table
        \/ table' = [table EXCEPT ![n][n].phase = Shutdown]
        \/ table' = [table EXCEPT ![n][n].phase = Inserting]
        \/ table' = [table EXCEPT ![n][n].phase = Routing]
    BY DEF Close, StartLeaseEstablish, StartRouting
  <2>3. QED
    BY <2>1, <2>2
<1>2. RowStep(n)
  BY <1>1, OwnPhaseStep DEF RowStep
<1>3. LapsesStep
  BY NodesAssumption DEF Close, StartLeaseEstablish, StartRouting, LapsesStep, IInv
<1>4. UNCHANGED <<whole, stage, entries, lock, msgs>>
  BY DEF Close, StartLeaseEstablish, StartRouting
<1>5. MsgsStep
  BY <1>4, NoMessages
<1>6. QED
  BY <1>2, <1>3, <1>4, <1>5, StepOK DEF WholeStep, StageStep, EntriesStep, LockStep

\* The lease layer tells of a node that is down.
LEMMA SetShutdownOK ==
    ASSUME IInv, NEW n \in Nodes, NEW k \in Nodes, SetShutdown(n, k)
    PROVE  IInv'
<1>1. table' = [table EXCEPT ![n] = Gone(@, k, Inst(k))] /\ UNCHANGED <<whole, stage, entries, lock, msgs, lapses>>
  BY DEF SetShutdown
<1>2. RowOK(n, Gone(table[n], k, Inst(k)))
  BY GoneOK DEF IInv
<1>3. RowStep(n)
  BY <1>1, <1>2 DEF RowStep
<1>4. MsgsStep
  BY <1>1, NoMessages
<1>5. QED
  BY <1>1, <1>3, <1>4, NoLapse, StepOK DEF WholeStep, StageStep, EntriesStep, LockStep

\* A node that starts over: first its stage and entries,
LEMMA ResetOK ==
    ASSUME IInv, NEW j \in Nodes, NEW cs, ResetStateForJoining(j, cs)
    PROVE  StageStep(j) /\ EntriesStep(j)
<1>1. /\ stage' = [stage EXCEPT ![j] = IF stage[j] = "Routing" THEN stage[j] ELSE "Query"]
      /\ entries' = [entries EXCEPT ![j] = NoEntries]
  BY DEF ResetStateForJoining
<1>2. StageStep(j)
  BY <1>1 DEF StageStep, Stages
<1>3. EntriesOK(j, NoEntries)
  BY DEF EntriesOK, NoEntries
<1>4. EntriesStep(j)
  BY <1>1, <1>3 DEF EntriesStep
<1>5. QED
  BY <1>2, <1>4

\* then its instance.
LEMMA RestartInstanceOK ==
    ASSUME IInv, CallsOK, NEW j \in Nodes, RestartInstance(j)
    PROVE  IInv'
<1>1. /\ "RestartInstance" \in calls[j] /\ UNCHANGED <<whole, stage, entries, lock, msgs, lapses>>
      /\ \/ UNCHANGED table
         \/ table' = [table EXCEPT ![j][j] = [inst |-> Inst(j) + 1, phase |-> Joining]]
  BY DEF RestartInstance
<1>2. RowOK(j, [table[j] EXCEPT ![j] = [inst |-> Inst(j) + 1, phase |-> Joining]])
  BY <1>1, RebornOK DEF IInv, CallsOK
<1>3. table' = [table EXCEPT ![j][j] = [inst |-> Inst(j) + 1, phase |-> Joining]]
        => table' = [table EXCEPT ![j] = [table[j] EXCEPT ![j] = [inst |-> Inst(j) + 1, phase |-> Joining]]]
  OBVIOUS
<1>4. RowStep(j)
  BY <1>1, <1>2, <1>3 DEF RowStep
<1>5. MsgsStep
  BY <1>1, NoMessages
<1>6. QED
  BY <1>1, <1>4, <1>5, NoLapse, StepOK DEF WholeStep, StageStep, EntriesStep, LockStep

\* A step towards the next stage.
LEMMA CheckStep ==
    ASSUME NEW j \in Nodes, NEW es, NEW st \in {"Locking", "Establishing", "UnLocking"},
           EntriesOK(j, es), CheckCompletion(j, st, es)
    PROVE  StageStep(j) /\ EntriesStep(j)
<1>1. PICK ns, ne :
              /\ ns \in Stages
              /\ stage' = [stage EXCEPT ![j] = ns] /\ entries' = [entries EXCEPT ![j] = ne]
              /\ EntriesOK(j, ne)
  BY CheckOK
<1>2. QED
  BY <1>1 DEF StageStep, EntriesStep

\* One entry of a node is replaced by another.
LEMMA ReplaceOK ==
    ASSUME NEW j \in Nodes, NEW es, NEW k, NEW e \in Entry, EntriesOK(j, es)
    PROVE  EntriesOK(j, [es EXCEPT ![k] = e])
  BY DEF EntriesOK

\* The lease with a node is established or not.
LEMMA LeaseEstablishHandlerOK ==
    ASSUME IInv, NEW j \in Nodes, NEW k \in Nodes, LeaseEstablishHandler(j, k)
    PROVE  IInv'
<1> DEFINE es == [entries[j] EXCEPT ![k].done = TRUE]
<1>1. UNCHANGED <<table, whole, lock, msgs>> /\ k \in DOMAIN entries[j]
  BY DEF LeaseEstablishHandler
<1>2. \/ CheckCompletion(j, "Establishing", es) /\ UNCHANGED lapses
      \/ lapses < MaxLapses /\ lapses' = lapses + 1 /\ ResetStateForJoining(j, calls[j])
  BY DEF LeaseEstablishHandler
<1>3. MsgsStep
  BY <1>1, NoMessages
<1>4. EntriesOK(j, entries[j]) /\ RowOK(j, table[j])
  BY DEF IInv
<1>5. CASE CheckCompletion(j, "Establishing", es) /\ UNCHANGED lapses
  <2>1. entries[j][k] \in Entry
    BY <1>1, <1>4 DEF EntriesOK
  <2>2. [entries[j][k] EXCEPT !.done = TRUE] \in Entry
    BY <2>1 DEF Entry
  <2>3. es = [entries[j] EXCEPT ![k] = [entries[j][k] EXCEPT !.done = TRUE]]
    BY <1>1
  <2>4. EntriesOK(j, es)
    BY <1>4, <2>2, <2>3, ReplaceOK
  <2> HIDE DEF es
  <2>5. StageStep(j) /\ EntriesStep(j)
    BY <1>5, <2>4, CheckStep
  <2>6. QED
    BY <1>1, <1>3, <1>5, <2>5, NoLapse, StepOK DEF RowStep, WholeStep, LockStep
<1>6. CASE lapses < MaxLapses /\ lapses' = lapses + 1 /\ ResetStateForJoining(j, calls[j])
  <2>1. StageStep(j) /\ EntriesStep(j)
    BY <1>6, ResetOK
  <2>2. LapsesStep
    BY <1>6, NodesAssumption DEF IInv, LapsesStep
  <2>3. QED
    BY <1>1, <1>3, <2>1, <2>2, StepOK DEF RowStep, WholeStep, LockStep
<1>7. QED
  BY <1>2, <1>5, <1>6

\* The unlock requests.
LEMMA RunUnLockingOK ==
    ASSUME IInv, NEW j \in Nodes, RunUnLocking(j)
    PROVE  IInv'
<1> DEFINE es == entries[j]
           w(k) == WithId(j, k, es[k].inst, "Unlock", es[k].id)
<1>1. UNCHANGED <<table, whole, stage, entries, lock>> /\ Cardinality(msgs') <= MaxMessages
  BY DEF RunUnLocking
<1>2. UNCHANGED lapses \/ (lapses < MaxLapses /\ lapses' = lapses + 1)
  BY DEF RunUnLocking
<1>3. PICK due \in SUBSET DOMAIN es : msgs' = msgs \cup {w(k) : k \in due}
  BY DEF RunUnLocking
<1>4. EntriesOK(j, es) /\ RowOK(j, table[j])
  BY DEF IInv
<1>6. LapsesStep
  BY <1>2, NodesAssumption DEF IInv, LapsesStep
<1>7. RowOK(j, table'[j])
  BY <1>1, <1>4
<1>8. \A k \in due : MsgOK(w(k))
  <2> TAKE k \in due
  <2>1. k \in Nodes /\ es[k].id \in 0..MaxLockId
    BY <1>4 DEF EntriesOK, Entry
  <2>2. QED
    BY <1>7, <2>1, BuiltOK
<1>9. IsFiniteSet({w(k) : k \in due})
  <2> DEFINE R == {w(k) : k \in due}
  <2>1. IsFiniteSet(due)
    BY <1>4, FS_Subset, NodesAssumption DEF EntriesOK
  <2> HIDE DEF w
  <2>2. [k \in due |-> w(k)] \in [due -> R] /\ \A y \in R : \E x \in due : [k \in due |-> w(k)][x] = y
    OBVIOUS
  <2>3. QED
    BY <2>1, <2>2, FiniteImage
<1> HIDE DEF w
<1>10. MsgsStep
  BY <1>1, <1>3, <1>8, <1>9, SentOK
<1>11. QED
  BY <1>1, <1>6, <1>10, StepOK DEF RowStep, WholeStep, StageStep, EntriesStep, LockStep

\* The second half of the timer's step: a reset or nothing.
LEMMA RestartUnLockingOK ==
    ASSUME IInv, NEW j \in Nodes, NEW c, RestartUnLocking(j, c)
    PROVE  IInv'
<1>1. /\ UNCHANGED <<table, whole, lock, msgs, lapses>>
      /\ UNCHANGED <<stage, entries>> \/ ResetStateForJoining(j, calls[j] \ {c})
  BY DEF RestartUnLocking
<1>2. StageStep(j) /\ EntriesStep(j)
  BY <1>1, ResetOK DEF StageStep, EntriesStep
<1>3. MsgsStep
  BY <1>1, NoMessages
<1>4. QED
  BY <1>1, <1>2, <1>3, NoLapse, StepOK DEF RowStep, WholeStep, LockStep

\* An answer to an unlock request: the entry is done.
LEMMA UnLockGrantHandlerOK ==
    ASSUME IInv, NEW j \in Nodes, NEW m, UnLockGrantHandler(j, m)
    PROVE  IInv'
<1> DEFINE es == [entries[j] EXCEPT ![m.from].done = TRUE]
<1>1. /\ Received(j, m, "UnlockGrant") /\ UNCHANGED <<lock, lapses>> /\ Exchanged(m, {})
      /\ \/ m.from \in DOMAIN entries[j] /\ CheckCompletion(j, "UnLocking", es)
         \/ UNCHANGED <<stage, entries>>
  BY DEF UnLockGrantHandler, Answers, HasLock
<1>2. RowStep(j) /\ WholeStep(j)
  BY <1>1, ReceivedOK
<1>3. MsgsStep
  BY <1>1, ExchangedOne
<1>4. StageStep(j) /\ EntriesStep(j)
  <2>1. CASE UNCHANGED <<stage, entries>>
    BY <2>1 DEF StageStep, EntriesStep
  <2>2. CASE m.from \in DOMAIN entries[j] /\ CheckCompletion(j, "UnLocking", es)
    <3>1. EntriesOK(j, entries[j]) /\ entries[j][m.from] \in Entry
      BY <2>2 DEF IInv, EntriesOK
    <3>2. [entries[j][m.from] EXCEPT !.done = TRUE] \in Entry
      BY <3>1 DEF Entry
    <3>3. es = [entries[j] EXCEPT ![m.from] = [entries[j][m.from] EXCEPT !.done = TRUE]]
      BY <2>2
    <3>4. EntriesOK(j, es)
      BY <3>1, <3>2, <3>3, ReplaceOK
    <3> HIDE DEF es
    <3>5. QED
      BY <2>2, <3>4, CheckStep
  <2>3. QED
    BY <1>1, <2>1, <2>2
<1>5. QED
  BY <1>1, <1>2, <1>3, <1>4, NoLapse, StepOK DEF LockStep

\* An unlock request that is denied: the node may start over.
LEMMA UnLockDenyHandlerOK ==
    ASSUME IInv, NEW j \in Nodes, NEW m, UnLockDenyHandler(j, m)
    PROVE  IInv'
<1>1. /\ Received(j, m, "UnlockDeny")
      /\ UNCHANGED <<stage, entries>> \/ ResetStateForJoining(j, calls[j])
      /\ UNCHANGED <<lock, lapses>> /\ Exchanged(m, {})
  BY DEF UnLockDenyHandler
<1>2. RowStep(j) /\ WholeStep(j)
  BY <1>1, ReceivedOK
<1>3. MsgsStep
  BY <1>1, ExchangedOne
<1>4. StageStep(j) /\ EntriesStep(j)
  BY <1>1, ResetOK DEF StageStep, EntriesStep
<1>5. QED
  BY <1>1, <1>2, <1>3, <1>4, NoLapse, StepOK DEF LockStep

-----------------------------------------------------------------------------
(***************************************************************************)
(* A node that collects locks.                                             *)
(***************************************************************************)

\* Where the lock of an entry of next comes from: node j had it, or the element
\* (k, id) was given to it.
FromBefore(j, next, k) ==
    k \in DOMAIN entries[j] /\ entries[j][k].done /\ next[k].id = entries[j][k].id

\* The entries after a grant: a lock is new only if the grant is no renewal.
LEMMA GrantEntries ==
    ASSUME NEW j \in Nodes, NEW t, NEW k, NEW id \in 0..MaxLockId, NEW renew,
           EntriesOK(j, entries[j]), RowOK(j, t),
           NEW next,
           LET es == UpdateNeighborhood(j, entries[j], t)
               known == [es EXCEPT ![k].known = TRUE]
           IN  \/ next = es
               \/ k \in DOMAIN es /\ next = known
               \/ /\ k \in DOMAIN es /\ (~renew \/ Completed(known[k]))
                  /\ next = [known EXCEPT ![k] = AcquireLock(@, id)]
    PROVE  /\ EntriesOK(j, next)
           /\ \A x \in DOMAIN next : next[x].done =>
                 \/ FromBefore(j, next, x)
                 \/ x = k /\ ~renew /\ next[x].id = id
<1> DEFINE es == UpdateNeighborhood(j, entries[j], t)
           known == [es EXCEPT ![k].known = TRUE]
<1>1. EntriesOK(j, es) /\ \A x \in DOMAIN es : es[x].done => x \in DOMAIN entries[j] /\ es[x] = entries[j][x]
  BY UpdateOK
<1> HIDE DEF es
<1>2. \A x \in DOMAIN es : es[x].done => FromBefore(j, es, x)
  BY <1>1 DEF FromBefore
<1>3. CASE next = es
  BY <1>1, <1>2, <1>3
<1>4. ASSUME k \in DOMAIN es
      PROVE  /\ EntriesOK(j, known) /\ DOMAIN known = DOMAIN es
             /\ \A x \in DOMAIN es : known[x].done = es[x].done /\ known[x].id = es[x].id
  <2>1. es[k] \in Entry
    BY <1>1, <1>4 DEF EntriesOK
  <2> DEFINE e == [es[k] EXCEPT !.known = TRUE]
  <2>2. e \in Entry /\ e.done = es[k].done /\ e.id = es[k].id
    BY <2>1 DEF Entry
  <2>3. known = [es EXCEPT ![k] = e]
    OBVIOUS
  <2> HIDE DEF e
  <2>4. EntriesOK(j, known)
    BY <1>1, <2>2, <2>3, ReplaceOK
  <2>5. DOMAIN known = DOMAIN es /\ \A x \in DOMAIN es : known[x] = IF x = k THEN e ELSE es[x]
    BY <1>1, <2>3 DEF EntriesOK
  <2>6. QED
    BY <2>2, <2>4, <2>5
<1> HIDE DEF known
<1>5. CASE k \in DOMAIN es /\ next = known
  BY <1>2, <1>4, <1>5 DEF FromBefore
<1>6. CASE /\ k \in DOMAIN es /\ (~renew \/ Completed(known[k]))
           /\ next = [known EXCEPT ![k] = AcquireLock(@, id)]
  <2>1. known[k] \in Entry /\ EntriesOK(j, known) /\ DOMAIN known = DOMAIN es
    BY <1>4, <1>6 DEF EntriesOK
  <2> DEFINE e == AcquireLock(known[k], id)
  <2>2. e \in Entry /\ e.done /\ e.id = IF known[k].done THEN known[k].id ELSE id
    BY <2>1 DEF AcquireLock, Entry
  <2>3. next = [known EXCEPT ![k] = e]
    BY <1>6
  <2> HIDE DEF e
  <2>4. EntriesOK(j, next)
    BY <2>1, <2>2, <2>3, ReplaceOK
  <2>5. DOMAIN next = DOMAIN es /\ \A x \in DOMAIN es : next[x] = IF x = k THEN e ELSE known[x]
    BY <2>1, <2>3 DEF EntriesOK
  <2>6. renew => known[k].done
    BY <1>6 DEF Completed
  <2>7. ASSUME NEW x \in DOMAIN next, next[x].done
        PROVE  FromBefore(j, next, x) \/ (x = k /\ ~renew /\ next[x].id = id)
    <3>1. CASE x = k /\ ~known[k].done
      BY <2>2, <2>5, <2>6, <3>1
    <3>2. CASE x /= k \/ known[k].done
      <4>1. known[x].done /\ next[x].id = known[x].id
        BY <2>2, <2>5, <2>7, <3>2
      <4>2. es[x].done /\ next[x].id = es[x].id
        BY <1>4, <1>6, <2>5, <4>1
      <4>3. QED
        BY <1>2, <2>5, <4>2 DEF FromBefore
    <3>3. QED
      BY <3>1, <3>2
  <2>8. QED
    BY <2>4, <2>7
<1>7. QED
  BY <1>3, <1>5, <1>6 DEF es, known

\* A grant, taken or released.
LEMMA LockGrantStep ==
    ASSUME IInv, NEW j \in Nodes, NEW m, LockGrantHandler(j, m)
    PROVE  /\ Received(j, m, "LockGrant") /\ UNCHANGED <<lock, lapses>>
           /\ \/ stage[j] /= "Locking" /\ UNCHANGED <<stage, entries>>
              \/ /\ stage[j] = "Locking"
                 /\ \E next : /\ CheckCompletion(j, "Locking", next)
                              /\ EntriesOK(j, next)
                              /\ \A x \in DOMAIN next : next[x].done =>
                                    \/ FromBefore(j, next, x)
                                    \/ x = m.from /\ ~m.renew /\ next[x].id = m.id
           /\ \E new : /\ Exchanged(m, new) /\ IsFiniteSet(new)
                       /\ \A x \in new : MsgOK(x) /\ x.kind = "LockRelease"
<1> DEFINE t == Learned(j, m)
           es == UpdateNeighborhood(j, entries[j], t)
           known == [es EXCEPT ![m.from].known = TRUE]
           acquired ==
             CASE stage[j] = "Locking" -> /\ HasLock(es, m.from, From(j, m).inst)
                                          /\ ~m.renew \/ Completed(known[m.from])
               [] stage[j] \in {"Establishing", "UnLocking"} ->
                     HasLock(entries[j], m.from, From(j, m).inst)
               [] OTHER -> FALSE
           next == IF ~HasLock(es, m.from, From(j, m).inst) THEN es
                   ELSE IF ~acquired THEN known
                   ELSE [known EXCEPT ![m.from] = AcquireLock(@, m.id)]
           rel == WithId(j, m.from, From(j, m).inst, "LockRelease", m.id)
           R == IF stage[j] = "Locking" THEN Releases(j, entries[j], t) ELSE {}
           B == IF acquired \/ m.renew THEN {} ELSE {rel}
<1>1. /\ Received(j, m, "LockGrant") /\ UNCHANGED <<lock, lapses>>
      /\ IF stage[j] = "Locking" THEN CheckCompletion(j, "Locking", next)
         ELSE UNCHANGED <<stage, entries>>
      /\ Exchanged(m, R \cup B)
  BY DEF LockGrantHandler
<1>2. /\ m \in msgs /\ m.kind = "LockGrant" /\ RowOK(j, table'[j])
  BY <1>1, ReceivedOK
<1>3. MsgOK(m) /\ RowOK(j, t) /\ EntriesOK(j, entries[j])
  BY <1>2, InHand
<1>4. m.from \in Nodes /\ m.id \in 0..MaxLockId
  BY <1>2, <1>3 DEF MsgOK
<1>5. IsFiniteSet(R) /\ \A x \in R : MsgOK(x) /\ x.kind = "LockRelease"
  BY <1>2, <1>3, ReleasesOK, FS_EmptySet
<1>6. IsFiniteSet(B) /\ \A x \in B : MsgOK(x) /\ x.kind = "LockRelease"
  <2>1. MsgOK(rel)
    BY <1>2, <1>4, BuiltOK
  <2>2. rel.kind = "LockRelease"
    BY DEF WithId, Message
  <2> HIDE DEF rel
  <2>3. QED
    BY <2>1, <2>2, FS_EmptySet, FS_Singleton
<1>7. IsFiniteSet(R \cup B)
  BY <1>5, <1>6, FS_Union
<1>8. \E new : /\ Exchanged(m, new) /\ IsFiniteSet(new)
               /\ \A x \in new : MsgOK(x) /\ x.kind = "LockRelease"
  <2> HIDE DEF R, B
  <2>1. QED
    BY <1>1, <1>5, <1>6, <1>7
<1>9. ASSUME stage[j] = "Locking"
      PROVE  /\ EntriesOK(j, next)
             /\ \A x \in DOMAIN next : next[x].done =>
                   \/ FromBefore(j, next, x)
                   \/ x = m.from /\ ~m.renew /\ next[x].id = m.id
  <2>1. acquired => ~m.renew \/ Completed(known[m.from])
    BY <1>9
  <2> HIDE DEF acquired
  <2>2. \/ next = es
        \/ m.from \in DOMAIN es /\ next = known
        \/ /\ m.from \in DOMAIN es /\ (~m.renew \/ Completed(known[m.from]))
           /\ next = [known EXCEPT ![m.from] = AcquireLock(@, m.id)]
    BY <2>1 DEF HasLock
  <2> HIDE DEF next
  <2>3. QED
    BY <1>3, <1>4, <2>2, GrantEntries
<1> HIDE DEF next
<1>10. QED
  BY <1>1, <1>8, <1>9

\* What a node tells of its lock entries.
LEMMA TransferOK ==
    ASSUME NEW j \in Nodes, NEW es, EntriesOK(j, es), NEW S \in SUBSET DOMAIN es
    PROVE  LET L == {Transfer(k, es[k]) : k \in S}
           IN  L \subseteq LockItem /\ IsFiniteSet(L)
<1> DEFINE w(k) == Transfer(k, es[k])
           L == {w(k) : k \in S}
<1>1. \A k \in S : w(k) \in LockItem
  <2> TAKE k \in S
  <2>1. k \in Nodes /\ es[k] \in Entry
    BY DEF EntriesOK
  <2>2. QED
    BY <2>1 DEF Transfer, LockItem, Entry
<1>2. IsFiniteSet(S)
  BY FS_Subset, NodesAssumption DEF EntriesOK
<1> HIDE DEF w
<1>3. [k \in S |-> w(k)] \in [S -> L] /\ \A y \in L : \E x \in S : [k \in S |-> w(k)][x] = y
  OBVIOUS
<1>4. IsFiniteSet(L)
  BY <1>2, <1>3, FiniteImage
<1>5. QED
  BY <1>1, <1>4 DEF w

\* A denied request.
LEMMA LockDenyStep ==
    ASSUME IInv, NEW j \in Nodes, NEW m, LockDenyHandler(j, m)
    PROVE  /\ Received(j, m, "LockDeny") /\ UNCHANGED <<stage, lock, lapses>>
           /\ \/ UNCHANGED entries
              \/ /\ stage[j] = "Locking"
                 /\ \E next : /\ entries' = [entries EXCEPT ![j] = next]
                              /\ EntriesOK(j, next)
                              /\ \A x \in DOMAIN next : next[x].done => FromBefore(j, next, x)
           /\ \E new : /\ Exchanged(m, new) /\ IsFiniteSet(new)
                       /\ \A x \in new : MsgOK(x) /\ x.kind \in {"LockRelease", "TransferRequest"}
<1> DEFINE t == Learned(j, m)
           es == UpdateNeighborhood(j, entries[j], t)
           asking == [es EXCEPT ![m.from].known = TRUE]
           L == {Transfer(k, asking[k]) : k \in DOMAIN asking}
           request == [Message(j, m.owner, t[m.owner].inst, "TransferRequest") EXCEPT !.locks = L]
           R == Releases(j, entries[j], t)
           B == IF \E k \in DOMAIN asking : Completed(asking[k]) THEN {request} ELSE {}
<1>1. Received(j, m, "LockDeny") /\ UNCHANGED <<stage, lock, lapses>>
  BY DEF LockDenyHandler
<1>2. \/ UNCHANGED entries /\ Exchanged(m, {})
      \/ stage[j] = "Locking" /\ entries' = [entries EXCEPT ![j] = es] /\ Exchanged(m, {})
      \/ /\ stage[j] = "Locking" /\ m.from \in DOMAIN es
         /\ entries' = [entries EXCEPT ![j] = asking] /\ Exchanged(m, R \cup B)
  BY DEF LockDenyHandler, HasLock
<1>3. m \in msgs /\ RowOK(j, table'[j])
  BY <1>1, ReceivedOK
<1>4. MsgOK(m) /\ RowOK(j, t) /\ EntriesOK(j, entries[j])
  BY <1>3, InHand
<1>5. m.from \in Nodes /\ m.owner \in Nodes
  BY <1>4 DEF MsgOK
<1>6. /\ EntriesOK(j, es)
      /\ \A x \in DOMAIN es : es[x].done => FromBefore(j, es, x)
  BY <1>4, GrantEntries, UpdateOK DEF FromBefore
<1>7. ASSUME m.from \in DOMAIN es
      PROVE  /\ EntriesOK(j, asking)
             /\ \A x \in DOMAIN asking : asking[x].done => FromBefore(j, asking, x)
  <2> DEFINE e == [es[m.from] EXCEPT !.known = TRUE]
  <2> HIDE DEF es
  <2>1. es[m.from] \in Entry
    BY <1>6, <1>7 DEF EntriesOK
  <2>2. e \in Entry /\ e.done = es[m.from].done /\ e.id = es[m.from].id
    BY <2>1 DEF Entry
  <2>3. asking = [es EXCEPT ![m.from] = e]
    OBVIOUS
  <2> HIDE DEF e
  <2>4. EntriesOK(j, asking)
    BY <1>6, <2>2, <2>3, ReplaceOK
  <2>5. DOMAIN asking = DOMAIN es /\ \A x \in DOMAIN es : asking[x] = IF x = m.from THEN e ELSE es[x]
    BY <1>6, <2>3 DEF EntriesOK
  <2>6. QED
    BY <1>6, <2>2, <2>4, <2>5 DEF FromBefore
<1> HIDE DEF es, asking
<1>8. ASSUME m.from \in DOMAIN es
      PROVE  IsFiniteSet(R \cup B) /\ \A x \in R \cup B : MsgOK(x) /\ x.kind \in {"LockRelease", "TransferRequest"}
  <2>1. L \subseteq LockItem /\ IsFiniteSet(L)
    BY <1>7, <1>8, TransferOK
  <2> HIDE DEF L
  <2>2. MsgOK(request)
    BY <1>3, <1>5, <2>1, ToldOK
  <2>3. request.kind = "TransferRequest"
    BY DEF Message
  <2>4. IsFiniteSet(R) /\ \A x \in R : MsgOK(x) /\ x.kind = "LockRelease"
    BY <1>3, <1>4, ReleasesOK
  <2> HIDE DEF request, R
  <2>5. IsFiniteSet(B) /\ \A x \in B : MsgOK(x) /\ x.kind = "TransferRequest"
    BY <2>2, <2>3, FS_EmptySet, FS_Singleton
  <2> HIDE DEF B
  <2>6. QED
    BY <2>4, <2>5, FS_Union
<1> HIDE DEF R, B
<1>9. CASE UNCHANGED entries /\ Exchanged(m, {})
  BY <1>1, <1>9, FS_EmptySet
<1>10. CASE stage[j] = "Locking" /\ entries' = [entries EXCEPT ![j] = es] /\ Exchanged(m, {})
  BY <1>1, <1>6, <1>10, FS_EmptySet
<1>11. CASE /\ stage[j] = "Locking" /\ m.from \in DOMAIN es
            /\ entries' = [entries EXCEPT ![j] = asking] /\ Exchanged(m, R \cup B)
  BY <1>1, <1>7, <1>8, <1>11
<1>12. QED
  BY <1>2, <1>9, <1>10, <1>11

\* A request for locks: those handed over are named in the reply, and reset.
LEMMA TransferRequestStep ==
    ASSUME IInv, NEW j \in Nodes, NEW m, LockTransferRequestHandler(j, m)
    PROVE  /\ Received(j, m, "TransferRequest") /\ UNCHANGED <<stage, lock, lapses>>
           /\ \E given \in SUBSET DOMAIN entries[j] : \E reply :
                 /\ stage[j] /= "Locking" => given = {}
                 /\ \A k \in given : entries[j][k].done
                 /\ \E next :
                       /\ entries' = [entries EXCEPT ![j] = next]
                       /\ EntriesOK(j, next) /\ DOMAIN next = DOMAIN entries[j]
                       /\ \A k \in DOMAIN next :
                             next[k].id = entries[j][k].id
                             /\ (next[k].done => entries[j][k].done /\ k \notin given)
                 /\ Exchanged(m, {reply}) /\ MsgOK(reply) /\ reply.kind = "TransferReply"
                 /\ reply.locks = {Transfer(k, entries[j][k]) : k \in given}
<1> DEFINE given == IF stage[j] = "Locking" THEN HandedOver(j, entries[j], m.from, m.locks) ELSE {}
           next == [k \in DOMAIN entries[j] |->
                       IF k \in given THEN Reset(entries[j][k]) ELSE entries[j][k]]
           L == {Transfer(k, entries[j][k]) : k \in given}
           reply == [Message(j, m.from, From(j, m).inst, "TransferReply") EXCEPT !.locks = L]
<1>1. /\ Received(j, m, "TransferRequest") /\ UNCHANGED <<stage, lock, lapses>>
      /\ Exchanged(m, {reply})
  BY DEF LockTransferRequestHandler
<1>2. entries' = [entries EXCEPT ![j] = next]
  BY DEF LockTransferRequestHandler
<1>3. given \in SUBSET DOMAIN entries[j] /\ \A k \in given : entries[j][k].done
  BY DEF HandedOver, Completed
<1>4. stage[j] /= "Locking" => given = {}
  OBVIOUS
<1> HIDE DEF given
<1>5. m \in msgs /\ RowOK(j, table'[j])
  BY <1>1, ReceivedOK
<1>6. MsgOK(m) /\ EntriesOK(j, entries[j])
  BY <1>5, InHand
<1>7. /\ EntriesOK(j, next) /\ DOMAIN next = DOMAIN entries[j]
      /\ \A k \in DOMAIN next :
            next[k].id = entries[j][k].id
            /\ (next[k].done => entries[j][k].done /\ k \notin given)
  <2>1. \A e \in Entry : Reset(e) \in Entry /\ Reset(e).id = e.id /\ Reset(e).done = FALSE
    BY DEF Reset, Entry
  <2>2. \A k \in DOMAIN entries[j] : entries[j][k] \in Entry /\ entries[j][k].done \in BOOLEAN
    BY <1>6 DEF EntriesOK, Entry
  <2>3. QED
    BY <1>6, <2>1, <2>2 DEF EntriesOK
<1>8. L \subseteq LockItem /\ IsFiniteSet(L)
  BY <1>3, <1>6, TransferOK
<1> HIDE DEF next
<1>9. MsgOK(reply)
  <2> HIDE DEF L
  <2>1. QED
    BY <1>5, <1>6, <1>8, ToldOK DEF MsgOK
<1>10. reply.kind = "TransferReply" /\ reply.locks = L
  BY DEF Message
<1> HIDE DEF reply
<1>11. QED
  BY <1>1, <1>2, <1>3, <1>4, <1>7, <1>9, <1>10

\* A reply with locks: those that the node still collects are taken.
LEMMA TransferReplyStep ==
    ASSUME IInv, NEW j \in Nodes, NEW m, LockTransferReplyHandler(j, m)
    PROVE  /\ Received(j, m, "TransferReply") /\ UNCHANGED <<lock, lapses>>
           /\ \/ UNCHANGED <<stage, entries>>
              \/ /\ stage[j] = "Locking"
                 /\ \E next : /\ CheckCompletion(j, "Locking", next)
                              /\ EntriesOK(j, next)
                              /\ \A k \in DOMAIN next : next[k].done =>
                                    \/ FromBefore(j, next, k)
                                    \/ \E x \in m.locks : x.node = k /\ x.id = next[k].id
           /\ \E new : /\ Exchanged(m, new) /\ IsFiniteSet(new)
                       /\ \A x \in new : MsgOK(x) /\ x.kind \in {"LockRelease", "LockRenew"}
<1> DEFINE t == Learned(j, m)
           locking == stage[j] = "Locking" /\ m.locks /= {}
           es == UpdateNeighborhood(j, entries[j], t)
           taken == {x \in m.locks : locking /\ HasLock(es, x.node, x.inst)}
           known == {x \in m.locks : t[x.node].inst = x.inst}
           e(k) == IF \E x \in taken : x.node = k
                   THEN AcquireLock(es[k], (CHOOSE x \in taken : x.node = k).id) ELSE es[k]
           next == [k \in DOMAIN es |-> e(k)]
           w(x) == WithId(j, x.node, x.inst, IF x \in taken THEN "LockRenew" ELSE "LockRelease", x.id)
           R == IF locking THEN Releases(j, entries[j], t) ELSE {}
           B == {w(x) : x \in known}
<1>1. /\ Received(j, m, "TransferReply") /\ UNCHANGED <<lock, lapses>>
      /\ IF ~locking THEN UNCHANGED <<stage, entries>> ELSE CheckCompletion(j, "Locking", next)
      /\ Exchanged(m, R \cup B)
  BY DEF LockTransferReplyHandler
<1>2. m \in msgs /\ RowOK(j, table'[j])
  BY <1>1, ReceivedOK
<1>3. MsgOK(m) /\ RowOK(j, t) /\ EntriesOK(j, entries[j])
  BY <1>2, InHand
<1>4. m.locks \subseteq LockItem /\ IsFiniteSet(m.locks)
  BY <1>3 DEF MsgOK
<1>5. /\ EntriesOK(j, es) /\ DOMAIN es = Hood(t, j)
      /\ \A k \in DOMAIN es : es[k].done => k \in DOMAIN entries[j] /\ es[k] = entries[j][k]
  BY <1>3, UpdateOK
<1>6. /\ taken \subseteq m.locks /\ known \subseteq m.locks
      /\ \A x \in taken : x.node \in DOMAIN es
  BY DEF HasLock
<1>7. DOMAIN es \subseteq Nodes \ {j}
  BY <1>5 DEF EntriesOK
<1> HIDE DEF es, taken, known, locking
<1>8. \A k \in DOMAIN es :
        /\ e(k) \in Entry
        /\ e(k).done => \/ es[k].done /\ e(k).id = es[k].id
                        \/ \E x \in m.locks : x.node = k /\ x.id = e(k).id
  <2> TAKE k \in DOMAIN es
  <2>1. es[k] \in Entry
    BY <1>5 DEF EntriesOK
  <2>2. CASE \E x \in taken : x.node = k
    <3> DEFINE y == CHOOSE x \in taken : x.node = k
    <3>1. y \in taken /\ y.node = k
      BY <2>2
    <3>2. y \in m.locks /\ y.id \in 0..MaxLockId
      BY <1>4, <1>6, <3>1 DEF LockItem
    <3>3. e(k) = AcquireLock(es[k], y.id)
      BY <2>2
    <3> HIDE DEF y, e
    <3>4. e(k) \in Entry /\ (e(k).id = IF es[k].done THEN es[k].id ELSE y.id)
      BY <2>1, <3>2, <3>3 DEF AcquireLock, Entry
    <3>5. QED
      BY <3>1, <3>2, <3>4
  <2>3. CASE ~ \E x \in taken : x.node = k
    BY <2>1, <2>3
  <2>4. QED
    BY <2>2, <2>3
<1> HIDE DEF e
<1>9. /\ EntriesOK(j, next)
      /\ \A k \in DOMAIN next : next[k].done =>
            \/ FromBefore(j, next, k)
            \/ \E x \in m.locks : x.node = k /\ x.id = next[k].id
  <2>1. EntriesOK(j, next)
    BY <1>7, <1>8 DEF EntriesOK
  <2>2. DOMAIN next = DOMAIN es /\ \A k \in DOMAIN es : next[k] = e(k)
    OBVIOUS
  <2> HIDE DEF next
  <2>3. QED
    BY <1>5, <1>8, <2>1, <2>2 DEF FromBefore
<1>10. IsFiniteSet(R) /\ \A x \in R : MsgOK(x) /\ x.kind = "LockRelease"
  BY <1>2, <1>3, ReleasesOK, FS_EmptySet
<1>11. \A x \in known : MsgOK(w(x)) /\ w(x).kind \in {"LockRelease", "LockRenew"}
  <2> TAKE x \in known
  <2>1. x.node \in Nodes /\ x.id \in 0..MaxLockId
    BY <1>4, <1>6 DEF LockItem
  <2> DEFINE kind == IF x \in taken THEN "LockRenew" ELSE "LockRelease"
  <2>2. kind /= "LockRenew" \/ j /= x.node
    BY <1>6, <1>7
  <2>3. kind \in {"LockRelease", "LockRenew"}
    OBVIOUS
  <2> HIDE DEF kind
  <2>4. MsgOK(WithId(j, x.node, x.inst, kind, x.id))
    BY <1>2, <2>1, <2>2, <2>3, BuiltOK
  <2>5. WithId(j, x.node, x.inst, kind, x.id).kind = kind
    BY DEF WithId, Message
  <2>6. QED
    BY <2>3, <2>4, <2>5 DEF kind
<1> HIDE DEF w
<1>12. IsFiniteSet(B)
  <2>1. IsFiniteSet(known)
    BY <1>4, <1>6, FS_Subset
  <2>2. [x \in known |-> w(x)] \in [known -> B] /\ \A y \in B : \E x \in known : [z \in known |-> w(z)][x] = y
    OBVIOUS
  <2>3. QED
    BY <2>1, <2>2, FiniteImage
<1>13. \A x \in B : MsgOK(x) /\ x.kind \in {"LockRelease", "LockRenew"}
  BY <1>11
<1> HIDE DEF R, B, next
<1>14. IsFiniteSet(R \cup B) /\ \A x \in R \cup B : MsgOK(x) /\ x.kind \in {"LockRelease", "LockRenew"}
  BY <1>10, <1>12, <1>13, FS_Union
<1>15. QED
  BY <1>1, <1>9, <1>14 DEF locking

\* The timer of a node that collects locks: some are asked for again, some renewed.
LEMMA RunLockingStep ==
    ASSUME IInv, NEW j \in Nodes, NEW due, NEW old, RunLocking(j, due, old)
    PROVE  /\ UNCHANGED <<table, whole, lock>> /\ lapses' \in 0..MaxLapses
           /\ stage[j] = "Locking"
           /\ \E next : /\ CheckCompletion(j, "Locking", next)
                        /\ EntriesOK(j, next)
                        /\ \A k \in DOMAIN next : next[k].done => FromBefore(j, next, k)
           /\ \E new : /\ msgs' = msgs \cup new /\ Cardinality(msgs') <= MaxMessages /\ IsFiniteSet(new)
                       /\ \A x \in new : MsgOK(x) /\ x.kind \in {"LockRelease", "LockRequest", "LockRenew"}
<1> DEFINE es == UpdateNeighborhood(j, entries[j], table[j])
           asked == {k \in due : ~es[k].done} \cup old
           next == [k \in DOMAIN es |-> IF k \in old THEN Reset(es[k]) ELSE es[k]]
           w(k) == WithId(j, k, es[k].inst, "LockRequest", 0)
           v(k) == WithId(j, k, es[k].inst, "LockRenew", es[k].id)
           R == Releases(j, entries[j], table[j])
           A == {w(k) : k \in asked}
           B == {v(k) : k \in due \ asked}
<1>1. /\ stage[j] = "Locking"
      /\ due \subseteq DOMAIN es /\ old \subseteq {k \in due : es[k].done}
      /\ lapses' = lapses + Cardinality(old) /\ lapses' <= MaxLapses
      /\ UNCHANGED <<table, whole, lock>>
      /\ CheckCompletion(j, "Locking", next)
      /\ msgs' = msgs \cup R \cup A \cup B
      /\ Cardinality(msgs') <= MaxMessages
  BY DEF RunLocking
<1>2. RowOK(j, table[j]) /\ EntriesOK(j, entries[j]) /\ lapses \in 0..MaxLapses
  BY DEF IInv
<1>3. /\ EntriesOK(j, es)
      /\ \A k \in DOMAIN es : es[k].done => k \in DOMAIN entries[j] /\ es[k] = entries[j][k]
  BY <1>2, UpdateOK
<1> HIDE DEF es
<1>4. asked \subseteq due /\ old \subseteq due /\ due \subseteq Nodes /\ IsFiniteSet(due)
  <2>1. due \subseteq Nodes
    BY <1>1, <1>3 DEF EntriesOK
  <2>2. IsFiniteSet(due)
    BY <2>1, FS_Subset, NodesAssumption
  <2>3. QED
    BY <1>1, <2>1, <2>2
<1>5. lapses' \in 0..MaxLapses
  <2>1. IsFiniteSet(old)
    BY <1>4, FS_Subset
  <2>2. Cardinality(old) \in Nat
    BY <2>1, FS_CardinalityType
  <2>3. QED
    BY <1>1, <1>2, <2>2, NodesAssumption
<1>6. \A k \in due : k \in Nodes \ {j} /\ es[k] \in Entry /\ es[k].id \in 0..MaxLockId
  BY <1>1, <1>3 DEF EntriesOK, Entry
<1>7. EntriesOK(j, next) /\ \A k \in DOMAIN next : next[k].done => FromBefore(j, next, k)
  <2>1. \A x \in Entry : Reset(x) \in Entry /\ Reset(x).done = FALSE
    BY DEF Reset, Entry
  <2>2. EntriesOK(j, next)
    BY <1>3, <2>1 DEF EntriesOK
  <2>3. \A k \in DOMAIN next : next[k].done => next[k] = es[k]
    BY <1>3, <2>1 DEF EntriesOK
  <2>4. DOMAIN next = DOMAIN es
    OBVIOUS
  <2> HIDE DEF next
  <2>5. QED
    BY <1>3, <2>2, <2>3, <2>4 DEF FromBefore
<1>8. IsFiniteSet(R) /\ \A x \in R : MsgOK(x) /\ x.kind = "LockRelease"
  BY <1>1, <1>2, ReleasesOK
<1>9. RowOK(j, table'[j])
  BY <1>1, <1>2
<1>10. \A k \in due : MsgOK(w(k)) /\ w(k).kind = "LockRequest"
  <2> TAKE k \in due
  <2>1. 0 \in 0..MaxLockId
    BY NodesAssumption
  <2>2. MsgOK(w(k))
    BY <1>6, <1>9, <2>1, BuiltOK
  <2>3. w(k).kind = "LockRequest"
    BY DEF WithId, Message
  <2>4. QED
    BY <2>2, <2>3
<1>11. \A k \in due : MsgOK(v(k)) /\ v(k).kind = "LockRenew"
  <2> TAKE k \in due
  <2>1. MsgOK(v(k))
    BY <1>6, <1>9, BuiltOK
  <2>2. v(k).kind = "LockRenew"
    BY DEF WithId, Message
  <2>3. QED
    BY <2>1, <2>2
<1> HIDE DEF w, v, asked
<1>12. IsFiniteSet(A)
  <2>1. IsFiniteSet(asked)
    BY <1>4, FS_Subset
  <2>2. [k \in asked |-> w(k)] \in [asked -> A] /\ \A y \in A : \E x \in asked : [k \in asked |-> w(k)][x] = y
    OBVIOUS
  <2>3. QED
    BY <2>1, <2>2, FiniteImage
<1>13. IsFiniteSet(B)
  <2> DEFINE S == due \ asked
  <2>1. IsFiniteSet(S)
    BY <1>4, FS_Subset
  <2>2. [k \in S |-> v(k)] \in [S -> B] /\ \A y \in B : \E x \in S : [k \in S |-> v(k)][x] = y
    OBVIOUS
  <2>3. QED
    BY <2>1, <2>2, FiniteImage
<1>14. \A x \in A \cup B : MsgOK(x) /\ x.kind \in {"LockRequest", "LockRenew"}
  BY <1>4, <1>10, <1>11
<1> HIDE DEF R, A, B, next
<1> DEFINE new == R \cup A \cup B
<1>15. /\ msgs' = msgs \cup new /\ IsFiniteSet(new)
       /\ \A x \in new : MsgOK(x) /\ x.kind \in {"LockRelease", "LockRequest", "LockRenew"}
  <2>1. IsFiniteSet(R \cup A)
    BY <1>8, <1>12, FS_Union
  <2>2. IsFiniteSet(new)
    BY <1>13, <2>1, FS_Union
  <2>3. msgs' = msgs \cup new
    BY <1>1
  <2>4. QED
    BY <1>8, <1>14, <2>2, <2>3
<1> HIDE DEF new
<1>16. QED
  BY <1>1, <1>5, <1>7, <1>15

\* The handlers and the timer of a node that collects locks preserve the types.
LEMMA CollectingOK ==
    ASSUME IInv, NEW j \in Nodes,
           \/ \E m : \/ LockGrantHandler(j, m) \/ LockDenyHandler(j, m)
                     \/ LockTransferRequestHandler(j, m) \/ LockTransferReplyHandler(j, m)
           \/ \E due, old : RunLocking(j, due, old)
    PROVE  IInv'
<1>1. ASSUME NEW m, LockGrantHandler(j, m) PROVE IInv'
  <2>1. Received(j, m, "LockGrant") /\ UNCHANGED <<lock, lapses>>
    BY <1>1, LockGrantStep
  <2>2. StageStep(j) /\ EntriesStep(j)
    BY <1>1, LockGrantStep, CheckStep DEF StageStep, EntriesStep
  <2>3. MsgsStep
    BY <1>1, LockGrantStep, ExchangedOK
  <2>4. QED
    BY <2>1, <2>2, <2>3, ReceivedOK, NoLapse, StepOK DEF LockStep
<1>2. ASSUME NEW m, LockDenyHandler(j, m) PROVE IInv'
  <2>1. Received(j, m, "LockDeny") /\ UNCHANGED <<stage, lock, lapses>>
    BY <1>2, LockDenyStep
  <2>2. EntriesStep(j)
    BY <1>2, LockDenyStep DEF EntriesStep
  <2>3. MsgsStep
    BY <1>2, LockDenyStep, ExchangedOK
  <2>4. QED
    BY <2>1, <2>2, <2>3, ReceivedOK, NoLapse, StepOK DEF LockStep, StageStep
<1>3. ASSUME NEW m, LockTransferRequestHandler(j, m) PROVE IInv'
  <2>1. Received(j, m, "TransferRequest") /\ UNCHANGED <<stage, lock, lapses>>
    BY <1>3, TransferRequestStep
  <2>2. /\ \E next : entries' = [entries EXCEPT ![j] = next] /\ EntriesOK(j, next)
        /\ \E reply : Exchanged(m, {reply}) /\ MsgOK(reply)
    <3>1. PICK given, reply :
             /\ given \in SUBSET DOMAIN entries[j]
             /\ \E next : entries' = [entries EXCEPT ![j] = next] /\ EntriesOK(j, next)
             /\ Exchanged(m, {reply}) /\ MsgOK(reply)
      BY <1>3, TransferRequestStep
    <3>2. QED
      BY <3>1
  <2>3. EntriesStep(j) /\ MsgsStep
    BY <2>2, ExchangedOne DEF EntriesStep
  <2>4. QED
    BY <2>1, <2>3, ReceivedOK, NoLapse, StepOK DEF LockStep, StageStep
<1>4. ASSUME NEW m, LockTransferReplyHandler(j, m) PROVE IInv'
  <2>1. Received(j, m, "TransferReply") /\ UNCHANGED <<lock, lapses>>
    BY <1>4, TransferReplyStep
  <2>2. StageStep(j) /\ EntriesStep(j)
    BY <1>4, TransferReplyStep, CheckStep DEF StageStep, EntriesStep
  <2>3. MsgsStep
    BY <1>4, TransferReplyStep, ExchangedOK
  <2>4. QED
    BY <2>1, <2>2, <2>3, ReceivedOK, NoLapse, StepOK DEF LockStep
<1>5. ASSUME NEW due, NEW old, RunLocking(j, due, old) PROVE IInv'
  <2>1. UNCHANGED <<table, whole, lock>> /\ lapses' \in 0..MaxLapses
    BY <1>5, RunLockingStep
  <2>2. StageStep(j) /\ EntriesStep(j)
    BY <1>5, RunLockingStep, CheckStep DEF StageStep, EntriesStep
  <2>3. MsgsStep
    BY <1>5, RunLockingStep, SentOK
  <2>4. QED
    BY <2>1, <2>2, <2>3, StepOK DEF RowStep, WholeStep, LockStep, LapsesStep
<1>6. QED
  BY <1>1, <1>2, <1>3, <1>4, <1>5

\* The initial state.
LEMMA InitOK == Init => IInv
<1> SUFFICES ASSUME Init PROVE IInv
  OBVIOUS
<1>1. /\ table = [n \in Nodes |-> [k \in Nodes |->
                    IF k \in Joiners /\ k /= n THEN [inst |-> 0, phase |-> Booting]
                    ELSE [inst |-> 1, phase |-> IF k \in Members THEN Routing ELSE Joining]]]
      /\ whole = [n \in Nodes |-> n \in Members]
      /\ stage = [n \in Nodes |-> IF n \in Members THEN "Routing" ELSE "Query"]
      /\ entries = [n \in Nodes |-> NoEntries]
      /\ lock = [n \in Nodes |-> [owner |-> n, ownerInst |-> 1, id |-> 0, held |-> FALSE]]
      /\ msgs = {} /\ lapses = 0
  BY DEF Init
<1>2. /\ [inst |-> 0, phase |-> Booting] \in Header /\ ~Available([inst |-> 0, phase |-> Booting])
      /\ \A p \in {Routing, Joining} : [inst |-> 1, phase |-> p] \in Header
  BY NodesAssumption DEF Header, Available, Booting, Joining, Inserting, Routing, Shutdown
<1>3. table \in [Nodes -> [Nodes -> Header]]
  BY <1>1, <1>2
<1>4. ASSUME NEW n \in Nodes PROVE RowOK(n, table[n])
  <2>1. \A k \in Nodes : \/ table[n][k] = [inst |-> 0, phase |-> Booting] /\ k /= n
                         \/ table[n][k].inst = 1
    BY <1>1
  <2>2. table[n] \in [Nodes -> Header]
    BY <1>3
  <2>3. QED
    BY <1>2, <2>1, <2>2 DEF RowOK
<1>5. whole \in [Nodes -> BOOLEAN] /\ stage \in [Nodes -> Stages]
  BY <1>1 DEF Stages
<1>6. entries = [n \in Nodes |-> entries[n]] /\ \A n \in Nodes : EntriesOK(n, entries[n])
  <2>1. \A n \in Nodes : EntriesOK(n, NoEntries)
    BY DEF EntriesOK, NoEntries
  <2>2. QED
    BY <1>1, <2>1
<1>7. lock = [n \in Nodes |-> lock[n]] /\ \A n \in Nodes : LockOK(n, lock[n])
  <2>1. \A n \in Nodes : LockOK(n, [owner |-> n, ownerInst |-> 1, id |-> 0, held |-> FALSE])
    BY NodesAssumption DEF LockOK
  <2>2. QED
    BY <1>1, <2>1
<1>8. MsgsOK
  BY <1>1, FS_EmptySet, NodesAssumption DEF MsgsOK
<1>9. lapses \in 0..MaxLapses
  BY <1>1, NodesAssumption
<1>10. QED
  BY <1>3, <1>4, <1>5, <1>6, <1>7, <1>8, <1>9 DEF IInv

\* What a node does with a message.
LEMMA HandleOK ==
    ASSUME IInv, NEW m \in msgs, Handle(m.to, m)
    PROVE  IInv'
<1>1. m.to \in Nodes
  BY DEF IInv, MsgsOK, MsgOK
<1>2. \/ Undelivered(m.to, m) \/ FaultHandler(m.to, m) \/ PingHandler(m.to, m)
      \/ LockRequestHandler(m.to, m) \/ LockRenewHandler(m.to, m)
      \/ LockReleaseHandler(m.to, m) \/ UnlockHandler(m.to, m)
      \/ OnNeighborhoodQueryRequestCompleted(m.to, m)
      \/ LockGrantHandler(m.to, m) \/ LockDenyHandler(m.to, m)
      \/ LockTransferRequestHandler(m.to, m) \/ LockTransferReplyHandler(m.to, m)
      \/ UnLockGrantHandler(m.to, m) \/ UnLockDenyHandler(m.to, m)
  BY DEF Handle
<1>3. QED
  BY <1>1, <1>2, UndeliveredOK, FaultHandlerOK, PingHandlerOK, LockRequestHandlerOK,
     LockRenewHandlerOK, LockReleaseHandlerOK, UnlockHandlerOK, QueryCompletedOK,
     CollectingOK, UnLockGrantHandlerOK, UnLockDenyHandlerOK

\* Every step.
LEMMA NextOK == IInv /\ CallsOK /\ [Next]_vars => IInv'
<1> SUFFICES ASSUME IInv, CallsOK, [Next]_vars PROVE IInv'
  OBVIOUS
<1>1. Joiners \subseteq Nodes
  BY DEF Nodes
<1>2. ASSUME NEW m \in msgs, Lose(m) \/ Handle(m.to, m) PROVE IInv'
  BY <1>2, LoseOK, HandleOK
<1>3. ASSUME NEW n \in Nodes, NEW k \in Nodes, Ping(n, k) \/ SetShutdown(n, k) PROVE IInv'
  BY <1>3, PingOK, SetShutdownOK
<1>4. ASSUME NEW j \in Joiners, NEW k \in Nodes,
             NeighborhoodQueryRequestHandler(k, j) \/ LeaseEstablishHandler(j, k)
      PROVE  IInv'
  BY <1>1, <1>4, QueryRequestHandlerOK, LeaseEstablishHandlerOK
<1>5. ASSUME NEW n \in Nodes, LockExpires(n) \/ ResetLock(n) \/ Close(n) PROVE IInv'
  BY <1>5, LockLapsesOK, PhaseStepsOK
<1>6. ASSUME NEW j \in Joiners, Timeout(j) PROVE IInv'
  BY <1>1, <1>6, CollectingOK, RunUnLockingOK DEF Timeout
<1>7. ASSUME NEW j \in Joiners, Resume(j) PROVE IInv'
  BY <1>1, <1>7, PhaseStepsOK, RestartUnLockingOK, RestartInstanceOK DEF Resume
<1>8. CASE UNCHANGED vars
  BY <1>8 DEF vars, IInv, MsgsOK
<1>9. QED
  BY <1>2, <1>3, <1>4, <1>5, <1>6, <1>7, <1>8 DEF Next

-----------------------------------------------------------------------------
(***************************************************************************)
(* What the threads of a node have left to do.                             *)
(***************************************************************************)

\* The instances of the nodes stay.
InstancesKept == \A k \in Nodes : table'[k][k].inst = Inst(k)

\* Node n alone has other calls left to do.
CallsStep(n) ==
    /\ \/ UNCHANGED calls
       \/ \E cs \in SUBSET Calls :
             /\ calls' = [calls EXCEPT ![n] = cs]
             /\ "RestartInstance" \in cs => "RestartInstance" \in calls[n] \/ Inst(n) < MaxInstance
    /\ overtaken' \subseteq overtaken \cup {n}

\* Such a step preserves CallsOK.
LEMMA CallsStepOK ==
    ASSUME CallsOK, NEW n \in Nodes, CallsStep(n), InstancesKept
    PROVE  CallsOK'
<1>1. calls' \in [Nodes -> SUBSET Calls] /\ overtaken' \subseteq Nodes
  BY DEF CallsOK, CallsStep
<1>2. ASSUME NEW k \in Nodes, "RestartInstance" \in calls'[k] PROVE Inst(k)' < MaxInstance
  <2>1. "RestartInstance" \in calls[k] \/ Inst(k) < MaxInstance
    BY <1>2 DEF CallsOK, CallsStep
  <2>2. Inst(k) < MaxInstance
    BY <2>1 DEF CallsOK
  <2>3. Inst(k)' = Inst(k)
    BY DEF InstancesKept, Inst
  <2>4. QED
    BY <2>2, <2>3
<1>3. QED
  BY <1>1, <1>2 DEF CallsOK

\* A node that changes what it knows but not its instance.
LEMMA OwnInstanceKept ==
    ASSUME IInv, NEW n \in Nodes, NEW t,
           table' = [table EXCEPT ![n] = t] /\ t[n].inst = Inst(n)
    PROVE  InstancesKept
  BY DEF IInv, InstancesKept, Inst

\* What a node learns changes no instance.
LEMMA LearnedInstances ==
    ASSUME IInv, NEW n \in Nodes, NEW m, table' = [table EXCEPT ![n] = Learned(n, m)],
           m.headers \in [Nodes -> Header],
           \A k \in Nodes : Available(m.headers[k]) => m.headers[k].inst >= 1
    PROVE  InstancesKept
<1>1. Learned(n, m)[n] = table[n][n]
  BY LearnedOK DEF IInv
<1>2. QED
  BY <1>1, OwnInstanceKept DEF Inst

\* Nor does a node that it takes for down.
LEMMA GoneInstances ==
    ASSUME NEW n \in Nodes, NEW t, NEW k \in Nodes, NEW inst, RowOK(n, t)
    PROVE  Gone(t, k, inst)[n].inst = t[n].inst
<1> DEFINE g == [t EXCEPT ![k].phase = Shutdown]
<1>1. g[n].inst = t[n].inst
  BY DEF RowOK, Header
<1>2. Gone(t, k, inst) \in {t, g}
  BY DEF Gone
<1>3. QED
  BY <1>1, <1>2

\* A message that is received.
LEMMA ReceivedInstances ==
    ASSUME IInv, NEW n \in Nodes, NEW m, NEW kind, Received(n, m, kind)
    PROVE  InstancesKept
<1>1. m \in msgs /\ table' = [table EXCEPT ![n] = Learned(n, m)]
  BY ReceivedOK
<1>2. MsgOK(m)
  BY <1>1, InHand
<1>3. QED
  BY <1>1, <1>2, LearnedInstances DEF MsgOK

\* A node's own phase.
LEMMA PhaseInstances ==
    ASSUME IInv, NEW n \in Nodes, NEW p, table' = [table EXCEPT ![n][n].phase = p]
    PROVE  InstancesKept
<1>1. table[n] \in [Nodes -> Header]
  BY DEF IInv
<1>2. [table[n] EXCEPT ![n].phase = p][n].inst = Inst(n)
  BY <1>1 DEF Inst, Header
<1>3. table' = [table EXCEPT ![n] = [table[n] EXCEPT ![n].phase = p]]
  OBVIOUS
<1>4. QED
  BY <1>2, <1>3, OwnInstanceKept

\* A table that stays.
LEMMA SameInstances ==
    ASSUME UNCHANGED table
    PROVE  InstancesKept
  BY DEF InstancesKept, Inst

\* Stages that end, and resets.
LEMMA CheckCalls ==
    ASSUME CallsOK, NEW j \in Nodes, NEW st, NEW es, CheckCompletion(j, st, es),
           overtaken' = overtaken
    PROVE  CallsStep(j)
<1> DEFINE cs == calls[j] \cup NewPhase(st, es)
<1>1. calls' = [calls EXCEPT ![j] = cs]
  BY DEF CheckCompletion
<1>2. cs \in SUBSET Calls /\ ("RestartInstance" \in cs => "RestartInstance" \in calls[j])
  BY DEF CallsOK, NewPhase, Calls
<1> HIDE DEF cs
<1>3. QED
  BY <1>1, <1>2 DEF CallsStep

LEMMA ResetCalls ==
    ASSUME CallsOK, NEW j \in Nodes, NEW cs \in SUBSET calls[j], ResetStateForJoining(j, cs)
    PROVE  CallsStep(j)
<1>1. /\ calls' = [calls EXCEPT ![j] = cs \cup {"RestartInstance"}] /\ Inst(j) < MaxInstance
      /\ overtaken' \subseteq overtaken \cup {j}
  BY DEF ResetStateForJoining
<1>2. cs \cup {"RestartInstance"} \in SUBSET Calls
  BY DEF CallsOK, Calls
<1>3. QED
  BY <1>1, <1>2 DEF CallsStep

\* Steps that end no stage and reset nothing.
LEMMA CallsKept ==
    ASSUME IInv, CallsOK, NEW n \in Nodes, NEW k \in Nodes,
           \/ \E m \in msgs : \/ Lose(m) \/ Undelivered(n, m) \/ FaultHandler(n, m) \/ PingHandler(n, m)
                              \/ LockRequestHandler(n, m) \/ LockRenewHandler(n, m)
                              \/ LockReleaseHandler(n, m) \/ UnlockHandler(n, m)
                              \/ LockDenyHandler(n, m) \/ LockTransferRequestHandler(n, m)
           \/ Ping(n, k) \/ SetShutdown(n, k) \/ NeighborhoodQueryRequestHandler(n, k)
           \/ LockExpires(n) \/ ResetLock(n) \/ Close(n)
    PROVE  CallsOK'
<1>1. UNCHANGED <<calls, overtaken>>
  BY DEF Lose, Undelivered, FaultHandler, PingHandler, LockRequestHandler, LockRenewHandler,
     LockReleaseHandler, UnlockHandler, LockDenyHandler, LockTransferRequestHandler, Ping,
     SetShutdown, NeighborhoodQueryRequestHandler, LockExpires, ResetLock, Close
<1>2. InstancesKept
  <2>1. ASSUME NEW m \in msgs, \/ PingHandler(n, m) \/ LockRequestHandler(n, m) \/ LockRenewHandler(n, m)
                               \/ LockReleaseHandler(n, m) \/ UnlockHandler(n, m)
                               \/ LockDenyHandler(n, m) \/ LockTransferRequestHandler(n, m)
        PROVE  InstancesKept
    <3>1. \E kind : Received(n, m, kind)
      BY <2>1 DEF PingHandler, LockRequestHandler, LockRenewHandler, LockReleaseHandler, UnlockHandler,
         LockDenyHandler, LockTransferRequestHandler
    <3>2. QED
      BY <3>1, ReceivedInstances
  <2>2. ASSUME NEW m \in msgs, Undelivered(n, m) PROVE InstancesKept
    <3>1. table' = [table EXCEPT ![n] = Learned(n, m)] /\ MsgOK(m)
      BY <2>2, InHand DEF Undelivered
    <3>2. QED
      BY <3>1, LearnedInstances DEF MsgOK
  <2>3. ASSUME NEW m \in msgs, FaultHandler(n, m) PROVE InstancesKept
    <3>1. table' = [table EXCEPT ![n] = Gone(Learned(n, m), m.from, m.id)]
      BY <2>3 DEF FaultHandler
    <3>2. RowOK(n, Learned(n, m)) /\ Learned(n, m)[n] = table[n][n] /\ m.from \in Nodes
      BY InHand DEF MsgOK
    <3>3. Gone(Learned(n, m), m.from, m.id)[n].inst = Inst(n)
      BY <3>2, GoneInstances DEF Inst
    <3>4. QED
      BY <3>1, <3>3, OwnInstanceKept
  <2>4. ASSUME NeighborhoodQueryRequestHandler(n, k) PROVE InstancesKept
    <3> DEFINE query == [kind |-> "Query", from |-> k, headers |-> table[k], range |-> FALSE]
    <3>1. table' = [table EXCEPT ![n] = Learned(n, query)]
      BY <2>4 DEF NeighborhoodQueryRequestHandler
    <3>2. query.headers = table[k]
      OBVIOUS
    <3> HIDE DEF query
    <3>3. QED
      BY <3>1, <3>2, LearnedInstances DEF IInv, RowOK
  <2>5. ASSUME SetShutdown(n, k) PROVE InstancesKept
    <3>1. table' = [table EXCEPT ![n] = Gone(table[n], k, Inst(k))]
      BY <2>5 DEF SetShutdown
    <3>2. Gone(table[n], k, Inst(k))[n].inst = Inst(n)
      BY GoneInstances DEF IInv, Inst
    <3>3. QED
      BY <3>1, <3>2, OwnInstanceKept
  <2>6. ASSUME Close(n) PROVE InstancesKept
    BY <2>6, PhaseInstances DEF Close
  <2>7. ASSUME Ping(n, k) \/ LockExpires(n) \/ ResetLock(n) \/ \E m \in msgs : Lose(m)
        PROVE  InstancesKept
    BY <2>7, SameInstances DEF Ping, LockExpires, ResetLock, Lose
  <2>8. QED
    BY <2>1, <2>2, <2>3, <2>4, <2>5, <2>6, <2>7
<1>3. QED
  BY <1>1, <1>2, CallsStepOK DEF CallsStep

\* Steps of a joining node from stage to stage.
LEMMA StageCalls ==
    ASSUME IInv, CallsOK, NEW j \in Nodes, NEW k \in Nodes,
           \/ \E m \in msgs : \/ OnNeighborhoodQueryRequestCompleted(j, m) \/ LockGrantHandler(j, m)
                              \/ LockTransferReplyHandler(j, m) \/ UnLockGrantHandler(j, m)
                              \/ UnLockDenyHandler(j, m)
           \/ \E due, old : RunLocking(j, due, old)
           \/ LeaseEstablishHandler(j, k)
    PROVE  CallsOK'
<1>1. ASSUME NEW m \in msgs, OnNeighborhoodQueryRequestCompleted(j, m)
      PROVE  CallsStep(j) /\ InstancesKept
  <2>1. /\ Received(j, m, "QueryReply") /\ UNCHANGED calls /\ overtaken' \subseteq overtaken \cup {j}
    BY <1>1 DEF OnNeighborhoodQueryRequestCompleted
  <2>2. QED
    BY <2>1, ReceivedInstances DEF CallsStep
<1>2. ASSUME NEW m \in msgs, LockGrantHandler(j, m) \/ LockTransferReplyHandler(j, m) \/ UnLockGrantHandler(j, m)
      PROVE  CallsStep(j) /\ InstancesKept
  <2>1. /\ UNCHANGED overtaken
        /\ UNCHANGED calls \/ \E st, es : CheckCompletion(j, st, es)
        /\ \E kind : Received(j, m, kind)
    BY <1>2 DEF LockGrantHandler, LockTransferReplyHandler, UnLockGrantHandler
  <2>2. CallsStep(j)
    BY <2>1, CheckCalls DEF CallsStep
  <2>3. QED
    BY <2>1, <2>2, ReceivedInstances
<1>3. ASSUME NEW m \in msgs, UnLockDenyHandler(j, m) PROVE CallsStep(j) /\ InstancesKept
  <2>1. /\ Received(j, m, "UnlockDeny")
        /\ UNCHANGED <<calls, overtaken>> \/ ResetStateForJoining(j, calls[j])
    BY <1>3 DEF UnLockDenyHandler
  <2>2. CallsStep(j)
    BY <2>1, ResetCalls DEF CallsStep
  <2>3. QED
    BY <2>1, <2>2, ReceivedInstances
<1>4. ASSUME NEW due, NEW old, RunLocking(j, due, old) PROVE CallsStep(j) /\ InstancesKept
  <2>1. UNCHANGED <<table, overtaken>> /\ \E st, es : CheckCompletion(j, st, es)
    BY <1>4 DEF RunLocking
  <2>2. QED
    BY <2>1, CheckCalls, SameInstances
<1>5. ASSUME LeaseEstablishHandler(j, k) PROVE CallsStep(j) /\ InstancesKept
  <2>1. /\ UNCHANGED table
        /\ \/ UNCHANGED overtaken /\ \E st, es : CheckCompletion(j, st, es)
           \/ ResetStateForJoining(j, calls[j])
    BY <1>5 DEF LeaseEstablishHandler
  <2>2. QED
    BY <2>1, CheckCalls, ResetCalls, SameInstances
<1>6. QED
  BY <1>1, <1>2, <1>3, <1>4, <1>5, CallsStepOK

\* Steps outside the lock, and the step of the timer that leads to one.
LEMMA ResumeCalls ==
    ASSUME IInv, CallsOK, NEW j \in Nodes, RunUnLocking(j) \/ Resume(j)
    PROVE  CallsOK'
<1>1. CASE RunUnLocking(j)
  <2>1. /\ UNCHANGED <<table, overtaken>>
        /\ UNCHANGED calls \/ \E c \in {"CheckDown", "TimedOut"} : calls' = [calls EXCEPT ![j] = calls[j] \cup {c}]
    BY <1>1 DEF RunUnLocking
  <2>2. CallsStep(j)
    BY <2>1 DEF CallsOK, CallsStep, Calls
  <2>3. QED
    BY <2>1, <2>2, CallsStepOK, SameInstances
<1>2. ASSUME NEW c, RestartUnLocking(j, c) PROVE CallsOK'
  <2>1. /\ UNCHANGED table
        /\ \/ calls' = [calls EXCEPT ![j] = calls[j] \ {c}] /\ UNCHANGED overtaken
           \/ ResetStateForJoining(j, calls[j] \ {c})
    BY <1>2 DEF RestartUnLocking
  <2>2. CallsStep(j)
    BY <2>1, ResetCalls DEF CallsOK, CallsStep
  <2>3. QED
    BY <2>1, <2>2, CallsStepOK, SameInstances
<1>3. CASE StartLeaseEstablish(j) \/ StartRouting(j)
  <2>1. /\ UNCHANGED overtaken /\ \E c \in Calls : calls' = [calls EXCEPT ![j] = calls[j] \ {c}]
        /\ UNCHANGED table \/ \E p : table' = [table EXCEPT ![j][j].phase = p]
    BY <1>3 DEF StartLeaseEstablish, StartRouting, Calls
  <2>2. CallsStep(j)
    BY <2>1 DEF CallsOK, CallsStep
  <2>3. InstancesKept
    BY <2>1, PhaseInstances, SameInstances
  <2>4. QED
    BY <2>2, <2>3, CallsStepOK
<1>4. CASE RestartInstance(j)
  <2>1. /\ UNCHANGED overtaken /\ calls' = [calls EXCEPT ![j] = calls[j] \ {"RestartInstance"}]
        /\ \/ UNCHANGED table
           \/ \E h : table' = [table EXCEPT ![j][j] = h]
    BY <1>4 DEF RestartInstance
  <2>2. calls' \in [Nodes -> SUBSET Calls] /\ overtaken' \subseteq Nodes
    BY <2>1 DEF CallsOK
  <2>3. ASSUME NEW k \in Nodes, "RestartInstance" \in calls'[k] PROVE Inst(k)' < MaxInstance
    <3>1. k /= j /\ "RestartInstance" \in calls[k]
      BY <2>1, <2>3 DEF CallsOK
    <3>2. Inst(k)' = Inst(k)
      BY <2>1, <3>1 DEF IInv, Inst
    <3>3. QED
      BY <3>1, <3>2 DEF CallsOK
  <2>4. QED
    BY <2>2, <2>3 DEF CallsOK
<1>5. QED
  BY <1>1, <1>2, <1>3, <1>4 DEF Resume

\* Every step.
LEMMA CallsNext == IInv /\ CallsOK /\ [Next]_vars => CallsOK'
<1> SUFFICES ASSUME IInv, CallsOK, [Next]_vars PROVE CallsOK'
  OBVIOUS
<1>1. Joiners \subseteq Nodes
  BY DEF Nodes
<1>2. ASSUME NEW m \in msgs, Lose(m) \/ Handle(m.to, m) PROVE CallsOK'
  <2>1. m.to \in Nodes
    BY DEF IInv, MsgsOK, MsgOK
  <2>2. \/ Lose(m) \/ Undelivered(m.to, m) \/ FaultHandler(m.to, m) \/ PingHandler(m.to, m)
        \/ LockRequestHandler(m.to, m) \/ LockRenewHandler(m.to, m)
        \/ LockReleaseHandler(m.to, m) \/ UnlockHandler(m.to, m)
        \/ LockDenyHandler(m.to, m) \/ LockTransferRequestHandler(m.to, m)
        \/ OnNeighborhoodQueryRequestCompleted(m.to, m) \/ LockGrantHandler(m.to, m)
        \/ LockTransferReplyHandler(m.to, m) \/ UnLockGrantHandler(m.to, m)
        \/ UnLockDenyHandler(m.to, m)
    BY <1>2 DEF Handle
  <2>3. QED
    BY <2>1, <2>2, CallsKept, StageCalls
<1>3. ASSUME NEW n \in Nodes, NEW k \in Nodes, Ping(n, k) \/ SetShutdown(n, k) PROVE CallsOK'
  BY <1>3, CallsKept
<1>4. ASSUME NEW j \in Joiners, NEW k \in Nodes,
             NeighborhoodQueryRequestHandler(k, j) \/ LeaseEstablishHandler(j, k)
      PROVE  CallsOK'
  BY <1>1, <1>4, CallsKept, StageCalls
<1>5. ASSUME NEW n \in Nodes, LockExpires(n) \/ ResetLock(n) \/ Close(n) PROVE CallsOK'
  BY <1>5, CallsKept
<1>6. ASSUME NEW j \in Joiners, Timeout(j) \/ Resume(j) PROVE CallsOK'
  BY <1>1, <1>6, StageCalls, ResumeCalls DEF Timeout
<1>7. CASE UNCHANGED vars
  BY <1>7 DEF vars, CallsOK, Inst
<1>8. QED
  BY <1>2, <1>3, <1>4, <1>5, <1>6, <1>7 DEF Next

\* The types of every state that can be reached.
LEMMA IInvHolds == Spec => [](IInv /\ CallsOK)
<1>1. Init => CallsOK
  BY DEF Init, CallsOK
<1>2. QED
  BY <1>1, InitOK, NextOK, CallsNext, PTL DEF Spec

\* TypeOK for any nodes and bounds: every handler keeps tables, entries, locks and
\* messages within their types, a locked range has an owner other than its node, and
\* no more messages are under way than the bound says.
THEOREM TypeCorrect == Spec => []TypeOK
<1>1. IInv /\ CallsOK => TypeOK
  <2> SUFFICES ASSUME IInv, CallsOK PROVE TypeOK
    OBVIOUS
  <2>1. table \in [Nodes -> [Nodes -> [inst : 0..MaxInstance, phase : Booting..Shutdown]]]
    BY DEF IInv, Header
  <2>2. \A n \in Nodes : /\ DOMAIN entries[n] \subseteq Nodes \ {n}
                         /\ \A k \in DOMAIN entries[n] : entries[n][k] \in Entry
    BY DEF IInv, EntriesOK
  <2>3. lock \in [Nodes -> [owner : Nodes, ownerInst : 1..MaxInstance, id : 0..MaxLockId, held : BOOLEAN]]
    BY DEF IInv, LockOK
  <2>4. \A n \in Nodes : lock[n].held => lock[n].owner /= n
    BY DEF IInv, LockOK
  <2>5. QED
    BY <2>1, <2>2, <2>3, <2>4 DEF TypeOK, IInv, MsgsOK, CallsOK
<1>2. QED
  BY <1>1, IInvHolds, PTL

-----------------------------------------------------------------------------
(***************************************************************************)
(* One hand per lock id.  The instance of a node does not matter: the ids  *)
(* of its lock go on when it starts over.                                  *)
(***************************************************************************)

\* Node j believes to have the lock id of k.
HandOf(j, k, id) ==
    /\ k \in DOMAIN entries[j] /\ entries[j][k].id = id
    /\ entries[j][k].done \/ stage[j] \in {"Establishing", "UnLocking"}

\* Message m gives the lock id of k.
Giving(m, k, id) ==
    \/ m.kind = "LockGrant" /\ ~m.renew /\ m.from = k /\ m.id = id
    \/ m.kind = "TransferReply" /\ \E x \in m.locks : x.node = k /\ x.id = id

\* The inductive part of OneHolder: an id is in one hand, and it was issued.
OneHand ==
    \A k \in Nodes, id \in 0..MaxLockId :
        /\ \A i, j \in Nodes : HandOf(i, k, id) /\ HandOf(j, k, id) => i = j
        /\ \A a, b \in msgs : Giving(a, k, id) /\ Giving(b, k, id) => a = b
        /\ \A j \in Nodes, m \in msgs : ~(HandOf(j, k, id) /\ Giving(m, k, id))
        /\ \A j \in Nodes : HandOf(j, k, id) => id <= lock[k].id
        /\ \A m \in msgs : Giving(m, k, id) => id <= lock[k].id

\* Nobody gets hold of an id by this step.
HandsQuiet == \A j, k \in Nodes, id \in 0..MaxLockId : HandOf(j, k, id)' => HandOf(j, k, id)

\* No message that is new gives one.
MsgsQuiet == \A g \in msgs', k \in Nodes, id \in 0..MaxLockId : Giving(g, k, id) => g \in msgs

\* The ids of the locks stay.
SameIds == \A k \in Nodes : lock'[k].id = lock[k].id

\* A step that gives no lock.
LEMMA QuietOK ==
    ASSUME OneHand, HandsQuiet, MsgsQuiet, SameIds
    PROVE  OneHand'
<1> SUFFICES ASSUME NEW k \in Nodes, NEW id \in 0..MaxLockId
             PROVE  /\ \A i, j \in Nodes : HandOf(i, k, id)' /\ HandOf(j, k, id)' => i = j
                    /\ \A a, b \in msgs' : Giving(a, k, id) /\ Giving(b, k, id) => a = b
                    /\ \A j \in Nodes, m \in msgs' : ~(HandOf(j, k, id)' /\ Giving(m, k, id))
                    /\ \A j \in Nodes : HandOf(j, k, id)' => id <= lock'[k].id
                    /\ \A m \in msgs' : Giving(m, k, id) => id <= lock'[k].id
  BY DEF OneHand
<1>1. \A j \in Nodes : HandOf(j, k, id)' => HandOf(j, k, id)
  BY DEF HandsQuiet
<1>2. \A g \in msgs' : Giving(g, k, id) => g \in msgs
  BY DEF MsgsQuiet
<1>3. lock'[k].id = lock[k].id
  BY DEF SameIds
<1>4. QED
  BY <1>1, <1>2, <1>3 DEF OneHand

\* A step by which node j takes what the message m gives.
LEMMA TakenOK ==
    ASSUME OneHand, SameIds, NEW m \in msgs, NEW j \in Nodes,
           \A i, k \in Nodes, id \in 0..MaxLockId :
              HandOf(i, k, id)' => HandOf(i, k, id) \/ (i = j /\ Giving(m, k, id)),
           \A g \in msgs', k \in Nodes, id \in 0..MaxLockId : Giving(g, k, id) => g \in msgs \ {m}
    PROVE  OneHand'
<1> SUFFICES ASSUME NEW k \in Nodes, NEW id \in 0..MaxLockId
             PROVE  /\ \A a, b \in Nodes : HandOf(a, k, id)' /\ HandOf(b, k, id)' => a = b
                    /\ \A a, b \in msgs' : Giving(a, k, id) /\ Giving(b, k, id) => a = b
                    /\ \A a \in Nodes, b \in msgs' : ~(HandOf(a, k, id)' /\ Giving(b, k, id))
                    /\ \A a \in Nodes : HandOf(a, k, id)' => id <= lock'[k].id
                    /\ \A b \in msgs' : Giving(b, k, id) => id <= lock'[k].id
  BY DEF OneHand
<1>1. \A i \in Nodes : HandOf(i, k, id)' => HandOf(i, k, id) \/ (i = j /\ Giving(m, k, id))
  OBVIOUS
<1>2. \A g \in msgs' : Giving(g, k, id) => g \in msgs \ {m}
  OBVIOUS
<1>3. lock'[k].id = lock[k].id
  BY DEF SameIds
<1>4. QED
  BY <1>1, <1>2, <1>3 DEF OneHand

\* A step by which node j puts into the message r what it no longer has.
LEMMA HandedOverOK ==
    ASSUME OneHand, SameIds, HandsQuiet, NEW r, NEW j \in Nodes,
           \A k \in Nodes, id \in 0..MaxLockId : Giving(r, k, id) => HandOf(j, k, id) /\ ~HandOf(j, k, id)',
           \A g \in msgs', k \in Nodes, id \in 0..MaxLockId : Giving(g, k, id) => g \in msgs \cup {r}
    PROVE  OneHand'
<1> SUFFICES ASSUME NEW k \in Nodes, NEW id \in 0..MaxLockId
             PROVE  /\ \A a, b \in Nodes : HandOf(a, k, id)' /\ HandOf(b, k, id)' => a = b
                    /\ \A a, b \in msgs' : Giving(a, k, id) /\ Giving(b, k, id) => a = b
                    /\ \A a \in Nodes, b \in msgs' : ~(HandOf(a, k, id)' /\ Giving(b, k, id))
                    /\ \A a \in Nodes : HandOf(a, k, id)' => id <= lock'[k].id
                    /\ \A b \in msgs' : Giving(b, k, id) => id <= lock'[k].id
  BY DEF OneHand
<1>1. \A i \in Nodes : HandOf(i, k, id)' => HandOf(i, k, id)
  BY DEF HandsQuiet
<1>2. \A g \in msgs' : Giving(g, k, id) => g \in msgs \cup {r}
  OBVIOUS
<1>3. Giving(r, k, id) => HandOf(j, k, id) /\ ~HandOf(j, k, id)'
  OBVIOUS
<1>4. lock'[k].id = lock[k].id
  BY DEF SameIds
<1>5. QED
  BY <1>1, <1>2, <1>3, <1>4 DEF OneHand

\* A step by which the lock of n gets a new id, which the message r gives.
LEMMA IssuedOK ==
    ASSUME OneHand, HandsQuiet, NEW r, NEW n \in Nodes,
           \A k \in Nodes : lock[k].id \in 0..MaxLockId /\ lock'[k].id \in 0..MaxLockId,
           \A k \in Nodes \ {n} : lock'[k].id = lock[k].id,
           lock'[n].id > lock[n].id,
           \A k \in Nodes, id \in 0..MaxLockId : Giving(r, k, id) => k = n /\ id = lock'[n].id,
           \A g \in msgs', k \in Nodes, id \in 0..MaxLockId : Giving(g, k, id) => g \in msgs \cup {r}
    PROVE  OneHand'
<1> SUFFICES ASSUME NEW k \in Nodes, NEW id \in 0..MaxLockId
             PROVE  /\ \A a, b \in Nodes : HandOf(a, k, id)' /\ HandOf(b, k, id)' => a = b
                    /\ \A a, b \in msgs' : Giving(a, k, id) /\ Giving(b, k, id) => a = b
                    /\ \A a \in Nodes, b \in msgs' : ~(HandOf(a, k, id)' /\ Giving(b, k, id))
                    /\ \A a \in Nodes : HandOf(a, k, id)' => id <= lock'[k].id
                    /\ \A b \in msgs' : Giving(b, k, id) => id <= lock'[k].id
  BY DEF OneHand
<1>1. \A i \in Nodes : HandOf(i, k, id)' => HandOf(i, k, id)
  BY DEF HandsQuiet
<1>2. \A g \in msgs' : Giving(g, k, id) => g \in msgs \cup {r}
  OBVIOUS
<1>3. /\ \A a, b \in Nodes : HandOf(a, k, id) /\ HandOf(b, k, id) => a = b
      /\ \A a, b \in msgs : Giving(a, k, id) /\ Giving(b, k, id) => a = b
      /\ \A a \in Nodes, b \in msgs : ~(HandOf(a, k, id) /\ Giving(b, k, id))
      /\ \A a \in Nodes : HandOf(a, k, id) => id <= lock[k].id
      /\ \A b \in msgs : Giving(b, k, id) => id <= lock[k].id
  BY DEF OneHand
<1>4. lock[k].id <= lock'[k].id /\ lock[k].id \in Int /\ lock'[k].id \in Int
  <2>1. lock[k].id \in 0..MaxLockId /\ lock'[k].id \in 0..MaxLockId
    OBVIOUS
  <2>2. CASE k = n
    BY <2>1, <2>2
  <2>3. CASE k /= n
    BY <2>1, <2>3
  <2>4. QED
    BY <2>2, <2>3, <2>1
<1>5. Giving(r, k, id) => k = n /\ id = lock'[n].id
  OBVIOUS
<1>6. CASE ~Giving(r, k, id)
  BY <1>1, <1>2, <1>3, <1>4, <1>6
<1>7. CASE Giving(r, k, id)
  <2>1. k = n /\ id = lock'[k].id /\ ~(id <= lock[k].id)
    BY <1>4, <1>5, <1>7
  <2>2. QED
    BY <1>1, <1>2, <1>3, <1>4, <2>1
<1>8. QED
  BY <1>6, <1>7

\* Who has the entry of a node at hand, before and after a step that changes the
\* entries of one node.
LEMMA HandsKept ==
    ASSUME UNCHANGED <<stage, entries>>
    PROVE  HandsQuiet
  BY DEF HandsQuiet, HandOf

\* Node j alone changes its stage and its entries.
Moves(j, ns, ne) ==
    stage' = [stage EXCEPT ![j] = ns] /\ entries' = [entries EXCEPT ![j] = ne]

\* Only node j changes its entries: the hands of the others stay.
LEMMA OtherHands ==
    ASSUME IInv, NEW j \in Nodes, NEW ns, NEW ne, Moves(j, ns, ne)
    PROVE  /\ \A i \in Nodes \ {j} : stage'[i] = stage[i] /\ entries'[i] = entries[i]
           /\ stage'[j] = ns /\ entries'[j] = ne
           /\ \A i \in Nodes \ {j} : \A k, id : HandOf(i, k, id)' => HandOf(i, k, id)
<1>1. DOMAIN stage = Nodes /\ DOMAIN entries = Nodes
  <2>1. entries = [n \in Nodes |-> entries[n]]
    BY DEF IInv
  <2>2. QED
    BY <2>1 DEF IInv
<1>2. /\ \A i \in Nodes \ {j} : stage'[i] = stage[i] /\ entries'[i] = entries[i]
      /\ stage'[j] = ns /\ entries'[j] = ne
  BY <1>1 DEF Moves
<1>3. QED
  BY <1>2 DEF HandOf

\* A node that starts over has nothing in hand.
LEMMA RestartHands ==
    ASSUME IInv, NEW j \in Nodes, NEW cs, ResetStateForJoining(j, cs)
    PROVE  HandsQuiet
<1> DEFINE ns == IF stage[j] = "Routing" THEN stage[j] ELSE "Query"
<1>1. Moves(j, ns, NoEntries)
  BY DEF ResetStateForJoining, Moves
<1> HIDE DEF ns
<1>2. \A i \in Nodes \ {j} : \A k, id : HandOf(i, k, id)' => HandOf(i, k, id)
  BY <1>1, OtherHands
<1>3. entries'[j] = NoEntries
  BY <1>1, OtherHands
<1>4. \A k, id : ~HandOf(j, k, id)'
  BY <1>3 DEF HandOf, NoEntries
<1>5. QED
  BY <1>2, <1>4 DEF HandsQuiet

\* A node that collects locks: what it has after a check it had completed before,
\* or has still.
LEMMA CheckHands ==
    ASSUME IInv, NEW j \in Nodes, NEW next, EntriesOK(j, next), CheckCompletion(j, "Locking", next)
    PROVE  /\ \A i \in Nodes \ {j} : \A k, id : HandOf(i, k, id)' => HandOf(i, k, id)
           /\ \A k, id : HandOf(j, k, id)' => k \in DOMAIN next /\ next[k].done /\ next[k].id = id
<1>1. PICK ns, ne :
              /\ ns \in Stages
              /\ stage' = [stage EXCEPT ![j] = ns] /\ entries' = [entries EXCEPT ![j] = ne]
              /\ \/ ns = "Locking" /\ ne = next
                 \/ /\ AllCompleted(next)
                    /\ DOMAIN ne = DOMAIN next /\ \A k \in DOMAIN next : ne[k] = Reset(next[k])
                 \/ DOMAIN ne = {}
  BY CheckOK
<1>2. /\ \A i \in Nodes \ {j} : \A k, id : HandOf(i, k, id)' => HandOf(i, k, id)
      /\ stage'[j] = ns /\ entries'[j] = ne
  <2>1. Moves(j, ns, ne)
    BY <1>1 DEF Moves
  <2>2. QED
    BY <2>1, OtherHands
<1>3. ASSUME NEW k, NEW id, HandOf(j, k, id)'
      PROVE  k \in DOMAIN next /\ next[k].done /\ next[k].id = id
  <2>1. k \in DOMAIN ne /\ ne[k].id = id /\ (ne[k].done \/ ns \in {"Establishing", "UnLocking"})
    BY <1>2, <1>3 DEF HandOf
  <2>2. CASE ns = "Locking" /\ ne = next
    BY <2>1, <2>2
  <2>3. CASE /\ AllCompleted(next)
             /\ DOMAIN ne = DOMAIN next /\ \A x \in DOMAIN next : ne[x] = Reset(next[x])
    <3>1. next[k].done /\ next[k] \in Entry /\ ne[k] = Reset(next[k])
      BY <2>1, <2>3 DEF AllCompleted, Completed, EntriesOK
    <3>2. ne[k].id = next[k].id
      BY <3>1 DEF Reset, Entry
    <3>3. QED
      BY <2>1, <2>3, <3>1, <3>2
  <2>4. QED
    BY <1>1, <2>1, <2>2, <2>3
<1>4. QED
  BY <1>2, <1>3

\* A node that has all locks: what it has after a check it had before.
LEMMA CheckHandsLater ==
    ASSUME IInv, NEW j \in Nodes, NEW k \in DOMAIN entries[j], NEW st \in {"Establishing", "UnLocking"},
           stage[j] = st, CheckCompletion(j, st, [entries[j] EXCEPT ![k].done = TRUE])
    PROVE  HandsQuiet
<1> DEFINE es == [entries[j] EXCEPT ![k].done = TRUE]
           e == [entries[j][k] EXCEPT !.done = TRUE]
<1>1. EntriesOK(j, entries[j]) /\ entries[j][k] \in Entry
  BY DEF IInv, EntriesOK
<1>2. e \in Entry /\ e.id = entries[j][k].id
  BY <1>1 DEF Entry
<1>3. es = [entries[j] EXCEPT ![k] = e]
  OBVIOUS
<1> HIDE DEF e
<1>4. /\ EntriesOK(j, es) /\ DOMAIN es = DOMAIN entries[j]
      /\ \A x \in DOMAIN es : es[x] \in Entry /\ es[x].id = entries[j][x].id
  <2>1. EntriesOK(j, es)
    BY <1>1, <1>2, <1>3, ReplaceOK
  <2>2. DOMAIN es = DOMAIN entries[j] /\ \A x \in DOMAIN es : es[x] = IF x = k THEN e ELSE entries[j][x]
    BY <1>1, <1>3 DEF EntriesOK
  <2>3. QED
    BY <1>2, <2>1, <2>2 DEF EntriesOK
<1> HIDE DEF es
<1>5. CheckCompletion(j, st, es)
  BY DEF es
<1>6. PICK ns, ne :
              /\ ns \in Stages
              /\ stage' = [stage EXCEPT ![j] = ns] /\ entries' = [entries EXCEPT ![j] = ne]
              /\ \/ ns = st /\ ne = es
                 \/ DOMAIN ne = DOMAIN es /\ \A x \in DOMAIN es : ne[x] = Reset(es[x])
                 \/ DOMAIN ne = {}
  <2>1. st \in {"Locking", "Establishing", "UnLocking"}
    OBVIOUS
  <2>2. EntriesOK(j, es)
    BY <1>4
  <2>3. QED
    BY <1>5, <2>1, <2>2, CheckOK
<1>7. \A e1 \in Entry : Reset(e1).id = e1.id
  BY DEF Reset, Entry
<1>8. \A x \in DOMAIN ne : x \in DOMAIN entries[j] /\ ne[x].id = entries[j][x].id
  BY <1>4, <1>6, <1>7
<1>9. /\ \A i \in Nodes \ {j} : \A x, id : HandOf(i, x, id)' => HandOf(i, x, id)
      /\ entries'[j] = ne
  <2>1. Moves(j, ns, ne)
    BY <1>6 DEF Moves
  <2>2. QED
    BY <2>1, OtherHands
<1>10. \A x, id : HandOf(j, x, id)' => HandOf(j, x, id)
  BY <1>8, <1>9 DEF HandOf
<1>11. QED
  BY <1>9, <1>10 DEF HandsQuiet

\* The ids of locks that are released or expire.
LEMMA IdsKept ==
    ASSUME IInv, NEW n \in Nodes,
           UNCHANGED lock \/ lock' = ReleaseLock(n) \/ LockExpires(n)
    PROVE  SameIds
<1>1. lock = [k \in Nodes |-> lock[k]] /\ LockOK(n, lock[n])
  BY DEF IInv
<1>2. CASE UNCHANGED lock
  BY <1>2 DEF SameIds
<1>3. CASE lock' = ReleaseLock(n)
  BY <1>1, <1>3 DEF SameIds, ReleaseLock
<1>4. CASE LockExpires(n)
  <2>1. lock' = [lock EXCEPT ![n] = [lock[n] EXCEPT !.held = FALSE]]
    BY <1>4 DEF LockExpires
  <2>2. [lock[n] EXCEPT !.held = FALSE].id = lock[n].id
    BY <1>1 DEF LockOK
  <2>3. QED
    BY <1>1, <2>1, <2>2 DEF SameIds
<1>5. QED
  BY <1>2, <1>3, <1>4

\* Messages of other kinds give nothing.
LEMMA KindsQuiet ==
    ASSUME NEW new, msgs' \subseteq msgs \cup new,
           \A x \in new : x.kind \notin {"LockGrant", "TransferReply"}
    PROVE  MsgsQuiet
  BY DEF MsgsQuiet, Giving

\* Nor does one message of another kind.
LEMMA KindQuiet ==
    ASSUME NEW x, msgs' \subseteq msgs \cup {x}, x.kind \notin {"LockGrant", "TransferReply"}
    PROVE  MsgsQuiet
  BY DEF MsgsQuiet, Giving

\* Steps that leave stages, entries and lock ids alone, and only send messages that
\* give nothing.
LEMMA QuietSteps ==
    ASSUME IInv, OneHand, NEW n \in Nodes, NEW k \in Nodes,
           \/ \E m \in msgs : \/ Lose(m) \/ Undelivered(n, m) \/ FaultHandler(n, m) \/ PingHandler(n, m)
                              \/ LockReleaseHandler(n, m) \/ UnlockHandler(n, m)
           \/ Ping(n, k) \/ SetShutdown(n, k) \/ NeighborhoodQueryRequestHandler(n, k)
           \/ LockExpires(n) \/ ResetLock(n) \/ Close(n) \/ StartLeaseEstablish(n) \/ StartRouting(n)
           \/ RestartInstance(n)
    PROVE  OneHand'
<1>1. /\ UNCHANGED <<stage, entries>>
      /\ UNCHANGED lock \/ lock' = ReleaseLock(n) \/ LockExpires(n)
  <2>1. ASSUME NEW m \in msgs, \/ Lose(m) \/ Undelivered(n, m) \/ FaultHandler(n, m) \/ PingHandler(n, m)
                               \/ LockReleaseHandler(n, m) \/ UnlockHandler(n, m)
        PROVE  UNCHANGED <<stage, entries>> /\ (UNCHANGED lock \/ lock' = ReleaseLock(n))
    BY <2>1 DEF Lose, Undelivered, FaultHandler, PingHandler, LockReleaseHandler, UnlockHandler
  <2>2. ASSUME Ping(n, k) \/ SetShutdown(n, k) \/ NeighborhoodQueryRequestHandler(n, k)
               \/ Close(n) \/ StartLeaseEstablish(n) \/ StartRouting(n) \/ RestartInstance(n)
        PROVE  UNCHANGED <<stage, entries, lock>>
    BY <2>2 DEF Ping, SetShutdown, NeighborhoodQueryRequestHandler, Close, StartLeaseEstablish,
       StartRouting, RestartInstance
  <2>3. ASSUME LockExpires(n) \/ ResetLock(n)
        PROVE  UNCHANGED <<stage, entries>> /\ (lock' = ReleaseLock(n) \/ LockExpires(n))
    BY <2>3 DEF LockExpires, ResetLock
  <2>4. QED
    BY <2>1, <2>2, <2>3
<1>2. MsgsQuiet
  <2>1. ASSUME NEW m \in msgs, \/ Lose(m) \/ FaultHandler(n, m) \/ PingHandler(n, m) \/ LockReleaseHandler(n, m)
        PROVE  msgs' \subseteq msgs
    BY <2>1 DEF Lose, FaultHandler, PingHandler, LockReleaseHandler, Exchanged
  <2>2. ASSUME NEW m \in msgs, Undelivered(n, m) PROVE MsgsQuiet
    <3> DEFINE f == WithId(n, m.from, Learned(n, m)[m.from].inst, "Fault", m.toInst)
    <3>1. msgs' \subseteq msgs \cup {f}
      BY <2>2 DEF Undelivered, Exchanged
    <3>2. f.kind = "Fault"
      BY DEF WithId, Message
    <3> HIDE DEF f
    <3>3. QED
      BY <3>1, <3>2, KindQuiet
  <2>3. ASSUME NEW m \in msgs, UnlockHandler(n, m) PROVE MsgsQuiet
    <3> DEFINE kind == IF m.id = lock[n].id THEN "UnlockGrant" ELSE "UnlockDeny"
               a == WithId(n, m.from, From(n, m).inst, kind, m.id)
    <3>1. msgs' \subseteq msgs \cup {a}
      BY <2>3 DEF UnlockHandler, Exchanged
    <3>2. a.kind \in {"UnlockGrant", "UnlockDeny"}
      BY DEF WithId, Message
    <3> HIDE DEF a
    <3>3. QED
      BY <3>1, <3>2, KindQuiet
  <2>4. ASSUME Ping(n, k) PROVE MsgsQuiet
    <3> DEFINE p == Message(n, k, table[n][k].inst, "Ping")
    <3>1. msgs' = msgs \cup {p}
      BY <2>4 DEF Ping
    <3>2. p.kind = "Ping"
      BY DEF Message
    <3> HIDE DEF p
    <3>3. QED
      BY <3>1, <3>2, KindQuiet
  <2>5. ASSUME NeighborhoodQueryRequestHandler(n, k) PROVE MsgsQuiet
    <3> DEFINE p == Message(n, k, Inst(k), "QueryReply")
    <3>1. msgs' = msgs \cup {p}
      BY <2>5 DEF NeighborhoodQueryRequestHandler
    <3>2. p.kind = "QueryReply"
      BY DEF Message
    <3> HIDE DEF p
    <3>3. QED
      BY <3>1, <3>2, KindQuiet
  <2>6. ASSUME SetShutdown(n, k) \/ LockExpires(n) \/ ResetLock(n) \/ Close(n)
               \/ StartLeaseEstablish(n) \/ StartRouting(n) \/ RestartInstance(n)
        PROVE  msgs' \subseteq msgs
    BY <2>6 DEF SetShutdown, LockExpires, ResetLock, Close, StartLeaseEstablish, StartRouting, RestartInstance
  <2>7. msgs' \subseteq msgs => MsgsQuiet
    BY DEF MsgsQuiet
  <2>8. QED
    BY <2>1, <2>2, <2>3, <2>4, <2>5, <2>6, <2>7
<1>3. QED
  BY <1>1, <1>2, HandsKept, IdsKept, QuietOK

\* A lock request: the grant has an id nobody has.
LEMMA LockRequestHands ==
    ASSUME IInv, IInv', OneHand, NEW n \in Nodes, NEW m, LockRequestHandler(n, m)
    PROVE  OneHand'
<1> DEFINE reply(kind) == WithId(n, m.from, From(n, m).inst, kind, lock'[n].id)
           deny == [reply("LockDeny") EXCEPT !.owner = DenyOwner(n, m)]
           grant == reply("LockGrant")
<1>1. UNCHANGED <<stage, entries>>
  BY DEF LockRequestHandler
<1>2. \/ UNCHANGED lock /\ Exchanged(m, {})
      \/ UNCHANGED lock /\ Exchanged(m, {deny})
      \/ lock' = [lock EXCEPT ![n] = Granted(n, m, NextLockId(n))] /\ Exchanged(m, {grant})
  BY DEF LockRequestHandler
<1>3. deny.kind = "LockDeny"
  BY DEF WithId, Message
<1>4. grant.kind = "LockGrant" /\ grant.from = n /\ grant.id = lock'[n].id
  BY DEF WithId, Message
<1> HIDE DEF deny, grant
<1>5. CASE UNCHANGED lock /\ (Exchanged(m, {}) \/ Exchanged(m, {deny}))
  <2>1. MsgsQuiet
    <3>1. msgs' \subseteq msgs \cup {deny}
      BY <1>5 DEF Exchanged
    <3>2. QED
      BY <1>3, <3>1, KindQuiet
  <2>2. SameIds
    BY <1>5 DEF SameIds
  <2>3. QED
    BY <1>1, <2>1, <2>2, HandsKept, QuietOK
<1>6. CASE lock' = [lock EXCEPT ![n] = Granted(n, m, NextLockId(n))] /\ Exchanged(m, {grant})
  <2>1. \A k \in Nodes : lock[k].id \in 0..MaxLockId /\ lock'[k].id \in 0..MaxLockId
    BY DEF IInv, LockOK
  <2>2. DOMAIN lock = Nodes
    <3>1. lock = [k \in Nodes |-> lock[k]]
      BY DEF IInv
    <3>2. QED
      BY <3>1
  <2>3. lock'[n].id = lock[n].id + 1
    BY <1>6, <2>2 DEF Granted, NextLockId
  <2>4. \A k \in Nodes \ {n} : lock'[k].id = lock[k].id
    BY <1>6, <2>2
  <2>5. lock'[n].id > lock[n].id
    BY <2>1, <2>3
  <2>6. \A k \in Nodes, id \in 0..MaxLockId : Giving(grant, k, id) => k = n /\ id = lock'[n].id
    BY <1>4 DEF Giving
  <2>7. msgs' \subseteq msgs \cup {grant}
    BY <1>6 DEF Exchanged
  <2>8. QED
    BY <1>1, <2>1, <2>4, <2>5, <2>6, <2>7, HandsKept, IssuedOK
<1>7. QED
  BY <1>2, <1>5, <1>6

\* A renewal gives nothing new: its grant is not a grant of the id.
LEMMA LockRenewHands ==
    ASSUME IInv, OneHand, NEW n \in Nodes, NEW m, LockRenewHandler(n, m)
    PROVE  OneHand'
<1> DEFINE grant == [WithId(n, m.from, From(n, m).inst, "LockGrant", m.id) EXCEPT !.renew = TRUE]
<1>1. /\ UNCHANGED <<stage, entries>>
      /\ \/ UNCHANGED lock
         \/ m.id = lock[n].id /\ lock' = [lock EXCEPT ![n] = Granted(n, m, m.id)]
      /\ Exchanged(m, {}) \/ Exchanged(m, {grant})
  BY DEF LockRenewHandler
<1>2. grant.renew = TRUE /\ grant.kind = "LockGrant"
  BY DEF WithId, Message
<1> HIDE DEF grant
<1>3. MsgsQuiet
  BY <1>1, <1>2 DEF MsgsQuiet, Exchanged, Giving
<1>4. SameIds
  <2>1. lock = [k \in Nodes |-> lock[k]]
    BY DEF IInv
  <2>2. Granted(n, m, m.id).id = m.id
    BY DEF Granted
  <2>3. QED
    BY <1>1, <2>1, <2>2 DEF SameIds
<1>5. QED
  BY <1>1, <1>3, <1>4, HandsKept, QuietOK

\* The answer to a query leads to a stage in which nothing is in hand that is not done.
LEMMA QueryCompletedHands ==
    ASSUME IInv, OneHand, NEW j \in Nodes, NEW m, OnNeighborhoodQueryRequestCompleted(j, m)
    PROVE  OneHand'
<1>1. /\ UNCHANGED <<entries, lock>> /\ Exchanged(m, {})
      /\ stage' = stage \/ stage' = [stage EXCEPT ![j] = "Locking"]
  BY DEF OnNeighborhoodQueryRequestCompleted
<1>2. \A i \in Nodes : stage'[i] = stage[i] \/ stage'[i] = "Locking"
  BY <1>1 DEF IInv
<1>3. HandsQuiet
  BY <1>1, <1>2 DEF HandsQuiet, HandOf
<1>4. MsgsQuiet /\ SameIds
  BY <1>1 DEF MsgsQuiet, SameIds, Exchanged
<1>5. QED
  BY <1>3, <1>4, QuietOK

\* Nor do the later stages get hold of a lock.
LEMMA LaterHands ==
    ASSUME IInv, OneHand, NEW j \in Nodes, NEW k \in Nodes,
           \/ RunUnLocking(j) \/ LeaseEstablishHandler(j, k) \/ \E c : RestartUnLocking(j, c)
           \/ \E m \in msgs : UnLockGrantHandler(j, m) \/ UnLockDenyHandler(j, m)
    PROVE  OneHand'
<1>1. CASE RunUnLocking(j)
  <2> DEFINE w(x) == WithId(j, x, entries[j][x].inst, "Unlock", entries[j][x].id)
  <2>1. PICK due : msgs' = msgs \cup {w(x) : x \in due}
    BY <1>1 DEF RunUnLocking
  <2>2. \A x : w(x).kind = "Unlock"
    BY DEF WithId, Message
  <2> HIDE DEF w
  <2>3. MsgsQuiet
    BY <2>1, <2>2 DEF MsgsQuiet, Giving
  <2>4. UNCHANGED <<stage, entries, lock>>
    BY <1>1 DEF RunUnLocking
  <2>5. QED
    BY <2>3, <2>4, HandsKept, QuietOK DEF SameIds
<1>2. CASE LeaseEstablishHandler(j, k)
  <2>1. /\ stage[j] = "Establishing" /\ k \in DOMAIN entries[j] /\ UNCHANGED <<lock, msgs>>
        /\ \/ CheckCompletion(j, "Establishing", [entries[j] EXCEPT ![k].done = TRUE])
           \/ ResetStateForJoining(j, calls[j])
    BY <1>2 DEF LeaseEstablishHandler
  <2>2. HandsQuiet
    BY <2>1, CheckHandsLater, RestartHands
  <2>3. QED
    BY <2>1, <2>2, QuietOK DEF SameIds, MsgsQuiet
<1>3. ASSUME NEW m \in msgs, UnLockGrantHandler(j, m) PROVE OneHand'
  <2>1. /\ UNCHANGED lock /\ Exchanged(m, {})
        /\ \/ UNCHANGED <<stage, entries>>
           \/ /\ stage[j] = "UnLocking" /\ m.from \in DOMAIN entries[j]
              /\ CheckCompletion(j, "UnLocking", [entries[j] EXCEPT ![m.from].done = TRUE])
    BY <1>3 DEF UnLockGrantHandler, Answers, HasLock
  <2>2. HandsQuiet
    BY <2>1, CheckHandsLater, HandsKept
  <2>3. QED
    BY <2>1, <2>2, QuietOK DEF SameIds, MsgsQuiet, Exchanged
<1>4. ASSUME NEW m \in msgs, UnLockDenyHandler(j, m) PROVE OneHand'
  <2>1. /\ UNCHANGED lock /\ Exchanged(m, {})
        /\ UNCHANGED <<stage, entries>> \/ ResetStateForJoining(j, calls[j])
    BY <1>4 DEF UnLockDenyHandler
  <2>2. HandsQuiet
    BY <2>1, RestartHands, HandsKept
  <2>3. QED
    BY <2>1, <2>2, QuietOK DEF SameIds, MsgsQuiet, Exchanged
<1>5. ASSUME NEW c, RestartUnLocking(j, c) PROVE OneHand'
  <2>1. /\ UNCHANGED <<lock, msgs>>
        /\ UNCHANGED <<stage, entries>> \/ ResetStateForJoining(j, calls[j] \ {c})
    BY <1>5 DEF RestartUnLocking
  <2>2. HandsQuiet
    BY <2>1, RestartHands, HandsKept
  <2>3. QED
    BY <2>1, <2>2, QuietOK DEF SameIds, MsgsQuiet
<1>6. QED
  BY <1>1, <1>2, <1>3, <1>4, <1>5

\* What was done before is in hand.
LEMMA FromBeforeHands ==
    ASSUME NEW j, NEW next, NEW k, NEW id, FromBefore(j, next, k), next[k].id = id
    PROVE  HandOf(j, k, id)
  BY DEF FromBefore, HandOf

\* A grant moves to the node that takes it.
LEMMA LockGrantHands ==
    ASSUME IInv, OneHand, NEW j \in Nodes, NEW m \in msgs, LockGrantHandler(j, m)
    PROVE  OneHand'
<1>1. m.kind = "LockGrant" /\ UNCHANGED lock
  BY LockGrantStep, ReceivedOK
<1>2. PICK new : Exchanged(m, new) /\ \A x \in new : x.kind = "LockRelease"
  BY LockGrantStep
<1>3. \A g \in msgs', k \in Nodes, id \in 0..MaxLockId : Giving(g, k, id) => g \in msgs \ {m}
  BY <1>2 DEF Exchanged, Giving
<1>4. \A i, k \in Nodes, id \in 0..MaxLockId :
         HandOf(i, k, id)' => HandOf(i, k, id) \/ (i = j /\ Giving(m, k, id))
  <2>1. CASE UNCHANGED <<stage, entries>>
    BY <2>1 DEF HandOf
  <2>2. CASE \E next : /\ CheckCompletion(j, "Locking", next)
                       /\ EntriesOK(j, next)
                       /\ \A x \in DOMAIN next : next[x].done =>
                             \/ FromBefore(j, next, x)
                             \/ x = m.from /\ ~m.renew /\ next[x].id = m.id
    <3>1. PICK next : /\ CheckCompletion(j, "Locking", next)
                      /\ EntriesOK(j, next)
                      /\ \A x \in DOMAIN next : next[x].done =>
                             \/ FromBefore(j, next, x)
                             \/ x = m.from /\ ~m.renew /\ next[x].id = m.id
      BY <2>2
    <3>2. /\ \A i \in Nodes \ {j} : \A k, id : HandOf(i, k, id)' => HandOf(i, k, id)
          /\ \A k, id : HandOf(j, k, id)' => k \in DOMAIN next /\ next[k].done /\ next[k].id = id
      BY <3>1, CheckHands
    <3>3. \A k, id : HandOf(j, k, id)' => HandOf(j, k, id) \/ Giving(m, k, id)
      BY <1>1, <3>1, <3>2, FromBeforeHands DEF Giving
    <3>4. QED
      BY <3>2, <3>3
  <2>3. QED
    BY <2>1, <2>2, LockGrantStep
<1>5. QED
  BY <1>1, <1>3, <1>4, TakenOK DEF SameIds

\* A denial leaves the node what it has, and its request for locks gives none.
LEMMA LockDenyHands ==
    ASSUME IInv, OneHand, NEW j \in Nodes, NEW m \in msgs, LockDenyHandler(j, m)
    PROVE  OneHand'
<1>1. UNCHANGED <<stage, lock>>
  BY LockDenyStep
<1>2. PICK new : Exchanged(m, new) /\ \A x \in new : x.kind \in {"LockRelease", "TransferRequest"}
  BY LockDenyStep
<1>3. MsgsQuiet
  BY <1>2 DEF MsgsQuiet, Exchanged, Giving
<1>4. HandsQuiet
  <2>1. CASE UNCHANGED entries
    BY <1>1, <2>1, HandsKept
  <2>2. CASE stage[j] = "Locking" /\ \E next : /\ entries' = [entries EXCEPT ![j] = next]
                         /\ \A x \in DOMAIN next : next[x].done => FromBefore(j, next, x)
    <3>1. PICK next : /\ entries' = [entries EXCEPT ![j] = next]
                      /\ \A x \in DOMAIN next : next[x].done => FromBefore(j, next, x)
      BY <2>2
    <3>2. stage' = [stage EXCEPT ![j] = "Locking"]
      BY <1>1, <2>2 DEF IInv
    <3>3. /\ \A i \in Nodes \ {j} : \A k, id : HandOf(i, k, id)' => HandOf(i, k, id)
          /\ entries'[j] = next /\ stage'[j] = "Locking"
      <4>1. Moves(j, "Locking", next)
        BY <3>1, <3>2 DEF Moves
      <4>2. QED
        BY <4>1, OtherHands
    <3>4. \A k, id : HandOf(j, k, id)' => HandOf(j, k, id)
      BY <3>1, <3>3, FromBeforeHands DEF HandOf
    <3>5. QED
      BY <3>3, <3>4 DEF HandsQuiet
  <2>3. QED
    BY <2>1, <2>2, LockDenyStep
<1>5. QED
  BY <1>1, <1>3, <1>4, QuietOK DEF SameIds

\* Locks move from the node that hands them over to its reply.
LEMMA TransferRequestHands ==
    ASSUME IInv, OneHand, NEW j \in Nodes, NEW m \in msgs, LockTransferRequestHandler(j, m)
    PROVE  OneHand'
<1>1. UNCHANGED <<stage, lock>>
  BY TransferRequestStep
<1>2. PICK given, reply :
         /\ given \in SUBSET DOMAIN entries[j]
         /\ stage[j] /= "Locking" => given = {}
         /\ \A k \in given : entries[j][k].done
         /\ \E next :
               /\ entries' = [entries EXCEPT ![j] = next]
               /\ EntriesOK(j, next) /\ DOMAIN next = DOMAIN entries[j]
               /\ \A k \in DOMAIN next :
                     next[k].id = entries[j][k].id
                     /\ (next[k].done => entries[j][k].done /\ k \notin given)
         /\ Exchanged(m, {reply}) /\ MsgOK(reply) /\ reply.kind = "TransferReply"
         /\ reply.locks = {Transfer(k, entries[j][k]) : k \in given}
  BY TransferRequestStep
<1>3. PICK next :
         /\ entries' = [entries EXCEPT ![j] = next]
         /\ EntriesOK(j, next) /\ DOMAIN next = DOMAIN entries[j]
         /\ \A k \in DOMAIN next :
               next[k].id = entries[j][k].id
               /\ (next[k].done => entries[j][k].done /\ k \notin given)
  BY <1>2
<1>4. PICK ns : Moves(j, ns, next)
  <2>1. stage' = [stage EXCEPT ![j] = stage[j]]
    BY <1>1 DEF IInv
  <2>2. QED
    BY <1>3, <2>1 DEF Moves
<1>5. /\ \A i \in Nodes \ {j} : \A k, id : HandOf(i, k, id)' => HandOf(i, k, id)
      /\ entries'[j] = next /\ stage'[j] = stage[j]
  <2>1. /\ \A i \in Nodes \ {j} : \A k, id : HandOf(i, k, id)' => HandOf(i, k, id)
        /\ entries'[j] = next
    BY <1>4, OtherHands
  <2>2. QED
    BY <1>1, <2>1
<1>6. \A k, id : HandOf(j, k, id)' => HandOf(j, k, id)
  BY <1>3, <1>5 DEF HandOf
<1>7. HandsQuiet
  BY <1>5, <1>6 DEF HandsQuiet
<1>8. ASSUME NEW k \in Nodes, NEW id \in 0..MaxLockId, Giving(reply, k, id)
      PROVE  HandOf(j, k, id) /\ ~HandOf(j, k, id)'
  <2>1. PICK x \in given : Transfer(x, entries[j][x]).node = k /\ Transfer(x, entries[j][x]).id = id
    BY <1>2, <1>8 DEF Giving
  <2>2. x = k /\ entries[j][k].id = id
    BY <2>1 DEF Transfer
  <2>3. k \in DOMAIN entries[j] /\ entries[j][k].done /\ stage[j] = "Locking"
    BY <1>2, <2>2
  <2>4. ~next[k].done /\ k \in DOMAIN next
    BY <1>3, <2>2, <2>3
  <2>5. QED
    BY <1>5, <2>2, <2>3, <2>4 DEF HandOf
<1>9. \A g \in msgs', k \in Nodes, id \in 0..MaxLockId : Giving(g, k, id) => g \in msgs \cup {reply}
  BY <1>2 DEF Exchanged
<1>10. SameIds
  BY <1>1 DEF SameIds
<1>11. QED
  BY <1>7, <1>8, <1>9, <1>10, HandedOverOK

\* And from the reply to the node that takes them.
LEMMA TransferReplyHands ==
    ASSUME IInv, OneHand, NEW j \in Nodes, NEW m \in msgs, LockTransferReplyHandler(j, m)
    PROVE  OneHand'
<1>1. m.kind = "TransferReply" /\ UNCHANGED lock
  BY TransferReplyStep, ReceivedOK
<1>2. PICK new : Exchanged(m, new) /\ \A x \in new : x.kind \in {"LockRelease", "LockRenew"}
  BY TransferReplyStep
<1>3. \A g \in msgs', k \in Nodes, id \in 0..MaxLockId : Giving(g, k, id) => g \in msgs \ {m}
  BY <1>2 DEF Exchanged, Giving
<1>4. \A i, k \in Nodes, id \in 0..MaxLockId :
         HandOf(i, k, id)' => HandOf(i, k, id) \/ (i = j /\ Giving(m, k, id))
  <2>1. CASE UNCHANGED <<stage, entries>>
    BY <2>1 DEF HandOf
  <2>2. CASE \E next : /\ CheckCompletion(j, "Locking", next)
                       /\ EntriesOK(j, next)
                       /\ \A k \in DOMAIN next : next[k].done =>
                             \/ FromBefore(j, next, k)
                             \/ \E x \in m.locks : x.node = k /\ x.id = next[k].id
    <3>1. PICK next : /\ CheckCompletion(j, "Locking", next)
                      /\ EntriesOK(j, next)
                      /\ \A k \in DOMAIN next : next[k].done =>
                            \/ FromBefore(j, next, k)
                            \/ \E x \in m.locks : x.node = k /\ x.id = next[k].id
      BY <2>2
    <3>2. /\ \A i \in Nodes \ {j} : \A k, id : HandOf(i, k, id)' => HandOf(i, k, id)
          /\ \A k, id : HandOf(j, k, id)' => k \in DOMAIN next /\ next[k].done /\ next[k].id = id
      BY <3>1, CheckHands
    <3>3. \A k, id : HandOf(j, k, id)' => HandOf(j, k, id) \/ Giving(m, k, id)
      BY <1>1, <3>1, <3>2, FromBeforeHands DEF Giving
    <3>4. QED
      BY <3>2, <3>3
  <2>3. QED
    BY <2>1, <2>2, TransferReplyStep
<1>5. QED
  BY <1>1, <1>3, <1>4, TakenOK DEF SameIds

\* The timer only drops locks.
LEMMA RunLockingHands ==
    ASSUME IInv, OneHand, NEW j \in Nodes, NEW due, NEW old, RunLocking(j, due, old)
    PROVE  OneHand'
<1>1. UNCHANGED lock
  BY RunLockingStep
<1>2. PICK new : /\ msgs' = msgs \cup new
                 /\ \A x \in new : x.kind \in {"LockRelease", "LockRequest", "LockRenew"}
  BY RunLockingStep
<1>3. MsgsQuiet
  BY <1>2 DEF MsgsQuiet, Giving
<1>4. PICK next : /\ CheckCompletion(j, "Locking", next)
                  /\ EntriesOK(j, next)
                  /\ \A k \in DOMAIN next : next[k].done => FromBefore(j, next, k)
  BY RunLockingStep
<1>5. /\ \A i \in Nodes \ {j} : \A k, id : HandOf(i, k, id)' => HandOf(i, k, id)
      /\ \A k, id : HandOf(j, k, id)' => k \in DOMAIN next /\ next[k].done /\ next[k].id = id
  BY <1>4, CheckHands
<1>6. \A k, id : HandOf(j, k, id)' => HandOf(j, k, id)
  BY <1>4, <1>5, FromBeforeHands
<1>7. HandsQuiet
  BY <1>5, <1>6 DEF HandsQuiet
<1>8. QED
  BY <1>1, <1>3, <1>7, QuietOK DEF SameIds

\* Every step leaves an id in one hand.
LEMMA NextHands == IInv /\ IInv' /\ OneHand /\ [Next]_vars => OneHand'
<1> SUFFICES ASSUME IInv, IInv', OneHand, [Next]_vars PROVE OneHand'
  OBVIOUS
<1>1. Joiners \subseteq Nodes
  BY DEF Nodes
<1>2. ASSUME NEW m \in msgs, Lose(m) \/ Handle(m.to, m) PROVE OneHand'
  <2>1. m.to \in Nodes
    BY DEF IInv, MsgsOK, MsgOK
  <2>2. \/ Lose(m) \/ Undelivered(m.to, m) \/ FaultHandler(m.to, m) \/ PingHandler(m.to, m)
        \/ LockReleaseHandler(m.to, m) \/ UnlockHandler(m.to, m)
        \/ LockRequestHandler(m.to, m) \/ LockRenewHandler(m.to, m)
        \/ OnNeighborhoodQueryRequestCompleted(m.to, m)
        \/ LockGrantHandler(m.to, m) \/ LockDenyHandler(m.to, m)
        \/ LockTransferRequestHandler(m.to, m) \/ LockTransferReplyHandler(m.to, m)
        \/ UnLockGrantHandler(m.to, m) \/ UnLockDenyHandler(m.to, m)
    BY <1>2 DEF Handle
  <2>3. QED
    BY <2>1, <2>2, QuietSteps, LockRequestHands, LockRenewHands, QueryCompletedHands,
       LockGrantHands, LockDenyHands, TransferRequestHands, TransferReplyHands, LaterHands
<1>3. ASSUME NEW n \in Nodes, NEW k \in Nodes, Ping(n, k) \/ SetShutdown(n, k) PROVE OneHand'
  BY <1>3, QuietSteps
<1>4. ASSUME NEW j \in Joiners, NEW k \in Nodes,
             NeighborhoodQueryRequestHandler(k, j) \/ LeaseEstablishHandler(j, k)
      PROVE  OneHand'
  BY <1>1, <1>4, QuietSteps, LaterHands
<1>5. ASSUME NEW n \in Nodes, LockExpires(n) \/ ResetLock(n) \/ Close(n) PROVE OneHand'
  BY <1>5, QuietSteps
<1>6. ASSUME NEW j \in Joiners, Timeout(j) PROVE OneHand'
  BY <1>1, <1>6, RunLockingHands, LaterHands DEF Timeout
<1>7. ASSUME NEW j \in Joiners, Resume(j) PROVE OneHand'
  BY <1>1, <1>7, QuietSteps, LaterHands DEF Resume
<1>8. CASE UNCHANGED vars
  <2>1. UNCHANGED <<stage, entries, lock, msgs>>
    BY <1>8 DEF vars
  <2>2. QED
    BY <2>1, HandsKept, QuietOK DEF SameIds, MsgsQuiet
<1>9. QED
  BY <1>2, <1>3, <1>4, <1>5, <1>6, <1>7, <1>8 DEF Next

\* A set with at most one element has at most that many.
LEMMA AtMostOne ==
    ASSUME NEW S, \A x, y \in S : x = y
    PROVE  (S = {} /\ Cardinality(S) = 0) \/ (S /= {} /\ Cardinality(S) = 1)
<1>1. CASE S = {}
  BY <1>1, FS_EmptySet
<1>2. CASE S /= {}
  <2>1. PICK x : x \in S
    BY <1>2
  <2>2. S = {x}
    BY <2>1
  <2>3. QED
    BY <1>2, <2>2, FS_Singleton
<1>3. QED
  BY <1>1, <1>2

\* OneHolder for any nodes, instances, losses, lapses and bounds: whoever joins,
\* starts over, hands locks over or lets them expire, an id of a lock is with one
\* joining node or in one message, never two.
THEOREM LocksInOneHand == Spec => []OneHolder
<1>1. Init => OneHand
  BY DEF Init, OneHand, HandOf, NoEntries
<1>2. OneHand => OneHolder
  <2> SUFFICES ASSUME OneHand, NEW k \in Nodes, NEW inst \in 1..MaxInstance, NEW id \in 0..MaxLockId
               PROVE  Cardinality({j \in Joiners : Holds(j, k, inst, id)})
                        + Cardinality({m \in msgs : Gives(m, k, inst, id)}) <= 1
    BY DEF OneHolder
  <2> DEFINE H == {j \in Joiners : Holds(j, k, inst, id)}
             G == {m \in msgs : Gives(m, k, inst, id)}
  <2>1. \A j \in H : j \in Nodes /\ HandOf(j, k, id)
    BY DEF Holds, HasLock, HandOf, Nodes
  <2>2. \A m \in G : m \in msgs /\ Giving(m, k, id)
    BY DEF Gives, Giving
  <2>3. \A i, j \in H : i = j
    BY <2>1 DEF OneHand
  <2>4. \A a, b \in G : a = b
    BY <2>2 DEF OneHand
  <2>5. H = {} \/ G = {}
    BY <2>1, <2>2 DEF OneHand
  <2> HIDE DEF H, G
  <2>6. QED
    <3>1. (H = {} /\ Cardinality(H) = 0) \/ (H /= {} /\ Cardinality(H) = 1)
      BY <2>3, AtMostOne
    <3>2. (G = {} /\ Cardinality(G) = 0) \/ (G /= {} /\ Cardinality(G) = 1)
      BY <2>4, AtMostOne
    <3>3. Cardinality(H) + Cardinality(G) <= 1
      BY <2>5, <3>1, <3>2
    <3>4. QED
      BY <3>3 DEF H, G
<1>3. QED
  BY <1>1, <1>2, NextHands, IInvHolds, PTL DEF Spec

=============================================================================
