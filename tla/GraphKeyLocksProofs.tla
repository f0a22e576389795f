------------------------ MODULE GraphKeyLocksProofs ------------------------
(***************************************************************************)
(* Proofs about GraphKeyLocks, for any contexts, contracts, keys and seqs. *)
(***************************************************************************)
EXTENDS DeadLockSearch, TLAPS

\* The conjuncts of KeyLockInv are inductive together: mutual exclusion needs
\* nothing else, but an acquisition keeps NoSelfWait only because it removes
\* the context's own requests for what it acquires.
LEMMA AcquireKeepsInv ==
    ASSUME KeyLockInv,
           NEW contract \in Contracts, NEW key \in Keys,
           NEW ctx \in ContextIDs, NEW seq \in Seqs,
           AcquireOwns(contract, key, ctx, seq) \/ AcquireWaits(contract, key, ctx, seq)
    PROVE  KeyLockInv'
<1> DEFINE lock == <<contract, key>>
           edge == EdgeOf(lock, ctx, seq)
<1>1. edge \in Edge /\ edge.lock = lock /\ edge.ctx = ctx /\ lock \in KeyLock
  BY DEF EdgeOf, Edge, KeyLock
<1> HIDE DEF lock, edge
<1>2. CASE AcquireOwns(contract, key, ctx, seq)
  <2>1. /\ m_vertexes' = m_vertexes \cup {ctx}
        /\ request' = {e \in request : ~(e.lock = lock /\ e.ctx = ctx)}
        /\ own' = own \cup {edge}
        /\ \A e \in own : e.lock = lock => e.ctx = ctx
    BY <1>2 DEF AcquireOwns, HeldByOther, lock, edge
  <2>2. KeyLockTypeOK'
    BY <1>1, <2>1 DEF KeyLockInv, KeyLockTypeOK
  <2>3. MutualExclusion'
    BY <1>1, <2>1 DEF KeyLockInv, MutualExclusion
  <2>4. VertexHasEdge'
    BY <1>1, <2>1 DEF KeyLockInv, VertexHasEdge
  <2>5. NoSelfWait'
    BY <1>1, <2>1 DEF KeyLockInv, NoSelfWait
  <2> QED BY <2>2, <2>3, <2>4, <2>5 DEF KeyLockInv
<1>3. CASE AcquireWaits(contract, key, ctx, seq)
  <2>1. /\ m_vertexes' = m_vertexes \cup {ctx}
        /\ request' = request \cup {edge}
        /\ own' = own
        /\ \E e \in own : e.lock = lock /\ e.ctx # ctx
    BY <1>3 DEF AcquireWaits, HeldByOther, lock, edge
  <2>2. KeyLockTypeOK'
    BY <1>1, <2>1 DEF KeyLockInv, KeyLockTypeOK
  <2>3. MutualExclusion'
    BY <2>1 DEF KeyLockInv, MutualExclusion
  <2>4. VertexHasEdge'
    BY <1>1, <2>1 DEF KeyLockInv, VertexHasEdge
  <2>5. NoSelfWait'
    BY <1>1, <2>1 DEF KeyLockInv, NoSelfWait, MutualExclusion
  <2> QED BY <2>2, <2>3, <2>4, <2>5 DEF KeyLockInv
<1> QED BY <1>2, <1>3

\* A batch that succeeds adds own edges for all of its keys at once.
LEMMA BatchOwnsKeepsInv ==
    ASSUME KeyLockInv,
           NEW contract \in Contracts, NEW keys \in SUBSET Keys,
           NEW ctx \in ContextIDs, NEW seq \in Seqs,
           BatchAcquireOwns(contract, keys, ctx, seq)
    PROVE  KeyLockInv'
<1> DEFINE L == LocksOf(contract, keys)
           new == {EdgeOf(lock, ctx, seq) : lock \in L}
<1>1. \A e \in new : e \in Edge /\ e.lock \in L /\ e.ctx = ctx
  BY DEF EdgeOf, Edge, KeyLock, LocksOf
<1>1a. new = {} <=> keys = {}
  <2>1. ASSUME NEW key \in keys PROVE EdgeOf(<<contract, key>>, ctx, seq) \in new
    BY DEF LocksOf
  <2> QED BY <2>1 DEF LocksOf
<1>2. /\ m_vertexes' = IF keys = {} THEN m_vertexes ELSE m_vertexes \cup {ctx}
      /\ request' = {e \in request : ~(e.lock \in L /\ e.ctx = ctx)}
      /\ own' = own \cup new
      /\ \A e \in own : e.lock \in L => e.ctx = ctx
  BY DEF BatchAcquireOwns, HeldByOther
<1>3. \A e \in request : e.lock \in L /\ e.ctx = ctx => keys # {}
  BY DEF LocksOf
<1> HIDE DEF L, new
<1>4. KeyLockTypeOK'
  BY <1>1, <1>2 DEF KeyLockInv, KeyLockTypeOK
<1>5. MutualExclusion'
  BY <1>1, <1>2 DEF KeyLockInv, MutualExclusion
<1>6. VertexHasEdge'
  BY <1>1, <1>1a, <1>2, <1>3 DEF KeyLockInv, VertexHasEdge
<1>7. NoSelfWait'
  BY <1>1, <1>2 DEF KeyLockInv, NoSelfWait
<1> QED BY <1>4, <1>5, <1>6, <1>7 DEF KeyLockInv

\* A batch that fails keeps the locks it took before it met a foreign one.
LEMMA BatchThrowsKeepsInv ==
    ASSUME KeyLockInv,
           NEW contract \in Contracts, NEW keys \in SUBSET Keys,
           NEW ctx \in ContextIDs, NEW seq \in Seqs,
           BatchAcquireThrows(contract, keys, ctx, seq)
    PROVE  KeyLockInv'
<1>1. PICK key \in keys :
        /\ HeldByOther(<<contract, key>>, ctx)
        /\ \E before \in SUBSET {k \in keys : ~HeldByOther(<<contract, k>>, ctx)} :
             /\ m_vertexes' = m_vertexes \cup {ctx}
             /\ request' = {e \in request : ~(e.lock \in LocksOf(contract, before) /\ e.ctx = ctx)}
                              \cup {EdgeOf(<<contract, key>>, ctx, seq)}
             /\ own' = own \cup {EdgeOf(lock, ctx, seq) : lock \in LocksOf(contract, before)}
  BY DEF BatchAcquireThrows
<1>2. PICK before \in SUBSET {k \in keys : ~HeldByOther(<<contract, k>>, ctx)} :
        /\ m_vertexes' = m_vertexes \cup {ctx}
        /\ request' = {e \in request : ~(e.lock \in LocksOf(contract, before) /\ e.ctx = ctx)}
                         \cup {EdgeOf(<<contract, key>>, ctx, seq)}
        /\ own' = own \cup {EdgeOf(lock, ctx, seq) : lock \in LocksOf(contract, before)}
  BY <1>1
<1> DEFINE L == LocksOf(contract, before)
           new == {EdgeOf(lock, ctx, seq) : lock \in L}
           failed == EdgeOf(<<contract, key>>, ctx, seq)
<1>3. /\ \A e \in new : e \in Edge /\ e.lock \in L /\ e.ctx = ctx
      /\ failed \in Edge /\ failed.ctx = ctx
  BY DEF EdgeOf, Edge, KeyLock, LocksOf
<1>4. /\ request' = {e \in request : ~(e.lock \in L /\ e.ctx = ctx)} \cup {failed}
      /\ own' = own \cup new
  BY <1>2
<1>5. \A e \in own : e.lock \in L => e.ctx = ctx
  BY DEF HeldByOther, LocksOf
<1>6. \E e \in own : e.lock = failed.lock /\ e.ctx # ctx
  BY <1>1 DEF HeldByOther, EdgeOf
<1> HIDE DEF L, new, failed
<1>7. KeyLockTypeOK'
  BY <1>2, <1>3, <1>4 DEF KeyLockInv, KeyLockTypeOK
<1>8. MutualExclusion'
  BY <1>3, <1>4, <1>5 DEF KeyLockInv, MutualExclusion
<1>9. VertexHasEdge'
  BY <1>2, <1>3, <1>4 DEF KeyLockInv, VertexHasEdge
<1>10. NoSelfWait'
  BY <1>3, <1>4, <1>5, <1>6 DEF KeyLockInv, NoSelfWait, MutualExclusion
<1> QED BY <1>7, <1>8, <1>9, <1>10 DEF KeyLockInv

\* releaseKeyLocks removes the vertex exactly when it removes the last edge.
LEMMA ReleaseKeepsInv ==
    ASSUME KeyLockInv, NEW ctx \in ContextIDs, NEW seq \in Seqs,
           ReleaseKeyLocks(ctx, seq)
    PROVE  KeyLockInv'
<1>1. /\ own' = {e \in own : ~(e.ctx = ctx /\ e.seq = seq)}
      /\ request' = {e \in request : ~(e.ctx = ctx /\ e.seq = seq)}
  BY DEF ReleaseKeyLocks, EdgesLeft
<1>2. m_vertexes' = IF \E e \in own' \cup request' : e.ctx = ctx
                    THEN m_vertexes \cup {ctx}
                    ELSE m_vertexes \ {ctx}
  BY DEF ReleaseKeyLocks, EdgesLeft
<1>3. KeyLockTypeOK'
  BY <1>1, <1>2 DEF KeyLockInv, KeyLockTypeOK
<1>4. MutualExclusion'
  BY <1>1 DEF KeyLockInv, MutualExclusion
<1>5. VertexHasEdge'
  BY <1>1, <1>2 DEF KeyLockInv, VertexHasEdge
<1>6. NoSelfWait'
  BY <1>1 DEF KeyLockInv, NoSelfWait
<1> QED BY <1>3, <1>4, <1>5, <1>6 DEF KeyLockInv

LEMMA InitInv == KeyLockInit => KeyLockInv
BY DEF KeyLockInit, KeyLockInv, KeyLockTypeOK, MutualExclusion, VertexHasEdge, NoSelfWait

LEMMA StepInv == KeyLockInv /\ [KeyLockNext]_keyLockVars => KeyLockInv'
<1> SUFFICES ASSUME KeyLockInv, [KeyLockNext]_keyLockVars PROVE KeyLockInv'
  OBVIOUS
<1>1. CASE KeyLockNext
  <2>1. PICK contract \in Contracts, ctx \in ContextIDs, seq \in Seqs :
          \/ \E key \in Keys : \/ AcquireOwns(contract, key, ctx, seq)
                               \/ AcquireWaits(contract, key, ctx, seq)
          \/ \E keys \in SUBSET Keys : \/ BatchAcquireOwns(contract, keys, ctx, seq)
                                       \/ BatchAcquireThrows(contract, keys, ctx, seq)
          \/ ReleaseKeyLocks(ctx, seq)
    BY <1>1 DEF KeyLockNext
  <2> QED BY <2>1, AcquireKeepsInv, BatchOwnsKeepsInv, BatchThrowsKeepsInv, ReleaseKeepsInv
<1>2. CASE UNCHANGED keyLockVars
  BY <1>2 DEF keyLockVars, KeyLockInv, KeyLockTypeOK, MutualExclusion, VertexHasEdge, NoSelfWait
<1> QED BY <1>1, <1>2

\* Whatever calls are made in whatever order, the graph is well formed, a key
\* lock has one owner, a context has a vertex exactly while it has an edge,
\* and no context waits for a lock it owns.
THEOREM KeyLockCorrect ==
    KeyLockSpec => [](KeyLockTypeOK /\ MutualExclusion /\ VertexHasEdge /\ NoSelfWait)
<1>1. KeyLockInv => KeyLockTypeOK /\ MutualExclusion /\ VertexHasEdge /\ NoSelfWait
  BY DEF KeyLockInv
<1> QED BY <1>1, InitInv, StepInv, PTL DEF KeyLockSpec

\* The graph is well formed: its vertexes, owner and request edges are contexts,
\* locks and seqs of the calls, whatever calls GraphKeyLocks gets.
THEOREM KeyLockTypeCorrect == KeyLockSpec => []KeyLockTypeOK
<1>1. KeyLockInv => KeyLockTypeOK
  BY DEF KeyLockInv
<1> QED BY <1>1, InitInv, StepInv, PTL DEF KeyLockSpec

\* acquireKeyLock grants a lock again to the context that owns it, and drops
\* the requests of all its frames when it grants one: no context ever waits
\* for a lock it owns.
THEOREM NoContextWaitsForItself == KeyLockSpec => []NoSelfWait
<1>1. KeyLockInv => NoSelfWait
  BY DEF KeyLockInv
<1> QED BY <1>1, InitInv, StepInv, PTL DEF KeyLockSpec

-----------------------------------------------------------------------------
(* The refinement.                                                         *)

\* With one owner per lock, OwnerOf is determined by any own edge.
LEMMA OwnerOfEdge ==
    ASSUME MutualExclusion, NEW lock
    PROVE  /\ \A e \in own : e.lock = lock => OwnerOf(lock) = e.ctx
           /\ (\A e \in own : e.lock # lock) => OwnerOf(lock) = NoOwner
BY DEF MutualExclusion, OwnerOf

LEMMA OwnerOfEdgeNext ==
    ASSUME MutualExclusion', NEW lock
    PROVE  /\ \A e \in own' : e.lock = lock => OwnerOf(lock)' = e.ctx
           /\ (\A e \in own' : e.lock # lock) => OwnerOf(lock)' = NoOwner
BY DEF MutualExclusion, OwnerOf

\* Adding own edges of one context for locks nobody else owns is a Take.
LEMMA AddingIsTake ==
    ASSUME KeyLockInv, KeyLockInv', NEW ctx \in ContextIDs,
           NEW L \in SUBSET KeyLock, NEW new,
           own' = own \cup new,
           \A e \in new : e.lock \in L /\ e.ctx = ctx,
           \A lock \in L : \E e \in new : e.lock = lock,
           \A e \in own : e.lock \in L => e.ctx = ctx
    PROVE  Table!Next
<1> USE DEF KeyLockInv
<1>1. \A lock \in L : OwnerOf(lock) \in {NoOwner, ctx}
  <2> TAKE lock \in L
  <2> QED BY OwnerOfEdge
<1>2. \A lock \in L : OwnerOf(lock)' = ctx
  <2> TAKE lock \in L
  <2> QED BY OwnerOfEdgeNext
<1>3. \A lock \in KeyLock \ L : OwnerOf(lock)' = OwnerOf(lock)
  <2> TAKE lock \in KeyLock \ L
  <2>1. \A e : e.lock = lock => (e \in own' <=> e \in own)
    OBVIOUS
  <2> QED BY <2>1, OwnerOfEdge, OwnerOfEdgeNext
<1>4. Table!Take(ctx, L)
  BY <1>1, <1>2, <1>3 DEF Table!Take
<1> QED BY <1>4 DEF Table!Next

\* Removing own edges of one context is a Drop of the locks it has no other
\* edge for.
LEMMA RemovingIsDrop ==
    ASSUME KeyLockInv, KeyLockInv', NEW ctx \in ContextIDs,
           own' \subseteq own,
           \A e \in own \ own' : e.ctx = ctx
    PROVE  Table!Next
<1> USE DEF KeyLockInv
<1> DEFINE L == {lock \in KeyLock : /\ \E e \in own : e.lock = lock
                                    /\ \A e \in own' : e.lock # lock}
<1>1. \A lock \in L : OwnerOf(lock) = ctx /\ OwnerOf(lock)' = NoOwner
  <2> TAKE lock \in L
  <2> QED BY OwnerOfEdge, OwnerOfEdgeNext
<1>2. \A lock \in KeyLock \ L : OwnerOf(lock)' = OwnerOf(lock)
  <2> TAKE lock \in KeyLock \ L
  <2> QED BY OwnerOfEdge, OwnerOfEdgeNext
<1>3. Table!Drop(ctx, L)
  BY <1>1, <1>2 DEF Table!Drop
<1> QED BY <1>3 DEF Table!Next

LEMMA InitRefines == KeyLockInit => Table!Init
BY DEF KeyLockInit, Table!Init, OwnerOf

LEMMA StepRefines ==
    ASSUME KeyLockInv, KeyLockInv', [KeyLockNext]_keyLockVars
    PROVE  [Table!Next]_([lock \in KeyLock |-> OwnerOf(lock)])
<1>1. ASSUME own' = own PROVE UNCHANGED [lock \in KeyLock |-> OwnerOf(lock)]
  BY <1>1 DEF OwnerOf
<1>2. CASE UNCHANGED keyLockVars
  BY <1>1, <1>2 DEF keyLockVars
<1>3. CASE KeyLockNext
  <2>1. PICK contract \in Contracts, ctx \in ContextIDs, seq \in Seqs :
          \/ \E key \in Keys : \/ AcquireOwns(contract, key, ctx, seq)
                               \/ AcquireWaits(contract, key, ctx, seq)
          \/ \E keys \in SUBSET Keys : \/ BatchAcquireOwns(contract, keys, ctx, seq)
                                       \/ BatchAcquireThrows(contract, keys, ctx, seq)
          \/ ReleaseKeyLocks(ctx, seq)
    BY <1>3 DEF KeyLockNext
  <2> DEFINE new(L) == {EdgeOf(lock, ctx, seq) : lock \in L}
  <2>2. \A L : /\ \A e \in new(L) : e.lock \in L /\ e.ctx = ctx
               /\ \A lock \in L : \E e \in new(L) : e.lock = lock
    <3> TAKE L
    <3>1. \A e \in new(L) : e.lock \in L /\ e.ctx = ctx
      BY DEF EdgeOf
    <3>2. ASSUME NEW lock \in L PROVE \E e \in new(L) : e.lock = lock
      <4>1. EdgeOf(lock, ctx, seq) \in new(L)
        OBVIOUS
      <4>2. EdgeOf(lock, ctx, seq).lock = lock
        BY DEF EdgeOf
      <4> QED BY <4>1, <4>2
    <3> QED BY <3>1, <3>2
  <2>3. ASSUME NEW keys \in SUBSET Keys PROVE LocksOf(contract, keys) \in SUBSET KeyLock
    BY DEF LocksOf, KeyLock
  <2>4. ASSUME NEW key \in Keys, AcquireOwns(contract, key, ctx, seq) PROVE Table!Next
    <3> DEFINE L == {<<contract, key>>}
    <3>1. /\ own' = own \cup new(L)
          /\ \A e \in own : e.lock \in L => e.ctx = ctx
          /\ L \in SUBSET KeyLock
      BY <2>4 DEF AcquireOwns, HeldByOther, KeyLock
    <3> HIDE DEF L, new
    <3> QED BY <2>2, <3>1, AddingIsTake
  <2>5. ASSUME NEW key \in Keys, AcquireWaits(contract, key, ctx, seq) PROVE own' = own
    BY <2>5 DEF AcquireWaits
  <2>6. ASSUME NEW keys \in SUBSET Keys, BatchAcquireOwns(contract, keys, ctx, seq)
        PROVE  Table!Next
    <3> DEFINE L == LocksOf(contract, keys)
    <3>1. /\ own' = own \cup new(L)
          /\ \A e \in own : e.lock \in L => e.ctx = ctx
          /\ L \in SUBSET KeyLock
      BY <2>3, <2>6 DEF BatchAcquireOwns, HeldByOther
    <3> HIDE DEF L, new
    <3> QED BY <2>2, <3>1, AddingIsTake
  <2>7. ASSUME NEW keys \in SUBSET Keys, BatchAcquireThrows(contract, keys, ctx, seq)
        PROVE  Table!Next
    <3>1. PICK before \in SUBSET {k \in keys : ~HeldByOther(<<contract, k>>, ctx)} :
             own' = own \cup {EdgeOf(lock, ctx, seq) : lock \in LocksOf(contract, before)}
      BY <2>7 DEF BatchAcquireThrows
    <3> DEFINE L == LocksOf(contract, before)
    <3>2. /\ own' = own \cup new(L)
          /\ L \in SUBSET KeyLock
      BY <2>3, <3>1
    <3>3. \A e \in own : e.lock \in L => e.ctx = ctx
      BY DEF HeldByOther, LocksOf
    <3> HIDE DEF L, new
    <3> QED BY <2>2, <3>2, <3>3, AddingIsTake
  <2>8. ASSUME ReleaseKeyLocks(ctx, seq) PROVE Table!Next
    <3>1. own' \subseteq own /\ \A e \in own \ own' : e.ctx = ctx
      BY <2>8 DEF ReleaseKeyLocks, EdgesLeft
    <3> QED BY <3>1, RemovingIsDrop
  <2> QED BY <1>1, <2>1, <2>4, <2>5, <2>6, <2>7, <2>8
<1> QED BY <1>2, <1>3

\* The lock graph implements the lock table: whatever the calls, a lock passes
\* from one context to another only by being given up by its owner.
THEOREM KeyLockRefinesTable == KeyLockSpec => TableSpec
<1>1. KeyLockInv /\ KeyLockInv' /\ [KeyLockNext]_keyLockVars
        => [Table!Next]_([lock \in KeyLock |-> OwnerOf(lock)])
  BY StepRefines
<1> QED BY <1>1, InitRefines, InitInv, StepInv, PTL DEF KeyLockSpec, TableSpec, Table!Spec

-----------------------------------------------------------------------------
(* The deadlock search.                                                    *)

\* If every context of a non-empty group waits for a member of the group, the
\* search started from some member reports a deadlock: a batch in which every
\* transaction waits for another one always yields a victim.
THEOREM GroupHasVictim ==
    ASSUME KeyLockInv,
           NEW S \in SUBSET ContextIDs, S # {},
           \A c \in S : \E d \in S : WaitsFor(c, d)
    PROVE  \E d \in S : DetectDeadLock(d)
<1>1. PICK c \in S, d \in S : WaitsFor(c, d)
  OBVIOUS
<1>2. PICK o \in own : o.ctx = d
  BY <1>1 DEF WaitsFor
<1>3. d \in m_vertexes
  BY <1>2 DEF KeyLockInv, VertexHasEdge
<1>4. DetectDeadLock(d)
  BY <1>2, <1>3 DEF DetectDeadLock
<1> QED BY <1>4
-----------------------------------------------------------------------------
(* The search of detectDeadLock.                                           *)

\* The out-edges of all vertexes.
successors == [v \in Vertexes |-> Successors(v)]

\* Every vertex of S has an out-edge into S: from each of them a walk never
\* ends, so S reaches a cycle.
Trap(S) == \A v \in S : \E u \in S : u \in successors[v]

SearchTypeOK ==
    /\ contextID \in ContextIDs \cup {NoOwner}
    /\ vertexColors \in [Vertexes -> {"white", "gray", "black"}]
    /\ stack \in Seq(Vertexes)
    /\ outEdges \in [Vertexes -> SUBSET Vertexes]
    /\ hasDeadLock \in BOOLEAN

\* The stack is a path of the graph from the context, over the gray vertexes.
StackInv ==
    /\ \A v \in Vertexes :
          vertexColors[v] = "gray" <=> \E i \in 1 .. Len(stack) : stack[i] = v
    /\ \A i, j \in 1 .. Len(stack) : stack[i] = stack[j] => i = j
    /\ \A i \in 1 .. Len(stack) : i < Len(stack) => stack[i + 1] \in successors[stack[i]]
    /\ \A i \in 1 .. Len(stack) : outEdges[stack[i]] \subseteq successors[stack[i]]

\* As long as no back edge was met, what was examined is black or next on the
\* stack, and the black vertexes are closed and without a cycle.
NoCycleInv ==
    /\ \A i \in 1 .. Len(stack) : \A u \in successors[stack[i]] :
          \/ u \in outEdges[stack[i]]
          \/ vertexColors[u] = "black"
          \/ i < Len(stack) /\ u = stack[i + 1]
    /\ \A v \in Vertexes : vertexColors[v] = "black" =>
          \A u \in successors[v] : vertexColors[u] = "black"
    /\ \A S \in SUBSET Vertexes :
          S # {} /\ (\A v \in S : vertexColors[v] = "black") => ~Trap(S)

\* A back edge was met, and the context reaches its cycle.
CycleInv == \E S \in SUBSET Vertexes : contextID \in S /\ Trap(S)

\* Where the call is: not searching, searching, or done.
CallInv ==
    /\ contextID = NoOwner => stack = <<>> /\ vertexColors = AllWhite /\ ~hasDeadLock
    /\ contextID # NoOwner /\ ~Holding(contextID) => stack = <<>> /\ ~hasDeadLock
    /\ contextID # NoOwner /\ Holding(contextID) =>
          IF stack = <<>> THEN vertexColors[contextID] = "black" ELSE stack[1] = contextID

SearchInv ==
    /\ KeyLockInv /\ SearchTypeOK /\ StackInv /\ CallInv
    /\ IF hasDeadLock THEN CycleInv ELSE NoCycleInv

LEMMA SuccessorsType == KeyLockInv => \A v \in Vertexes : successors[v] \subseteq Vertexes
BY DEF KeyLockInv, KeyLockTypeOK, Edge, successors, Successors, Vertexes

LEMMA SuccessorsKept ==
  ASSUME UNCHANGED keyLockVars
  PROVE  successors' = successors
BY DEF keyLockVars, successors, Successors, Vertexes

LEMMA InvKept ==
  ASSUME KeyLockInv, UNCHANGED keyLockVars
  PROVE  KeyLockInv' /\ UNCHANGED <<m_vertexes, own, request>>
BY DEF keyLockVars, KeyLockInv, KeyLockTypeOK, MutualExclusion, VertexHasEdge, NoSelfWait

\* With an empty stack and no black vertex there is nothing to show.
LEMMA EmptySearch ==
  ASSUME stack = <<>>, ~hasDeadLock, \A v \in Vertexes : vertexColors[v] = "white"
  PROVE  StackInv /\ NoCycleInv
<1>1. Len(stack) = 0 /\ 1 .. Len(stack) = {}
  OBVIOUS
<1>2. StackInv
  BY <1>1 DEF StackInv
<1>3. NoCycleInv
  BY <1>1 DEF NoCycleInv
<1> QED BY <1>2, <1>3

LEMMA EmptySearchNext ==
  ASSUME stack' = <<>>, ~hasDeadLock', \A v \in Vertexes : vertexColors'[v] = "white"
  PROVE  StackInv' /\ NoCycleInv'
<1>1. Len(stack') = 0 /\ 1 .. Len(stack') = {}
  OBVIOUS
<1>2. StackInv'
  BY <1>1 DEF StackInv
<1>3. NoCycleInv'
  BY <1>1 DEF NoCycleInv
<1> QED BY <1>2, <1>3

LEMMA SearchInitInv == SearchInit => SearchInv
<1> SUFFICES ASSUME SearchInit PROVE SearchInv
  OBVIOUS
<1>1. KeyLockInv
  BY InitInv DEF SearchInit
<1>2. SearchTypeOK
  <2>1. stack = <<>> /\ hasDeadLock = FALSE
    BY DEF SearchInit
  <2>2. outEdges \in [Vertexes -> SUBSET Vertexes]
    BY DEF SearchInit, NoEdges
  <2>3. vertexColors \in [Vertexes -> {"white", "gray", "black"}]
    BY DEF SearchInit, AllWhite
  <2>4. stack \in Seq(Vertexes)
    BY <2>1
  <2>5. hasDeadLock \in BOOLEAN
    BY <2>1
  <2> QED BY <2>2, <2>3, <2>4, <2>5 DEF SearchInit, SearchTypeOK
<1>3. StackInv /\ NoCycleInv
  BY EmptySearch DEF SearchInit, AllWhite
<1>4. CallInv
  BY DEF SearchInit, CallInv
<1> QED BY <1>1, <1>2, <1>3, <1>4 DEF SearchInv, SearchInit

\* Steps while nobody searches: of the graph, and the early returns.
LEMMA IdleKeeps ==
  ASSUME SearchInv, KeyLockInv', contextID = NoOwner,
         contextID' \in ContextIDs \cup {NoOwner},
         contextID' # NoOwner => ~Holding(contextID)',
         UNCHANGED <<vertexColors, stack, outEdges, hasDeadLock>>
  PROVE  SearchInv'
<1>1. stack = <<>> /\ vertexColors = AllWhite /\ ~hasDeadLock /\ SearchTypeOK
  BY DEF SearchInv, CallInv
<1>2. stack' = <<>> /\ ~hasDeadLock' /\ \A v \in Vertexes : vertexColors'[v] = "white"
  BY <1>1 DEF AllWhite
<1>3. StackInv' /\ NoCycleInv'
  BY <1>2, EmptySearchNext
<1>4. SearchTypeOK'
  BY <1>1 DEF SearchTypeOK
<1>5. CallInv'
  BY <1>1, <1>2 DEF CallInv, AllWhite, Vertexes, KeyLock
<1> QED BY <1>2, <1>3, <1>4, <1>5 DEF SearchInv

LEMMA VisitKeeps ==
  ASSUME SearchInv, NEW ctx \in ContextIDs, Visit(ctx), UNCHANGED keyLockVars
  PROVE  SearchInv'
<1>a. /\ contextID = NoOwner /\ Holding(ctx) /\ contextID' = ctx
      /\ vertexColors' = [vertexColors EXCEPT ![ctx] = "gray"] /\ stack' = <<ctx>>
      /\ outEdges' = [outEdges EXCEPT ![ctx] = Successors(ctx)] /\ hasDeadLock' = hasDeadLock
  BY DEF Visit
<1>b. KeyLockInv' /\ UNCHANGED <<m_vertexes, own, request>> /\ successors' = successors
  BY InvKept, SuccessorsKept DEF SearchInv
<1>c. /\ SearchTypeOK /\ ~hasDeadLock /\ ctx \in Vertexes
      /\ \A v \in Vertexes : vertexColors[v] = "white"
  BY <1>a DEF SearchInv, CallInv, AllWhite, Vertexes
<1>d. successors[ctx] = Successors(ctx) /\ successors[ctx] \subseteq Vertexes
  BY <1>c, SuccessorsType DEF SearchInv, successors
<1>1. Len(stack') = 1 /\ stack'[1] = ctx /\ stack' \in Seq(Vertexes) /\ stack' # <<>>
  BY <1>a, <1>c
<1>2. /\ vertexColors' \in [Vertexes -> {"white", "gray", "black"}]
      /\ \A v \in Vertexes : vertexColors'[v] = IF v = ctx THEN "gray" ELSE "white"
      /\ outEdges' \in [Vertexes -> SUBSET Vertexes] /\ outEdges'[ctx] = successors[ctx]
  BY <1>a, <1>c, <1>d DEF SearchTypeOK
<1>3. SearchTypeOK'
  BY <1>a, <1>1, <1>2, <1>c DEF SearchTypeOK
<1>4. StackInv'
  BY <1>b, <1>1, <1>2 DEF StackInv
<1>5. NoCycleInv'
  <2>1. \A i \in 1 .. Len(stack') : i = 1
    BY <1>1
  <2> QED BY <1>b, <1>1, <1>2, <2>1 DEF NoCycleInv
<1>6. CallInv'
  <2>1. Holding(contextID)' /\ contextID' # NoOwner
    BY <1>a, <1>b, NoOwnerAssumption DEF Holding
  <2> QED BY <1>a, <1>1, <2>1 DEF CallInv
<1> QED BY <1>a, <1>b, <1>c, <1>3, <1>4, <1>5, <1>6 DEF SearchInv


\* A vertex that is entered is next on the path; all of its edges are to be
\* examined, or none once the terminator has seen a back edge.
LEMMA TreeEdgeKeeps ==
  ASSUME SearchInv, NEW u \in Vertexes, TreeEdge(u), UNCHANGED keyLockVars
  PROVE  SearchInv'
<1> DEFINE n == Len(stack)
           next == IF hasDeadLock THEN {} ELSE Successors(u)
<1>a. /\ stack # <<>> /\ u \in outEdges[stack[n]] /\ vertexColors[u] = "white"
      /\ vertexColors' = [vertexColors EXCEPT ![u] = "gray"]
      /\ stack' = Append(stack, u)
      /\ outEdges' = [outEdges EXCEPT ![stack[n]] = @ \ {u}, ![u] = next]
      /\ contextID' = contextID /\ hasDeadLock' = hasDeadLock
  BY DEF TreeEdge, top
<1>b. KeyLockInv' /\ UNCHANGED <<m_vertexes, own, request>> /\ successors' = successors
  BY InvKept, SuccessorsKept DEF SearchInv
<1>c. SearchTypeOK /\ StackInv /\ CallInv
  BY DEF SearchInv
<1>d. /\ successors[u] \subseteq Vertexes /\ next \subseteq successors[u]
      /\ ~hasDeadLock => next = successors[u]
  BY SuccessorsType DEF SearchInv, successors
<1> HIDE DEF next
<1>1. /\ n \in Nat /\ n >= 1 /\ Len(stack') = n + 1 /\ stack' \in Seq(Vertexes)
      /\ \A i \in 1 .. n : stack'[i] = stack[i] /\ stack[i] \in Vertexes
      /\ stack'[n + 1] = u /\ stack' # <<>>
  BY <1>a, <1>c DEF SearchTypeOK
<1>e. /\ \A i \in 1 .. n : i < n => stack[i + 1] \in successors[stack[i]]
      /\ \A i \in 1 .. n : outEdges[stack[i]] \subseteq successors[stack[i]]
  BY <1>c DEF StackInv
<1> HIDE DEF n
<1>2. \A i \in 1 .. n : vertexColors[stack[i]] = "gray" /\ stack[i] # u
  BY <1>a, <1>1, <1>c DEF StackInv, n
<1>3. /\ vertexColors' \in [Vertexes -> {"white", "gray", "black"}] /\ vertexColors'[u] = "gray"
      /\ \A v \in Vertexes : v # u => vertexColors'[v] = vertexColors[v]
  BY <1>a, <1>c DEF SearchTypeOK
<1>4. /\ stack[n] \in Vertexes /\ stack[n] # u
      /\ outEdges' \in [Vertexes -> SUBSET Vertexes] /\ outEdges'[u] = next
      /\ outEdges'[stack[n]] = outEdges[stack[n]] \ {u}
      /\ \A v \in Vertexes : v # u /\ v # stack[n] => outEdges'[v] = outEdges[v]
  <2>1. stack[n] \in Vertexes /\ stack[n] # u
    BY <1>1, <1>2
  <2>2. next \in SUBSET Vertexes /\ outEdges \in [Vertexes -> SUBSET Vertexes]
    BY <1>c, <1>d DEF SearchTypeOK
  <2> QED BY <1>a, <2>1, <2>2
<1>5. SearchTypeOK'
  BY <1>a, <1>1, <1>3, <1>4, <1>c DEF SearchTypeOK
<1>6. \A i \in 1 .. n + 1 : i \in 1 .. n \/ i = n + 1
  BY <1>1
<1>7. StackInv'
  <2>1. ASSUME NEW v \in Vertexes
        PROVE  vertexColors'[v] = "gray" <=> \E i \in 1 .. n + 1 : stack'[i] = v
    <3>1. CASE v = u
      BY <1>1, <1>3, <3>1
    <3>2. CASE v # u
      <4>1. vertexColors[v] = "gray" <=> \E i \in 1 .. n : stack[i] = v
        BY <1>c DEF StackInv, n
      <4>2. (\E i \in 1 .. n + 1 : stack'[i] = v) <=> \E i \in 1 .. n : stack[i] = v
        BY <1>1, <1>6, <3>2
      <4> QED BY <1>3, <3>2, <4>1, <4>2
    <3> QED BY <3>1, <3>2
  <2>2. \A i, j \in 1 .. n + 1 : stack'[i] = stack'[j] => i = j
    BY <1>1, <1>2, <1>6, <1>c DEF StackInv, n
  <2>3. u \in successors[stack[n]]
    <3>1. n \in 1 .. n
      BY <1>1
    <3> QED BY <1>a, <1>e, <3>1
  <2>4. \A i \in 1 .. n + 1 : i < n + 1 => stack'[i + 1] \in successors[stack'[i]]
    <3> SUFFICES ASSUME NEW i \in 1 .. n PROVE stack'[i + 1] \in successors[stack[i]]
      BY <1>1, <1>6
    <3>1. CASE i = n
      BY <1>1, <2>3, <3>1
    <3>2. CASE i # n
      <4>1. i + 1 \in 1 .. n /\ i < n
        BY <1>1, <3>2
      <4> QED BY <1>1, <1>e, <4>1
    <3> QED BY <3>1, <3>2
  <2>5. \A i \in 1 .. n + 1 : outEdges'[stack'[i]] \subseteq successors[stack'[i]]
    <3> SUFFICES ASSUME NEW i \in 1 .. n PROVE outEdges'[stack[i]] \subseteq successors[stack[i]]
      BY <1>1, <1>4, <1>6, <1>d
    <3>1. outEdges'[stack[i]] \subseteq outEdges[stack[i]]
      BY <1>1, <1>2, <1>4
    <3> QED BY <1>e, <3>1
  <2> QED BY <1>1, <1>b, <2>1, <2>2, <2>4, <2>5 DEF StackInv
<1>8. CallInv'
  <2>1. Holding(contextID)' <=> Holding(contextID)
    BY <1>a, <1>b DEF Holding
  <2>2. stack'[1] = stack[1]
    BY <1>1
  <2> QED BY <1>a, <1>c, <1>1, <2>1, <2>2 DEF CallInv
<1>9. CASE hasDeadLock
  <2>1. CycleInv'
    BY <1>a, <1>b, <1>9 DEF SearchInv, CycleInv, Trap
  <2> QED BY <1>a, <1>b, <1>5, <1>7, <1>8, <1>9, <2>1 DEF SearchInv
<1>10. CASE ~hasDeadLock
  <2>1. NoCycleInv
    BY <1>10 DEF SearchInv
  <2>2. \A v \in Vertexes : vertexColors'[v] = "black" <=> vertexColors[v] = "black"
    BY <1>a, <1>3
  <2>3. \A v \in Vertexes : successors[v] \subseteq Vertexes
    BY SuccessorsType DEF SearchInv
  <2>4. ASSUME NEW i \in 1 .. n + 1, NEW w \in successors[stack'[i]]
        PROVE  \/ w \in outEdges'[stack'[i]]
               \/ vertexColors'[w] = "black"
               \/ i < n + 1 /\ w = stack'[i + 1]
    <3>1. CASE i = n + 1
      BY <1>1, <1>4, <1>d, <1>10, <3>1
    <3>2. CASE i \in 1 .. n
      <4>1. w \in successors[stack[i]] /\ w \in Vertexes /\ i \in Nat
        BY <1>1, <2>3, <2>4, <3>2
      <4>2. w \in outEdges[stack[i]] \/ vertexColors[w] = "black" \/ (i < n /\ w = stack[i + 1])
        BY <2>1, <3>2, <4>1 DEF NoCycleInv, n
      <4>3. CASE i < n
        <5>1. i + 1 \in 1 .. n /\ stack[i] # stack[n]
          BY <1>1, <1>c, <3>2, <4>3 DEF StackInv, n
        <5>2. outEdges'[stack'[i]] = outEdges[stack[i]] /\ stack'[i + 1] = stack[i + 1]
          BY <1>1, <1>2, <1>4, <3>2, <5>1
        <5> QED BY <1>1, <2>2, <4>1, <4>2, <4>3, <5>2
      <4>4. CASE i = n
        BY <1>1, <1>4, <2>2, <4>1, <4>2, <4>4
      <4> QED BY <1>1, <3>2, <4>3, <4>4
    <3> QED BY <1>6, <3>1, <3>2
  <2>5. \A v \in Vertexes : vertexColors'[v] = "black" =>
           \A w \in successors[v] : vertexColors'[w] = "black"
    BY <2>1, <2>2, <2>3 DEF NoCycleInv
  <2>6. \A S \in SUBSET Vertexes :
           S # {} /\ (\A v \in S : vertexColors'[v] = "black") => ~Trap(S)'
    <3> SUFFICES ASSUME NEW S \in SUBSET Vertexes, S # {},
                        \A v \in S : vertexColors'[v] = "black", Trap(S)'
                 PROVE  FALSE
      OBVIOUS
    <3>1. Trap(S)
      BY <1>b DEF Trap
    <3>2. \A v \in S : vertexColors[v] = "black"
      BY <2>2
    <3> QED BY <2>1, <3>1, <3>2 DEF NoCycleInv
  <2>7. NoCycleInv'
    BY <1>1, <1>b, <2>4, <2>5, <2>6 DEF NoCycleInv
  <2> QED BY <1>a, <1>b, <1>5, <1>7, <1>8, <1>10, <2>7 DEF SearchInv
<1> QED BY <1>9, <1>10


\* An edge to a gray vertex closes a cycle: the stack from that vertex on, to
\* which its beginning leads from the context.
LEMMA OtherEdgeKeeps ==
  ASSUME SearchInv, NEW u \in Vertexes, OtherEdge(u), UNCHANGED keyLockVars
  PROVE  SearchInv'
<1> DEFINE n == Len(stack)
<1>a. /\ stack # <<>> /\ u \in outEdges[stack[n]] /\ vertexColors[u] # "white"
      /\ outEdges' = [outEdges EXCEPT ![stack[n]] = @ \ {u}]
      /\ contextID' = contextID /\ vertexColors' = vertexColors /\ stack' = stack
  BY DEF OtherEdge, top
<1>b. KeyLockInv' /\ UNCHANGED <<m_vertexes, own, request>> /\ successors' = successors
  BY InvKept, SuccessorsKept DEF SearchInv
<1>c. SearchTypeOK /\ StackInv /\ CallInv
  BY DEF SearchInv
<1>d. hasDeadLock' <=> hasDeadLock \/ vertexColors[u] = "gray"
  BY DEF OtherEdge
<1>e. hasDeadLock' \in BOOLEAN
  BY DEF OtherEdge
<1>1. n \in Nat /\ n >= 1 /\ \A i \in 1 .. n : stack[i] \in Vertexes
  BY <1>a, <1>c DEF SearchTypeOK
<1>2. /\ \A v \in Vertexes : vertexColors[v] = "gray" <=> \E i \in 1 .. n : stack[i] = v
      /\ \A i, j \in 1 .. n : stack[i] = stack[j] => i = j
      /\ \A i \in 1 .. n : i < n => stack[i + 1] \in successors[stack[i]]
      /\ \A i \in 1 .. n : outEdges[stack[i]] \subseteq successors[stack[i]]
  BY <1>c DEF StackInv
<1>3. n = Len(stack')
  BY <1>a
<1> HIDE DEF n
<1>4. /\ outEdges' \in [Vertexes -> SUBSET Vertexes]
      /\ outEdges'[stack[n]] = outEdges[stack[n]] \ {u}
      /\ \A v \in Vertexes : v # stack[n] => outEdges'[v] = outEdges[v]
  BY <1>a, <1>1, <1>c DEF SearchTypeOK
<1>5. SearchTypeOK'
  BY <1>a, <1>c, <1>e, <1>4 DEF SearchTypeOK
<1>6. StackInv'
  <2>1. \A i \in 1 .. n : outEdges'[stack[i]] \subseteq successors[stack[i]]
    BY <1>1, <1>2, <1>4
  <2> QED BY <1>a, <1>b, <1>2, <1>3, <2>1 DEF StackInv
<1>7. contextID # NoOwner /\ Holding(contextID) /\ stack[1] = contextID
  BY <1>a, <1>c DEF CallInv
<1>8. CallInv'
  <2>1. Holding(contextID)'
    BY <1>a, <1>b, <1>7 DEF Holding
  <2> QED BY <1>a, <1>7, <2>1 DEF CallInv
<1>9. CASE hasDeadLock
  <2>1. CycleInv'
    BY <1>a, <1>b, <1>9 DEF SearchInv, CycleInv, Trap
  <2> QED BY <1>b, <1>d, <1>5, <1>6, <1>8, <1>9, <2>1 DEF SearchInv
<1>10. CASE vertexColors[u] = "gray"
  <2> DEFINE S == {stack[i] : i \in 1 .. n}
  <2>1. S \in SUBSET Vertexes /\ contextID \in S
    BY <1>1, <1>7
  <2>2. ASSUME NEW v \in S PROVE \E w \in S : w \in successors[v]
    <3>1. PICK i \in 1 .. n : v = stack[i]
      OBVIOUS
    <3>2. CASE i < n
      <4>1. i + 1 \in 1 .. n
        BY <1>1, <3>2
      <4> QED BY <1>2, <3>1, <3>2, <4>1
    <3>3. CASE i = n
      <4>1. u \in successors[v]
        BY <1>a, <1>2, <3>1, <3>3
      <4>2. u \in S
        BY <1>2, <1>10
      <4> QED BY <4>1, <4>2
    <3> QED BY <1>1, <3>2, <3>3
  <2> HIDE DEF S
  <2>3. CycleInv'
    BY <1>a, <1>b, <2>1, <2>2 DEF CycleInv, Trap
  <2> QED BY <1>b, <1>d, <1>5, <1>6, <1>8, <1>10, <2>3 DEF SearchInv
<1>11. CASE ~hasDeadLock /\ vertexColors[u] # "gray"
  <2>1. NoCycleInv /\ ~hasDeadLock'
    BY <1>d, <1>11 DEF SearchInv
  <2>2. vertexColors[u] = "black"
    BY <1>a, <1>11, <1>c DEF SearchTypeOK
  <2>3. /\ \A i \in 1 .. n : \A w \in successors[stack[i]] :
              w \in outEdges[stack[i]] \/ vertexColors[w] = "black" \/ (i < n /\ w = stack[i + 1])
    BY <2>1 DEF NoCycleInv, n
  <2>4. \A i \in 1 .. n : \A w \in successors[stack[i]] :
              w \in outEdges'[stack[i]] \/ vertexColors[w] = "black" \/ (i < n /\ w = stack[i + 1])
    BY <1>1, <1>4, <2>2, <2>3
  <2>5. NoCycleInv'
    <3>1. \A S : Trap(S)' <=> Trap(S)
      BY <1>b DEF Trap
    <3> QED BY <1>a, <1>b, <1>3, <2>1, <2>4, <3>1 DEF NoCycleInv
  <2> QED BY <1>b, <2>1, <1>5, <1>6, <1>8, <2>5 DEF SearchInv
<1> QED BY <1>9, <1>10, <1>11

\* A vertex that is left with no back edge met has only black successors, so
\* no cycle goes through it.
LEMMA FinishKeeps ==
  ASSUME SearchInv, FinishVertex, UNCHANGED keyLockVars
  PROVE  SearchInv'
<1> DEFINE n == Len(stack)
           t == stack[n]
<1>a. /\ stack # <<>> /\ outEdges[t] = {}
      /\ vertexColors' = [vertexColors EXCEPT ![t] = "black"]
      /\ stack' = SubSeq(stack, 1, n - 1)
      /\ contextID' = contextID /\ outEdges' = outEdges /\ hasDeadLock' = hasDeadLock
  BY DEF FinishVertex, top
<1>b. KeyLockInv' /\ UNCHANGED <<m_vertexes, own, request>> /\ successors' = successors
  BY InvKept, SuccessorsKept DEF SearchInv
<1>c. SearchTypeOK /\ StackInv /\ CallInv
  BY DEF SearchInv
<1>1. /\ n \in Nat /\ n >= 1 /\ \A i \in 1 .. n : stack[i] \in Vertexes
      /\ stack \in Seq(Vertexes)
  BY <1>a, <1>c DEF SearchTypeOK
<1>2. /\ stack' \in Seq(Vertexes) /\ Len(stack') = n - 1
      /\ \A i \in 1 .. n - 1 : stack'[i] = stack[i]
  <2>1. n - 1 \in Nat /\ n - 1 <= Len(stack)
    BY <1>1
  <2>2. \A i \in 1 .. n - 1 : i \in 1 .. Len(stack)
    BY <1>1
  <2> HIDE DEF n
  <2>3. /\ stack' \in Seq(Vertexes) /\ Len(stack') = n - 1
        /\ \A i \in 1 .. n - 1 : stack'[i] = stack[1 + i - 1]
    BY <1>a, <1>1, <2>1, <2>2
  <2> QED BY <2>1, <2>3
<1>3. /\ \A v \in Vertexes : vertexColors[v] = "gray" <=> \E i \in 1 .. n : stack[i] = v
      /\ \A i, j \in 1 .. n : stack[i] = stack[j] => i = j
      /\ \A i \in 1 .. n : i < n => stack[i + 1] \in successors[stack[i]]
      /\ \A i \in 1 .. n : outEdges[stack[i]] \subseteq successors[stack[i]]
  BY <1>c DEF StackInv
<1>4. t \in Vertexes /\ n \in 1 .. n /\ t = stack[n] /\ vertexColors[t] = "gray"
  BY <1>1, <1>3
<1>5. /\ vertexColors' \in [Vertexes -> {"white", "gray", "black"}] /\ vertexColors'[t] = "black"
      /\ \A v \in Vertexes : v # t => vertexColors'[v] = vertexColors[v]
  BY <1>a, <1>4, <1>c DEF SearchTypeOK
<1>6. n - 1 \in Nat /\ \A i \in 1 .. n - 1 : i \in 1 .. n /\ i < n /\ i \in Nat
  BY <1>1
<1> HIDE DEF n, t
<1>7. SearchTypeOK'
  BY <1>a, <1>c, <1>2, <1>5 DEF SearchTypeOK
<1>8. StackInv'
  <2>1. ASSUME NEW v \in Vertexes
        PROVE  vertexColors'[v] = "gray" <=> \E i \in 1 .. n - 1 : stack'[i] = v
    <3>1. CASE v = t
      <4>1. \A i \in 1 .. n - 1 : stack[i] # t
        BY <1>3, <1>4, <1>6
      <4> QED BY <1>2, <1>5, <3>1, <4>1
    <3>2. CASE v # t
      <4>1. \A i \in 1 .. n : stack[i] = v => i \in 1 .. n - 1
        BY <1>1, <1>4, <3>2
      <4> QED BY <1>2, <1>3, <1>5, <1>6, <3>2, <4>1
    <3> QED BY <3>1, <3>2
  <2>2. \A i, j \in 1 .. n - 1 : stack'[i] = stack'[j] => i = j
    BY <1>2, <1>3, <1>6
  <2>3. \A i \in 1 .. n - 1 : i < n - 1 => stack'[i + 1] \in successors[stack'[i]]
    <3> SUFFICES ASSUME NEW i \in 1 .. n - 1, i < n - 1
                 PROVE  stack'[i + 1] \in successors[stack'[i]]
      OBVIOUS
    <3>1. i + 1 \in 1 .. n - 1
      BY <1>6
    <3> QED BY <1>2, <1>3, <1>6, <3>1
  <2>4. \A i \in 1 .. n - 1 : outEdges'[stack'[i]] \subseteq successors[stack'[i]]
    BY <1>a, <1>2, <1>3, <1>6
  <2> QED BY <1>b, <1>2, <2>1, <2>2, <2>3, <2>4 DEF StackInv
<1>9. contextID # NoOwner /\ Holding(contextID) /\ stack[1] = contextID
  BY <1>a, <1>c DEF CallInv
<1>10. CallInv'
  <2>1. Holding(contextID)'
    BY <1>a, <1>b, <1>9 DEF Holding
  <2>2. CASE n = 1
    <3>1. stack' = <<>> /\ vertexColors'[contextID] = "black"
      BY <1>2, <1>4, <1>5, <1>9, <2>2
    <3> QED BY <1>a, <1>9, <2>1, <3>1 DEF CallInv
  <2>3. CASE n # 1
    <3>1. 1 \in 1 .. n - 1 /\ stack' # <<>>
      BY <1>1, <1>2, <2>3
    <3>2. stack'[1] = contextID
      BY <1>2, <1>9, <3>1
    <3> QED BY <1>a, <1>9, <2>1, <3>1, <3>2 DEF CallInv
  <2> QED BY <2>2, <2>3
<1>11. CASE hasDeadLock
  <2>1. CycleInv'
    BY <1>a, <1>b, <1>11 DEF SearchInv, CycleInv, Trap
  <2> QED BY <1>a, <1>b, <1>7, <1>8, <1>10, <1>11, <2>1 DEF SearchInv
<1>12. CASE ~hasDeadLock
  <2>a. NoCycleInv
    BY <1>12 DEF SearchInv
  <2>b. \A v \in Vertexes : successors[v] \subseteq Vertexes
    BY SuccessorsType DEF SearchInv
  <2>c. \A v \in Vertexes : vertexColors'[v] = "black" <=> v = t \/ vertexColors[v] = "black"
    BY <1>5
  <2>d. \A i \in 1 .. n : \A w \in successors[stack[i]] :
           w \in outEdges[stack[i]] \/ vertexColors[w] = "black" \/ (i < n /\ w = stack[i + 1])
    BY <2>a DEF NoCycleInv, n
  <2>e. \A v \in Vertexes : vertexColors[v] = "black" =>
           \A w \in successors[v] : vertexColors[w] = "black"
    BY <2>a DEF NoCycleInv
  <2>1. \A w \in successors[t] : vertexColors[w] = "black"
    BY <1>a, <1>1, <1>4, <2>d
  <2>2. ASSUME NEW i \in 1 .. n - 1, NEW w \in successors[stack'[i]]
        PROVE  \/ w \in outEdges'[stack'[i]]
               \/ vertexColors'[w] = "black"
               \/ i < n - 1 /\ w = stack'[i + 1]
    <3>1. stack'[i] = stack[i] /\ w \in successors[stack[i]] /\ w \in Vertexes
      BY <1>1, <1>2, <1>6, <2>b, <2>2
    <3>2. w \in outEdges[stack[i]] \/ vertexColors[w] = "black" \/ w = stack[i + 1]
      BY <1>6, <2>d, <3>1
    <3>3. CASE i = n - 1
      <4>1. stack[i + 1] = t
        BY <1>1, <1>4, <3>3
      <4> QED BY <1>a, <2>c, <3>1, <3>2, <4>1
    <3>4. CASE i # n - 1
      <4>1. i < n - 1 /\ stack'[i + 1] = stack[i + 1]
        BY <1>1, <1>2, <1>6, <3>4
      <4> QED BY <1>a, <2>c, <3>1, <3>2, <4>1
    <3> QED BY <3>3, <3>4
  <2>3. \A v \in Vertexes : vertexColors'[v] = "black" =>
           \A w \in successors[v] : vertexColors'[w] = "black"
    BY <2>b, <2>c, <2>e, <2>1
  <2>4. ASSUME NEW S \in SUBSET Vertexes, S # {}, \A v \in S : vertexColors'[v] = "black",
               Trap(S)
        PROVE  FALSE
    <3> DEFINE R == S \ {t}
    <3>1. \A v \in R : vertexColors[v] = "black"
      BY <2>c, <2>4
    <3>2. \A v \in S : \E w \in S : w \in successors[v] /\ vertexColors[w] = "black"
      BY <2>c, <2>e, <2>1, <2>4 DEF Trap
    <3>3. \A v \in S : \E w \in R : w \in successors[v]
      BY <1>4, <3>2
    <3>4. R # {} /\ R \in SUBSET Vertexes
      BY <2>4, <3>3
    <3>5. Trap(R)
      BY <3>3 DEF Trap
    <3> HIDE DEF R
    <3> QED BY <2>a, <3>1, <3>4, <3>5 DEF NoCycleInv
  <2>5. NoCycleInv'
    <3>1. \A S : Trap(S)' <=> Trap(S)
      BY <1>b DEF Trap
    <3> QED BY <1>b, <1>2, <2>2, <2>3, <2>4, <3>1 DEF NoCycleInv
  <2> QED BY <1>a, <1>b, <1>7, <1>8, <1>10, <1>12, <2>5 DEF SearchInv
<1> QED BY <1>11, <1>12


LEMMA ReturnKeeps ==
  ASSUME SearchInv, Return, UNCHANGED keyLockVars
  PROVE  SearchInv'
<1>1. /\ contextID' = NoOwner /\ vertexColors' = AllWhite /\ outEdges' = NoEdges
      /\ hasDeadLock' = FALSE /\ stack' = <<>>
  BY DEF Return
<1>2. KeyLockInv'
  BY InvKept DEF SearchInv
<1>3. \A v \in Vertexes : vertexColors'[v] = "white"
  BY <1>1 DEF AllWhite
<1>4. ~hasDeadLock' /\ StackInv' /\ NoCycleInv'
  BY <1>1, <1>3, EmptySearchNext
<1>5. SearchTypeOK'
  <2>1. stack' \in Seq(Vertexes)
    BY <1>1
  <2>2. hasDeadLock' \in BOOLEAN
    BY <1>1
  <2>3. vertexColors' \in [Vertexes -> {"white", "gray", "black"}]
    BY <1>1 DEF AllWhite
  <2>4. outEdges' \in [Vertexes -> SUBSET Vertexes]
    BY <1>1 DEF NoEdges
  <2> QED BY <1>1, <2>1, <2>2, <2>3, <2>4 DEF SearchTypeOK
<1>6. CallInv'
  BY <1>1, <1>4 DEF CallInv, AllWhite, Vertexes, KeyLock
<1> QED BY <1>2, <1>4, <1>5, <1>6 DEF SearchInv

LEMMA SearchStepInv == SearchInv /\ [SearchNext]_<<keyLockVars, searchVars>> => SearchInv'
<1> SUFFICES ASSUME SearchInv, [SearchNext]_<<keyLockVars, searchVars>> PROVE SearchInv'
  OBVIOUS
<1>a. KeyLockInv /\ SearchTypeOK
  BY DEF SearchInv
<1>1. CASE contextID = NoOwner /\ KeyLockNext /\ UNCHANGED searchVars
  <2>1. KeyLockInv'
    BY <1>a, <1>1, StepInv
  <2>2. contextID' = NoOwner /\ UNCHANGED <<vertexColors, stack, outEdges, hasDeadLock>>
    BY <1>1 DEF searchVars
  <2> QED BY <1>1, <2>1, <2>2, IdleKeeps
<1>2. ASSUME NEW ctx \in ContextIDs, ReturnEarly(ctx), UNCHANGED keyLockVars PROVE SearchInv'
  <2>1. KeyLockInv' /\ UNCHANGED <<m_vertexes, own>>
    BY <1>a, <1>2, InvKept
  <2>2. /\ contextID = NoOwner /\ contextID' = ctx
        /\ UNCHANGED <<vertexColors, stack, outEdges, hasDeadLock>>
    BY <1>2 DEF ReturnEarly
  <2>3. ~Holding(contextID)'
    BY <1>2, <2>1, <2>2 DEF ReturnEarly, Holding
  <2> QED BY <2>1, <2>2, <2>3, IdleKeeps
<1>3. ASSUME NEW ctx \in ContextIDs, Visit(ctx), UNCHANGED keyLockVars PROVE SearchInv'
  BY <1>3, VisitKeeps
<1>4. ASSUME NEW u \in Vertexes, TreeEdge(u) \/ OtherEdge(u), UNCHANGED keyLockVars
      PROVE  SearchInv'
  BY <1>4, TreeEdgeKeeps, OtherEdgeKeeps
<1>5. CASE (FinishVertex \/ Return) /\ UNCHANGED keyLockVars
  BY <1>5, FinishKeeps, ReturnKeeps
<1>6. CASE UNCHANGED <<keyLockVars, searchVars>>
  <2>1. KeyLockInv' /\ UNCHANGED <<m_vertexes, own, request>> /\ successors' = successors
    BY <1>a, <1>6, InvKept, SuccessorsKept
  <2>2. UNCHANGED <<contextID, vertexColors, stack, outEdges, hasDeadLock>>
    BY <1>6 DEF searchVars
  <2>3. SearchTypeOK' /\ StackInv'
    BY <2>1, <2>2 DEF SearchInv, SearchTypeOK, StackInv
  <2>4. CallInv'
    <3>1. Holding(contextID)' <=> Holding(contextID)
      BY <2>1, <2>2 DEF Holding
    <3>2. AllWhite' = AllWhite
      BY DEF AllWhite, Vertexes, KeyLock
    <3> QED BY <2>2, <3>1, <3>2 DEF SearchInv, CallInv
  <2>5. \A S : Trap(S)' <=> Trap(S)
    BY <2>1 DEF Trap
  <2>6. CASE hasDeadLock
    BY <2>1, <2>2, <2>3, <2>4, <2>5, <2>6 DEF SearchInv, CycleInv
  <2>7. CASE ~hasDeadLock
    BY <2>1, <2>2, <2>3, <2>4, <2>5, <2>7 DEF SearchInv, NoCycleInv
  <2> QED BY <2>6, <2>7
<1> QED BY <1>1, <1>2, <1>3, <1>4, <1>5, <1>6 DEF SearchNext, SearchStep

\* A trap of vertexes alternates between contexts and locks: its contexts wait
\* for each other, and a group of contexts that do so makes one.
LEMMA TrapIsGroup ==
  ASSUME KeyLockInv, NEW T \in SUBSET Vertexes, Trap(T)
  PROVE  \A c \in T \cap ContextIDs : \E d \in T \cap ContextIDs : WaitsFor(c, d)
<1> SUFFICES ASSUME NEW c \in T, c \in ContextIDs
             PROVE  \E d \in T \cap ContextIDs : WaitsFor(c, d)
  OBVIOUS
<1>a. /\ \A r \in request : r.lock \in KeyLock /\ r.ctx \in ContextIDs
      /\ \A o \in own : o.lock \in KeyLock /\ o.ctx \in ContextIDs
  BY DEF KeyLockInv, KeyLockTypeOK, Edge
<1>1. PICK l \in T : l \in successors[c]
  BY DEF Trap
<1>2. PICK r \in request : r.ctx = c /\ r.lock = l
  BY <1>1 DEF successors, Successors
<1>3. l \in KeyLock /\ l \notin ContextIDs
  BY <1>a, <1>2, VertexAssumption
<1>4. PICK d \in T : d \in successors[l]
  BY <1>1 DEF Trap
<1>5. PICK o \in own : o.lock = l /\ o.ctx = d
  BY <1>3, <1>4 DEF successors, Successors
<1>6. d \in ContextIDs /\ WaitsFor(c, d)
  BY <1>a, <1>2, <1>5 DEF WaitsFor
<1> QED BY <1>4, <1>6

LEMMA GroupIsTrap ==
  ASSUME KeyLockInv, NEW C \in SUBSET ContextIDs, \A c \in C : \E d \in C : WaitsFor(c, d)
  PROVE  \E T \in SUBSET Vertexes : C \subseteq T /\ Trap(T)
<1>a. /\ \A r \in request : r.lock \in KeyLock /\ r.ctx \in ContextIDs
      /\ \A o \in own : o.lock \in KeyLock /\ o.ctx \in ContextIDs
  BY DEF KeyLockInv, KeyLockTypeOK, Edge
<1> DEFINE locks == {l \in KeyLock : \E o \in own : o.lock = l /\ o.ctx \in C}
           T == C \cup locks
<1>1. T \in SUBSET Vertexes
  BY DEF Vertexes
<1>2. ASSUME NEW c \in C PROVE \E u \in T : u \in successors[c]
  <2>1. PICK d \in C : WaitsFor(c, d)
    OBVIOUS
  <2>2. PICK r \in request, o \in own : r.ctx = c /\ o.lock = r.lock /\ o.ctx = d
    BY <2>1 DEF WaitsFor
  <2>3. r.lock \in locks
    BY <1>a, <2>2
  <2>4. r.lock \in successors[c]
    BY <2>2 DEF successors, Successors, Vertexes
  <2> QED BY <2>3, <2>4
<1>3. ASSUME NEW l \in locks PROVE \E u \in T : u \in successors[l]
  <2>1. PICK o \in own : o.lock = l /\ o.ctx \in C
    OBVIOUS
  <2>2. l \in Vertexes /\ l \notin ContextIDs
    BY VertexAssumption DEF Vertexes
  <2>3. o.ctx \in successors[l]
    BY <2>1, <2>2 DEF successors, Successors
  <2> QED BY <2>1, <2>3
<1>4. Trap(T)
  BY <1>2, <1>3 DEF Trap
<1> QED BY <1>1, <1>4

\* detectDeadLock computes what DetectDeadLock says it means, for graphs of any
\* size, any order in which boost iterates over edges, and although the
\* terminator leaves part of the graph unexamined.
THEOREM SearchCorrect == SearchSpec => []SearchIsExact
<1>1. SearchInv => SearchIsExact
  <2> SUFFICES ASSUME SearchInv, contextID # NoOwner, stack = <<>>
               PROVE  hasDeadLock <=> DetectDeadLock(contextID)
    BY DEF SearchIsExact
  <2>a. KeyLockInv /\ CallInv /\ contextID \in ContextIDs /\ contextID \in Vertexes
    BY DEF SearchInv, SearchTypeOK, Vertexes
  <2>1. CASE ~Holding(contextID)
    BY <2>a, <2>1 DEF CallInv, Holding, DetectDeadLock
  <2>2. CASE Holding(contextID) /\ hasDeadLock
    <3>1. PICK T \in SUBSET Vertexes : contextID \in T /\ Trap(T)
      BY <2>2 DEF SearchInv, CycleInv
    <3>2. T \cap ContextIDs \in SUBSET ContextIDs /\ contextID \in T \cap ContextIDs
      BY <2>a, <3>1
    <3>3. \A c \in T \cap ContextIDs : \E d \in T \cap ContextIDs : WaitsFor(c, d)
      BY <2>a, <3>1, TrapIsGroup
    <3> QED BY <2>2, <3>2, <3>3 DEF Holding, DetectDeadLock
  <2>3. CASE Holding(contextID) /\ ~hasDeadLock
    <3> SUFFICES ASSUME NEW C \in SUBSET ContextIDs, contextID \in C,
                        \A c \in C : \E d \in C : WaitsFor(c, d)
                 PROVE  FALSE
      BY <2>3 DEF DetectDeadLock
    <3>1. PICK T \in SUBSET Vertexes : C \subseteq T /\ Trap(T)
      BY <2>a, GroupIsTrap
    <3>2. NoCycleInv /\ vertexColors[contextID] = "black"
      BY <2>a, <2>3 DEF SearchInv, CallInv
    <3> DEFINE R == {v \in T : vertexColors[v] = "black"}
    <3>3. R \in SUBSET Vertexes /\ R # {} /\ \A v \in R : vertexColors[v] = "black"
      BY <3>1, <3>2
    <3>4. Trap(R)
      <4> SUFFICES ASSUME NEW v \in R PROVE \E u \in R : u \in successors[v]
        BY DEF Trap
      <4>1. PICK u \in T : u \in successors[v]
        BY <3>1 DEF Trap
      <4>2. vertexColors[u] = "black"
        BY <3>2, <3>3, <4>1 DEF NoCycleInv
      <4> QED BY <4>1, <4>2
    <3> HIDE DEF R
    <3> QED BY <3>2, <3>3, <3>4 DEF NoCycleInv
  <2> QED BY <2>1, <2>2, <2>3
<1> QED BY <1>1, SearchInitInv, SearchStepInv, PTL DEF SearchSpec

\* A search leaves the graph alone, so that what holds of the graph's other
\* calls (KeyLockCorrect, KeyLockRefinesTable) holds with searches between them.
THEOREM SearchKeepsGraph == SearchSpec => KeyLockSpec
<1>1. SearchInit => KeyLockInit
  BY DEF SearchInit
<1>2. [SearchNext]_<<keyLockVars, searchVars>> => [KeyLockNext]_keyLockVars
  BY DEF SearchNext
<1> QED BY <1>1, <1>2, PTL DEF SearchSpec, KeyLockSpec

=============================================================================
