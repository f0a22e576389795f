--------------------------- MODULE GraphKeyLocks ---------------------------
(***************************************************************************)
(* The key locks of one block (class GraphKeyLocks): a directed multigraph *)
(* between context vertexes and key-lock vertexes.  An edge from a lock to *)
(* a context says that the context owns the lock, an edge from a context   *)
(* to a lock that it waits for it; both carry the sequence number of the   *)
(* call frame that made them.  The graph's edges are kept here as two sets *)
(* of records, one for each direction.                                     *)
(*                                                                         *)
(* addEdge adds no second edge with the same ends and seq, so sets (not    *)
(* bags) of edges are exact.  Key vertexes are created on demand, never    *)
(* removed, and one without edges behaves like one that does not exist, so *)
(* only the context vertexes are kept.                                     *)
(***************************************************************************)
CONSTANTS ContextIDs, \* contexts (transactions)
          Contracts,  \* contract addresses
          Keys,       \* key names within a contract
          Seqs        \* call-frame sequence numbers

VARIABLES m_vertexes, \* the contexts that have a vertex
          own,        \* edges lock -> context
          request     \* edges context -> lock

keyLockVars == <<m_vertexes, own, request>>

KeyLock == Contracts \X Keys

Edge == [lock : KeyLock, ctx : ContextIDs, seq : Seqs]

\* Mutant: context and seq exchanged.
EdgeOfSwapped(lock, ctx, seq) == [lock |-> lock, ctx |-> seq, seq |-> ctx]

EdgeOf(lock, ctx, seq) == [lock |-> lock, ctx |-> ctx, seq |-> seq]

KeyLockTypeOK ==
    /\ m_vertexes \subseteq ContextIDs
    /\ own \subseteq Edge
    /\ request \subseteq Edge

KeyLockInit ==
    /\ m_vertexes = {}
    /\ own = {}
    /\ request = {}

\* The out-edges of a lock vertex that stop an acquisition by ctx.
HeldByOther(lock, ctx) == \E e \in own : e.lock = lock /\ e.ctx # ctx

-----------------------------------------------------------------------------
(* acquireKeyLock: returns true after AcquireOwns, false after AcquireWaits *)

\* Mutant: the owners of the lock are not looked at.
AcquireUnchecked(contract, key, ctx, seq) ==
    /\ m_vertexes' = m_vertexes \cup {ctx}
    /\ request' = {e \in request : ~(e.lock = <<contract, key>> /\ e.ctx = ctx)}
    /\ own' = own \cup {EdgeOf(<<contract, key>>, ctx, seq)}

\* Mutant: only the request edge of the same frame is removed.
AcquireKeepsRequests(contract, key, ctx, seq) ==
    /\ ~HeldByOther(<<contract, key>>, ctx)
    /\ m_vertexes' = m_vertexes \cup {ctx}
    /\ request' = request \ {EdgeOf(<<contract, key>>, ctx, seq)}
    /\ own' = own \cup {EdgeOf(<<contract, key>>, ctx, seq)}

AcquireOwns(contract, key, ctx, seq) ==
    /\ ~HeldByOther(<<contract, key>>, ctx)
    /\ m_vertexes' = m_vertexes \cup {ctx}
    /\ request' = {e \in request : ~(e.lock = <<contract, key>> /\ e.ctx = ctx)}
    /\ own' = own \cup {EdgeOf(<<contract, key>>, ctx, seq)}

AcquireWaits(contract, key, ctx, seq) ==
    /\ HeldByOther(<<contract, key>>, ctx)
    /\ m_vertexes' = m_vertexes \cup {ctx}
    /\ request' = request \cup {EdgeOf(<<contract, key>>, ctx, seq)}
    /\ own' = own

(* batchAcquireKeyLock acquires one key after the other.                   *)

LocksOf(contract, keys) == {<<contract, key>> : key \in keys}

BatchAcquireOwns(contract, keys, ctx, seq) ==
    /\ \A lock \in LocksOf(contract, keys) : ~HeldByOther(lock, ctx)
    /\ m_vertexes' = IF keys = {} THEN m_vertexes ELSE m_vertexes \cup {ctx}
    /\ request' = {e \in request : ~(e.lock \in LocksOf(contract, keys) /\ e.ctx = ctx)}
    /\ own' = own \cup {EdgeOf(lock, ctx, seq) : lock \in LocksOf(contract, keys)}

\* It throws at the first key that another context holds: the keys before it
\* (some subset of the free ones) are acquired, and the failed acquisition
\* leaves its request edge.
BatchAcquireThrows(contract, keys, ctx, seq) ==
    \E key \in keys :
       /\ HeldByOther(<<contract, key>>, ctx)
       /\ \E before \in SUBSET {k \in keys : ~HeldByOther(<<contract, k>>, ctx)} :
             /\ m_vertexes' = m_vertexes \cup {ctx}
             /\ request' = {e \in request : ~(e.lock \in LocksOf(contract, before) /\ e.ctx = ctx)}
                              \cup {EdgeOf(<<contract, key>>, ctx, seq)}
             /\ own' = own \cup {EdgeOf(lock, ctx, seq) : lock \in LocksOf(contract, before)}

(* releaseKeyLocks removes the edges of one frame of a context, in both    *)
(* directions, and the vertex when no edge is left (or none was there).    *)

\* Mutant: the edges of every context with this seq go.
EdgesLeftBySeq(edges, ctx, seq) == {e \in edges : e.seq # seq}

EdgesLeft(edges, ctx, seq) == {e \in edges : ~(e.ctx = ctx /\ e.seq = seq)}

\* Mutant: request edges are left in the graph.
ReleaseKeepsRequests(ctx, seq) ==
    /\ own' = EdgesLeft(own, ctx, seq)
    /\ request' = request
    /\ m_vertexes' = {e.ctx : e \in own' \cup request'}

ReleaseKeyLocks(ctx, seq) ==
    /\ own' = EdgesLeft(own, ctx, seq)
    /\ request' = EdgesLeft(request, ctx, seq)
    /\ m_vertexes' = IF \E e \in EdgesLeft(own \cup request, ctx, seq) : e.ctx = ctx
                     THEN m_vertexes \cup {ctx}
                     ELSE m_vertexes \ {ctx}

-----------------------------------------------------------------------------
(* Queries.                                                                *)

GetKeyLocksNotHoldingByContext(contract, excludeContextID) ==
    {key \in Keys : HeldByOther(<<contract, key>>, excludeContextID)}

\* c waits for d: the graph has a path c -> lock -> d.
WaitsFor(c, d) ==
    \E r \in request, o \in own : r.ctx = c /\ o.lock = r.lock /\ o.ctx = d

\* Mutant: only cycles of two contexts are found.
DetectMutualWait(ctx) ==
    /\ ctx \in m_vertexes
    /\ \E d \in ContextIDs : WaitsFor(ctx, d) /\ WaitsFor(d, ctx)

\* Mutant: the in-degree test is the wrong way round.
DetectNotHolding(ctx) ==
    /\ ctx \in m_vertexes
    /\ ~\E e \in own : e.ctx = ctx
    /\ \E S \in SUBSET ContextIDs :
          /\ ctx \in S
          /\ \A c \in S : \E d \in S : WaitsFor(c, d)

\* detectDeadLock.  A depth-first search from the context meets a back edge
\* iff a cycle can be reached from it, that is iff it is in a set of contexts
\* each of which waits for a member of the set.  The search starts only from
\* a context that has a vertex and holds a lock.
DetectDeadLock(ctx) ==
    /\ ctx \in m_vertexes
    /\ \E e \in own : e.ctx = ctx
    /\ \E S \in SUBSET ContextIDs :
          /\ ctx \in S
          /\ \A c \in S : \E d \in S : WaitsFor(c, d)

-----------------------------------------------------------------------------
(* The class on its own, called with any arguments in any order.           *)

KeyLockNext ==
    \E contract \in Contracts, ctx \in ContextIDs, seq \in Seqs :
       \/ \E key \in Keys : \/ AcquireOwns(contract, key, ctx, seq)
                            \/ AcquireWaits(contract, key, ctx, seq)
       \/ \E keys \in SUBSET Keys : \/ BatchAcquireOwns(contract, keys, ctx, seq)
                                    \/ BatchAcquireThrows(contract, keys, ctx, seq)
       \/ ReleaseKeyLocks(ctx, seq)

KeyLockSpec == KeyLockInit /\ [][KeyLockNext]_keyLockVars

-----------------------------------------------------------------------------
(* Properties.                                                             *)

\* A key lock is owned by at most one context, whatever the order of the
\* calls and however many frames of the owner hold it (acquireKeyLock checks
\* the out-edges of the lock before it adds one).
MutualExclusion ==
    \A e, f \in own : e.lock = f.lock => e.ctx = f.ctx

\* A context has a vertex exactly while it has an edge: releaseKeyLocks
\* neither leaks the vertex of a context that is gone nor removes one that
\* still has edges (boost would leave those edges dangling).
VertexHasEdge ==
    m_vertexes = {e.ctx : e \in own \cup request}

\* A context never waits for a lock it owns, so every cycle the search finds
\* has at least two contexts (acquireKeyLock removes all request edges of
\* the context to the lock, those of its other frames included).
NoSelfWait ==
    \A r \in request, o \in own : r.lock = o.lock => r.ctx # o.ctx

KeyLockInv == KeyLockTypeOK /\ MutualExclusion /\ VertexHasEdge /\ NoSelfWait

=============================================================================
