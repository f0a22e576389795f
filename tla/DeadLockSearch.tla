--------------------------- MODULE DeadLockSearch ---------------------------
(***************************************************************************)
(* detectDeadLock as the code computes it: boost's depth_first_visit with  *)
(* three colours and a stack, stopped by the terminator once a back edge   *)
(* was seen.  GraphKeyLocks defines its answer by what it means; here the  *)
(* two are compared.  The walks of a batch call the graph from one thread, *)
(* so the graph does not change while a search runs.                       *)
(***************************************************************************)
EXTENDS KeyLockRefinement, Naturals, Sequences

\* A vertex is a std::variant of a context and a key lock.
ASSUME VertexAssumption == ContextIDs \cap KeyLock = {}

VARIABLES contextID,    \* the argument of the call, NoOwner between calls
          vertexColors, \* vertex -> colour
          stack,        \* the vertexes that were entered and not left
          outEdges,     \* vertex -> targets of its out-edges not examined yet
          hasDeadLock

searchVars == <<contextID, vertexColors, stack, outEdges, hasDeadLock>>

Vertexes == ContextIDs \cup KeyLock

\* The targets of a vertex's out-edges: locks it waits for, or its owners.
Successors(v) ==
    IF v \in ContextIDs
    THEN {e.lock : e \in {r \in request : r.ctx = v}}
    ELSE {e.ctx : e \in {o \in own : o.lock = v}}

AllWhite == [v \in Vertexes |-> "white"]
NoEdges == [v \in Vertexes |-> {}]

SearchInit ==
    /\ KeyLockInit
    /\ contextID = NoOwner
    /\ vertexColors = AllWhite
    /\ stack = <<>>
    /\ outEdges = NoEdges
    /\ hasDeadLock = FALSE

\* The context has a vertex with an in-edge: it holds a lock.
Holding(ctx) == ctx \in m_vertexes /\ \E e \in own : e.ctx = ctx

\* The early returns.
ReturnEarly(ctx) ==
    /\ contextID = NoOwner
    /\ ~Holding(ctx)
    /\ contextID' = ctx
    /\ UNCHANGED <<vertexColors, stack, outEdges, hasDeadLock>>

\* Mutant: a context that holds nothing is searched from too.
VisitAny(ctx) ==
    /\ contextID = NoOwner
    /\ ctx \in m_vertexes
    /\ contextID' = ctx
    /\ vertexColors' = [vertexColors EXCEPT ![ctx] = "gray"]
    /\ stack' = <<ctx>>
    /\ outEdges' = [outEdges EXCEPT ![ctx] = Successors(ctx)]
    /\ UNCHANGED hasDeadLock

Visit(ctx) ==
    /\ contextID = NoOwner
    /\ Holding(ctx)
    /\ contextID' = ctx
    /\ vertexColors' = [vertexColors EXCEPT ![ctx] = "gray"]
    /\ stack' = <<ctx>>
    /\ outEdges' = [outEdges EXCEPT ![ctx] = Successors(ctx)]
    /\ UNCHANGED hasDeadLock

top == stack[Len(stack)]

\* A white target is entered, with no edges to examine if the terminator says
\* so; a gray one makes a back edge.
TreeEdge(u) ==
    /\ stack # <<>> /\ u \in outEdges[top]
    /\ vertexColors[u] = "white"
    /\ vertexColors' = [vertexColors EXCEPT ![u] = "gray"]
    /\ stack' = Append(stack, u)
    /\ outEdges' = [outEdges EXCEPT ![top] = @ \ {u},
                                    ![u] = IF hasDeadLock THEN {} ELSE Successors(u)]
    /\ UNCHANGED <<contextID, hasDeadLock>>

OtherEdge(u) ==
    /\ stack # <<>> /\ u \in outEdges[top]
    /\ vertexColors[u] # "white"
    /\ outEdges' = [outEdges EXCEPT ![top] = @ \ {u}]
    /\ hasDeadLock' = (hasDeadLock \/ vertexColors[u] = "gray")
    /\ UNCHANGED <<contextID, vertexColors, stack>>

FinishVertex ==
    /\ stack # <<>> /\ outEdges[top] = {}
    /\ vertexColors' = [vertexColors EXCEPT ![top] = "black"]
    /\ stack' = SubSeq(stack, 1, Len(stack) - 1)
    /\ UNCHANGED <<contextID, outEdges, hasDeadLock>>

\* detectDeadLock returns hasDeadLock; the colours and the stack are its own.
Return ==
    /\ contextID # NoOwner /\ stack = <<>>
    /\ contextID' = NoOwner
    /\ vertexColors' = AllWhite
    /\ outEdges' = NoEdges
    /\ hasDeadLock' = FALSE
    /\ UNCHANGED stack

SearchStep ==
    \/ \E ctx \in ContextIDs : ReturnEarly(ctx) \/ Visit(ctx)
    \/ \E u \in Vertexes : TreeEdge(u) \/ OtherEdge(u)
    \/ FinishVertex
    \/ Return

SearchNext ==
    \/ contextID = NoOwner /\ KeyLockNext /\ UNCHANGED searchVars
    \/ SearchStep /\ UNCHANGED keyLockVars

SearchSpec == SearchInit /\ [][SearchNext]_<<keyLockVars, searchVars>>

-----------------------------------------------------------------------------
(* Properties.                                                             *)

\* detectDeadLock returns true exactly if the context holds a lock and is part
\* of, or waits its way into, a cycle of waiting contexts, in whatever order
\* the edges are examined and although the search stops early.
SearchIsExact ==
    contextID # NoOwner /\ stack = <<>> => (hasDeadLock <=> DetectDeadLock(contextID))
=============================================================================
