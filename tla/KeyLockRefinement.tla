------------------------- MODULE KeyLockRefinement -------------------------
(***************************************************************************)
(* The lock graph of GraphKeyLocks implements the table of KeyLockTable: a *)
(* lock's owner is the context its own edges lead to.                      *)
(***************************************************************************)
EXTENDS GraphKeyLocks

CONSTANT NoOwner

ASSUME NoOwnerAssumption == NoOwner \notin ContextIDs

\* The owner of a lock in the graph.
OwnerOf(lock) ==
    IF \E e \in own : e.lock = lock
    THEN (CHOOSE e \in own : e.lock = lock).ctx
    ELSE NoOwner

Table == INSTANCE KeyLockTable WITH owner <- [lock \in KeyLock |-> OwnerOf(lock)]

\* Every call of the class takes free locks for its own context, gives up its
\* own locks, or leaves the owners alone: a lock is never handed from one
\* context to another, also not when batchAcquireKeyLock fails half-way.
TableSpec == Table!Spec
=============================================================================
