----------------------------- MODULE MCKeyLocks -----------------------------
(***************************************************************************)
(* GraphKeyLocks on its own, its refinement and its search, for TLC.       *)
(***************************************************************************)
EXTENDS DeadLockSearch, FiniteSets, TLC

CONSTANT MaxEdges  \* bound on the edges of the graph: 6 close a cycle of three contexts

Bounded == Cardinality(own) + Cardinality(request) <= MaxEdges

\* No definition tells contexts, or keys, apart.
Symmetry == Permutations(ContextIDs) \cup Permutations(Keys)
=============================================================================
