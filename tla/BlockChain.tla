----------------------------- MODULE BlockChain -----------------------------
(***************************************************************************)
(* What consensus relies on: a block is executed once, after all blocks    *)
(* before it; the oldest executed block is the one that is committed; and  *)
(* a block is forgotten only after it was committed.                       *)
(***************************************************************************)
EXTENDS Naturals

CONSTANT Numbers   \* block numbers

VARIABLES pending,   \* numbers of the blocks executed and not forgotten
          committed  \* numbers of the blocks that were committed

ChainInit == pending = {} /\ committed = {}

Execute(n) ==
    /\ \A m \in pending \cup committed : m < n
    /\ pending' = pending \cup {n}
    /\ UNCHANGED committed

Commit(n) ==
    /\ n \in pending
    /\ \A m \in pending : n <= m
    /\ committed' = committed \cup {n}
    /\ UNCHANGED pending

Forget(n) ==
    /\ n \in pending \cap committed
    /\ pending' = pending \ {n}
    /\ UNCHANGED committed

ChainNext == \E n \in Numbers : Execute(n) \/ Commit(n) \/ Forget(n)

ChainSpec == ChainInit /\ [][ChainNext]_<<pending, committed>>
=============================================================================
