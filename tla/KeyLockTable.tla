---------------------------- MODULE KeyLockTable ----------------------------
(***************************************************************************)
(* What a table of key locks promises to the transactions of a block:      *)
(* every lock has at most one owner, an owner keeps a lock until it gives  *)
(* it up itself, and a lock goes from one owner to another only through a  *)
(* state in which it is free.  GraphKeyLocks implements this module.       *)
(***************************************************************************)
CONSTANTS ContextIDs, \* the transactions of a block
          KeyLock,    \* the locks: pairs <<contract, key>>
          NoOwner     \* the owner of a free lock

VARIABLE owner        \* owner[l]: the context that holds l, or NoOwner

Init == owner = [l \in KeyLock |-> NoOwner]

\* Context c takes the locks in L: each is free, or c's already.
Take(c, L) ==
    /\ \A l \in L : owner[l] \in {NoOwner, c}
    /\ owner' = [l \in KeyLock |-> IF l \in L THEN c ELSE owner[l]]

\* Context c gives up the locks in L, all of them its own.
Drop(c, L) ==
    /\ \A l \in L : owner[l] = c
    /\ owner' = [l \in KeyLock |-> IF l \in L THEN NoOwner ELSE owner[l]]

Next == \E c \in ContextIDs, L \in SUBSET KeyLock : Take(c, L) \/ Drop(c, L)

Spec == Init /\ [][Next]_owner
=============================================================================
