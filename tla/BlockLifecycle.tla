--------------------------- MODULE BlockLifecycle ---------------------------
(***************************************************************************)
(* A block from asyncExecute to the end of asyncCommit, over the same      *)
(* executors, which register at any time.  commitBlock calls asyncCommit   *)
(* when the block has a result.  The model lets the handlers of the        *)
(* execution end first (ExecutionQuiet).  In the code they may still be    *)
(* running: they change none of the commit's counters, but a second end of *)
(* batchGetHashes adds the receipts to m_block again and replaces m_result *)
(* while the ledger writes m_block.  What the commit writes is not         *)
(* modelled, so no property here speaks of that race.                      *)
(***************************************************************************)
EXTENDS BlockExecution, TwoPhaseCommit

vars == <<registered, executionVars, commitVars>>

Init ==
    /\ registered \in SUBSET Executors
    /\ ExecutionInit
    /\ CommitInit

Register(e) == RegisterExecutor(e) /\ UNCHANGED <<executionVars, commitVars>>

ExecutionQuiet ==
    /\ Checking(nextBlock) = {} /\ Waiting(hashes) = {} /\ Checking(hashes) = {}
    /\ \A c \in DAGContracts : dagCalls[c].pc \in {"none", "returned"}

Next ==
    \/ \E e \in Executors : Register(e)
    \/ ExecutionNext /\ UNCHANGED commitVars
    \/ HasResult /\ ExecutionQuiet /\ AsyncCommit /\ UNCHANGED executionVars
    \/ CommitStep /\ UNCHANGED executionVars

Spec == Init /\ [][Next]_vars

\* Executors, storage and ledger answer every call, and a handler that has
\* begun runs to its end: as long as there are such steps, one is taken.
Fairness ==
    /\ WF_vars(ExecutionStep /\ UNCHANGED commitVars)
    /\ WF_vars(CommitStep /\ UNCHANGED executionVars)

FairSpec == Spec /\ Fairness

-----------------------------------------------------------------------------
(* Properties.                                                             *)

TypeOK ==
    /\ registered \subseteq Executors
    /\ mode \in {"CALL", "PLAIN", "DAG"} /\ begun \in BOOLEAN /\ twice \in BOOLEAN
    /\ nextBlock \in Joins({"NEXT_BLOCK"})
    /\ hashes \in Joins({"HASHES"})
    /\ totalCount \in Nat
    /\ dagCalls \in [DAGContracts ->
          [pc : {"none", "sent", "subtracted", "settled", "returned"}, error : BOOLEAN, size : Nat]]
    /\ dagStored \subseteq DAGContracts /\ dagFailed \subseteq DAGContracts
    /\ dagErrors \subseteq BOOLEAN
    /\ dmt \in DMTStates
    /\ totalHash \subseteq Executors /\ roots \subseteq SUBSET Executors
    /\ prewrite \in {"none", "called", "done", "failed"}
    /\ prepare \in Joins({"PREPARE"})
    /\ second \in Joins({"COMMIT", "ROLLBACK"})

AllJoins == {nextBlock, hashes, prepare, second}

\* The callback of a fan-out runs when all participants have answered, and
\* reports success exactly if all of them succeeded.
JoinsDeliverAll == \A join \in AllJoins : Exact(join) => DeliversAll(join)

\* The callback of a fan-out runs twice only if two handlers were between
\* ++success and checkAndCommit at one time.
JoinsDeliverOnce == \A join \in AllJoins : Exact(join) => DeliversOnce(join)

\* When all handlers of a fan-out have returned its callback has run, though
\* each handler only looks at the counters it happens to find.  A rollback
\* whose storage answers last is the exception.
JoinsDeliver == \A join \in AllJoins : join.kind # "ROLLBACK" => Delivers(join, Executors)

\* An executor that was told of the block's start and is told to commit it has
\* accepted the block, given its hash and prepared.
CommittedWasAgreed ==
    Exact(prepare) /\ second.kind = "COMMIT" =>
       second.asked \cap nextBlock.asked
          \subseteq nextBlock.success \cap hashes.success \cap prepare.success
=============================================================================
