--------------------------- MODULE TwoPhaseCommit ---------------------------
(***************************************************************************)
(* The two-phase commit of an executed block (BlockExecutive: asyncCommit, *)
(* batchBlockCommit, batchBlockRollback).  The block is written into a     *)
(* temporary storage, the scheduler's storage and then all executors       *)
(* prepare, and the join of their answers starts the second phase: commit, *)
(* storage first, if all prepared, otherwise rollback of all at once.  The *)
(* storage's answers are counted but never checked.                        *)
(*                                                                         *)
(* If the callback of the first phase runs twice, it starts the second     *)
(* phase twice.  The runs have a CommitStatus each and share nothing; both *)
(* are recorded in prepare.delivered, and the first one is followed.       *)
(***************************************************************************)
EXTENDS FanOut

VARIABLES prewrite,  \* state of asyncPrewriteBlock
          prepare,   \* join of the first phase
          second     \* join of the second phase that was started first

commitVars == <<prewrite, prepare, second>>

CommitInit ==
    /\ prewrite = "none"
    /\ prepare = NotBegun
    /\ second = NotBegun

AsyncCommit ==
    /\ prewrite = "none"
    /\ prewrite' = "called"
    /\ UNCHANGED <<registered, prepare, second>>

\* An error ends the commit with an error.  Otherwise the total is computed
\* and the storage prepares.
Prewritten(ok) ==
    /\ prewrite = "called"
    /\ prewrite' = IF ok THEN "done" ELSE "failed"
    /\ prepare' = IF ok THEN NewJoin("PREPARE", 1 + Cardinality(registered), {Storage})
                  ELSE prepare
    /\ UNCHANGED <<registered, second>>

\* The storage's answer is counted, and the executors registered by now are
\* told to prepare, also if it was an error.
StoragePrepared(ok) ==
    /\ Storage \in Waiting(prepare)
    /\ prepare' = [CountOnly(prepare, Storage, ok) EXCEPT !.asked = @ \cup registered]
    /\ UNCHANGED <<registered, prewrite, second>>

ExecutorPrepared(e, ok) ==
    /\ e \in Waiting(prepare)
    /\ prepare' = Count(prepare, e, ok)
    /\ UNCHANGED <<registered, prewrite, second>>

BatchBlockCommit == NewJoin("COMMIT", 1 + Cardinality(registered), {Storage})

BatchBlockRollback ==
    NewJoin("ROLLBACK", 1 + Cardinality(registered), registered \cup {Storage})

\* Mutant: the errors are not looked at.
CommitAnyway(join) == BatchBlockCommit

\* The callback of the first phase.
SecondPhase(join) == IF join.failed # {} THEN BatchBlockRollback ELSE BatchBlockCommit

PrepareCheck(e) ==
    /\ e \in Checking(prepare)
    /\ prepare' = Check(prepare, e)
    /\ second' = IF Complete(prepare) /\ second.kind = "NONE" THEN SecondPhase(prepare) ELSE second
    /\ UNCHANGED <<registered, prewrite>>

\* Mutant: the executors are told only if the storage has committed.
StorageEndedStops(ok) ==
    /\ Storage \in Waiting(second)
    /\ second' = [CountOnly(second, Storage, ok) EXCEPT
                     !.asked = IF second.kind = "COMMIT" /\ ok THEN @ \cup registered ELSE @]
    /\ UNCHANGED <<registered, prewrite, prepare>>

\* The executors are told to commit after the storage's answer, also if it was
\* an error; a rollback has told them at the same time.
StorageEnded(ok) ==
    /\ Storage \in Waiting(second)
    /\ second' = [CountOnly(second, Storage, ok) EXCEPT
                     !.asked = IF second.kind = "COMMIT" THEN @ \cup registered ELSE @]
    /\ UNCHANGED <<registered, prewrite, prepare>>

ExecutorEnded(e, ok) ==
    /\ e \in Waiting(second)
    /\ second' = Count(second, e, ok)
    /\ UNCHANGED <<registered, prewrite, prepare>>

\* The callback of the commit gets the result of a commit, and of a rollback
\* only an error.
SecondCheck(e) ==
    /\ e \in Checking(second)
    /\ second' = Check(second, e)
    /\ UNCHANGED <<registered, prewrite, prepare>>

\* The answers of storage and executors and what their handlers do.
CommitStep ==
    \/ \E ok \in BOOLEAN : Prewritten(ok) \/ StoragePrepared(ok) \/ StorageEnded(ok)
    \/ \E e \in Executors :
          \/ \E ok \in BOOLEAN : ExecutorPrepared(e, ok) \/ ExecutorEnded(e, ok)
          \/ PrepareCheck(e) \/ SecondCheck(e)

CommitNext == AsyncCommit \/ CommitStep

-----------------------------------------------------------------------------
(* Properties.                                                             *)

\* What the callback of the first phase has ordered.
CommitOrdered == \E d \in prepare.delivered : ~d.error
RollbackOrdered == \E d \in prepare.delivered : d.error

\* The caller of asyncCommit was answered.
CommitAnswered ==
    \/ prewrite = "failed"
    \/ second.kind = "COMMIT" /\ second.delivered # {}
    \/ second.kind = "ROLLBACK" /\ \E d \in second.delivered : d.error

\* Two-phase commit: a commit is ordered only if the storage and every
\* executor have prepared, a rollback only if one has failed to, and never
\* both, also when the callback of the first phase runs twice.  An executor
\* that registers between the count and the prepare calls is not in the total.
CommitAtomic ==
    Exact(prepare) =>
       /\ CommitOrdered => prepare.success = prepare.asked
       /\ RollbackOrdered => prepare.failed # {}
       /\ ~(CommitOrdered /\ RollbackOrdered)
       /\ second.kind = "COMMIT" => CommitOrdered
       /\ second.kind = "ROLLBACK" => RollbackOrdered

\* A rollback that has ended: all its answers have come and were looked at.
\* The caller gets an error of it or, if it succeeded or the storage answered
\* last, nothing.
RolledBack == second.kind = "ROLLBACK" /\ Waiting(second) = {} /\ Checking(second) = {}

\* A commit does not stop half-way: its caller is answered or the block is
\* rolled back by storage and executors; and once a commit was ordered,
\* whoever fails then, its caller is answered.
CommitEnds ==
    /\ prewrite = "called" ~> CommitAnswered \/ RolledBack
    /\ CommitOrdered ~> CommitAnswered
=============================================================================
