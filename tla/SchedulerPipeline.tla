------------------------- MODULE SchedulerPipeline -------------------------
(***************************************************************************)
(* SchedulerImpl: executeBlock and commitBlock over the list of blocks.    *)
(* Each takes its mutex with try_lock and keeps it until the last of its   *)
(* callbacks, so that one block executes and one commits at a time, beside *)
(* each other.  executeBlock changes m_blocks under m_blocksMutex;         *)
(* commitBlock reads the list without it and takes it only to remove the   *)
(* front.  A call that does not get its mutex is refused and changes       *)
(* nothing; a refused commitBlock asserts before that the list is not      *)
(* empty, which it may be.                                                 *)
(*                                                                         *)
(* asyncExecute and asyncCommit (module BlockLifecycle) are seen from      *)
(* outside here: they report a success or an error, drop their callback,   *)
(* and with it the lock it holds, or, after an exception from the second   *)
(* batch of a block on, keep it for ever.                                  *)
(***************************************************************************)
EXTENDS CommitStatus, Sequences

CONSTANTS Numbers,     \* numbers of the blocks that consensus sends
          Queries,     \* what asyncGetLedgerConfig asks the ledger for
          MaxCommits   \* bound: how often one block is committed

ASSUME PipelineAssumption ==
    /\ Numbers \subseteq Nat \ {0}
    /\ IsFiniteSet(Queries) /\ {"number", "hash"} \subseteq Queries
    /\ MaxCommits \in Nat

VARIABLES m_blocks,      \* [number, result: is m_result set]
          m_lastExecutedBlockNumber,
          m_txNotifier,  \* is a notifier registered
          executing,     \* m_executeMutex: how far its holder is, and with which block
          committing,    \* m_commitMutex: the same
          config,        \* join of the collector of asyncGetLedgerConfig
          commits,       \* history: number -> how often the storage has committed the block
          misreported,   \* history: blocks it has committed though the caller was told of an error
          failed,        \* history: blocks whose execution gave no result
          repeated       \* a callback ran twice; what then happens is not followed

executeVars == <<m_lastExecutedBlockNumber, executing, failed>>
commitVars == <<committing, config, commits, misreported, repeated>>
vars == <<m_blocks, m_txNotifier, executeVars, commitVars>>

Free == [phase |-> "free", number |-> 0]
Front == Head(m_blocks)
Back == m_blocks[Len(m_blocks)]

Init ==
    /\ m_blocks = <<>>
    /\ m_lastExecutedBlockNumber = 0
    /\ m_txNotifier \in BOOLEAN
    /\ executing = Free
    /\ committing = Free
    /\ config = NotBegun
    /\ commits = [n \in Numbers |-> 0]
    /\ misreported = {} /\ failed = {}
    /\ repeated = FALSE

-----------------------------------------------------------------------------
(* executeBlock                                                            *)

\* Mutant: ">" for ">=".
AcceptableAgain(n) ==
    IF m_blocks # <<>> THEN n = Back.number + 1
    ELSE m_lastExecutedBlockNumber = 0 \/ n >= m_lastExecutedBlockNumber

\* Mutant: a gap behind the last block is not refused.
AcceptableGap(n) ==
    IF m_blocks # <<>> THEN n > Back.number
    ELSE m_lastExecutedBlockNumber = 0 \/ n > m_lastExecutedBlockNumber

\* A number in the range of m_blocks is answered from the list, and any other
\* one but the next is refused.  With an empty list gaps are not refused, and
\* 0 means that nothing was executed yet.
Acceptable(n) ==
    IF m_blocks # <<>> THEN n = Back.number + 1
    ELSE m_lastExecutedBlockNumber = 0 \/ n > m_lastExecutedBlockNumber

\* Mutant: owns_lock() is not looked at.
ExecuteBlockUnlocked(n) ==
    /\ Acceptable(n)
    /\ ~repeated
    /\ m_blocks' = Append(m_blocks, [number |-> n, result |-> FALSE])
    /\ executing' = [phase |-> "running", number |-> n]
    /\ UNCHANGED <<m_lastExecutedBlockNumber, m_txNotifier, failed, commitVars>>

ExecuteBlock(n) ==
    /\ executing = Free
    /\ Acceptable(n)
    /\ ~repeated
    /\ m_blocks' = Append(m_blocks, [number |-> n, result |-> FALSE])
    /\ executing' = [phase |-> "running", number |-> n]
    /\ UNCHANGED <<m_lastExecutedBlockNumber, m_txNotifier, failed, commitVars>>

\* m_result is set before the callback of asyncExecute runs: from here on the
\* block can be committed and removed, though its execution holds the mutex.
ExecuteResult ==
    /\ executing.phase = "running"
    /\ m_blocks' = [m_blocks EXCEPT ![Len(m_blocks)].result = TRUE]
    /\ executing' = [executing EXCEPT !.phase = "result"]
    /\ UNCHANGED <<m_lastExecutedBlockNumber, m_txNotifier, failed, commitVars>>

ExecuteStore ==
    /\ executing.phase = "result"
    /\ m_lastExecutedBlockNumber' = executing.number
    /\ executing' = [executing EXCEPT !.phase = "stored"]
    /\ UNCHANGED <<m_blocks, m_txNotifier, failed, commitVars>>

ExecuteUnlock ==
    /\ executing.phase = "stored"
    /\ executing' = Free
    /\ UNCHANGED <<m_blocks, m_lastExecutedBlockNumber, m_txNotifier, failed, commitVars>>

\* Mutant: the error path forgets the mutex.
ExecuteFailsLocked ==
    /\ executing.phase = "running"
    /\ executing' = [executing EXCEPT !.phase = "failed"]
    /\ failed' = failed \cup {executing.number}
    /\ UNCHANGED <<m_blocks, m_lastExecutedBlockNumber, m_txNotifier, commitVars>>

\* An error, or a callback that is dropped and destroyed with the lock it
\* owns: the block stays in the list.
ExecuteFails ==
    /\ executing.phase = "running"
    /\ executing' = Free
    /\ failed' = failed \cup {executing.number}
    /\ UNCHANGED <<m_blocks, m_lastExecutedBlockNumber, m_txNotifier, commitVars>>

\* recursionCallback, which runs after each batch, holds a pointer to itself:
\* when a walk from the second batch on throws, it is neither called nor
\* destroyed, nor is the lock that the callback of executeBlock owns.
ExecuteThrows ==
    /\ executing.phase = "running"
    /\ executing' = [executing EXCEPT !.phase = "leaked"]
    /\ failed' = failed \cup {executing.number}
    /\ UNCHANGED <<m_blocks, m_lastExecutedBlockNumber, m_txNotifier, commitVars>>

-----------------------------------------------------------------------------
(* commitBlock                                                             *)

CommitPhase(phase) == committing' = [committing EXCEPT !.phase = phase]

\* The mutex is held while the list is looked at.
CommitLock(n) ==
    /\ committing = Free
    /\ ~repeated
    /\ commits[n] < MaxCommits
    /\ committing' = [phase |-> "locked", number |-> n]
    /\ UNCHANGED <<m_blocks, m_txNotifier, executeVars, config, commits, misreported, repeated>>

\* Mutant: the number is not compared.
CommittableAny(n) == m_blocks # <<>> /\ Front.result

\* Mutant: the result is not looked at.
CommittableExecuting(n) == m_blocks # <<>> /\ n = Front.number

Committable(n) == m_blocks # <<>> /\ Front.result /\ n = Front.number

\* "No uncommitted block", "Block is executing", "Invalid block number".
CommitRefuse ==
    /\ committing.phase = "locked"
    /\ ~Committable(committing.number)
    /\ committing' = Free
    /\ UNCHANGED <<m_blocks, m_txNotifier, executeVars, config, commits, misreported, repeated>>

CommitStart ==
    /\ committing.phase = "locked"
    /\ Committable(committing.number)
    /\ CommitPhase("commit")
    /\ UNCHANGED <<m_blocks, m_txNotifier, executeVars, config, commits, misreported, repeated>>

\* asyncCommit reports an error, or drops its callback after a rollback, and
\* the storage has not committed: the block stays and can be committed again.
CommitFails ==
    /\ committing.phase = "commit"
    /\ committing' = Free
    /\ UNCHANGED <<m_blocks, m_txNotifier, executeVars, config, commits, misreported, repeated>>

StorageCommitted == commits' = [commits EXCEPT ![committing.number] = @ + 1]

\* The storage has committed, and then an executor has failed to: the error
\* is reported, and the block stays and can be committed again all the same.
CommitPartly ==
    /\ committing.phase = "commit"
    /\ committing' = Free
    /\ StorageCommitted
    /\ misreported' = misreported \cup {committing.number}
    /\ UNCHANGED <<m_blocks, m_txNotifier, executeVars, config, repeated>>

\* asyncCommit reports success; asyncGetLedgerConfig asks for all but the hash.
\* Handlers left from an earlier collection have run by now.
CommitDone ==
    /\ committing.phase = "commit"
    /\ Checking(config) = {}
    /\ CommitPhase("config")
    /\ config' = NewJoin("CONFIG", Cardinality(Queries), Queries \ {"hash"})
    /\ StorageCommitted
    /\ UNCHANGED <<m_blocks, m_txNotifier, executeVars, misreported, repeated>>

\* When the number has come, or an error in its place, the hash is asked for ...
AskHash ==
    /\ "number" \in Waiting(config) /\ "hash" \notin config.asked
    /\ config' = [config EXCEPT !.asked = @ \cup {"hash"}]
    /\ UNCHANGED <<m_blocks, m_txNotifier, executeVars, committing, commits, misreported, repeated>>

\* ... and only then is the number collected, perhaps after the hash.
QueryAnswer(q, ok) ==
    /\ q \in Waiting(config)
    /\ q = "number" => "hash" \in config.asked
    /\ config' = Count(config, q, ok)
    /\ UNCHANGED <<m_blocks, m_txNotifier, executeVars, committing, commits, misreported, repeated>>

\* The callback of asyncGetLedgerConfig.  With an error the committed block
\* stays in the list.
Collected ==
    IF config.failed # {}
    THEN committing' = Free /\ misreported' = misreported \cup {committing.number}
    ELSE CommitPhase(IF m_txNotifier THEN "notify" ELSE "remove") /\ UNCHANGED misreported

Collect(q) ==
    /\ q \in Checking(config)
    /\ config' = Check(config, q)
    /\ IF Complete(config) /\ config.delivered = {}
       THEN Collected /\ UNCHANGED repeated
       ELSE /\ repeated' = (repeated \/ Complete(config))
            /\ UNCHANGED <<committing, misreported>>
    /\ UNCHANGED <<m_blocks, m_txNotifier, executeVars, commits>>

\* asyncNotify: the transaction pool has taken the results, or has failed to.
Notified ==
    /\ committing.phase = "notify"
    /\ CommitPhase("remove")
    /\ UNCHANGED <<m_blocks, m_txNotifier, executeVars, config, commits, misreported, repeated>>

\* Mutant: the branch without a notifier forgets the pop.
RemoveIfNotified ==
    /\ committing.phase = "remove"
    /\ ~repeated
    /\ m_blocks' = IF m_txNotifier THEN Tail(m_blocks) ELSE m_blocks
    /\ CommitPhase("removed")
    /\ UNCHANGED <<m_txNotifier, executeVars, config, commits, misreported, repeated>>

\* m_blocks.pop_front() under m_blocksMutex ...
Remove ==
    /\ committing.phase = "remove"
    /\ ~repeated
    /\ m_blocks' = Tail(m_blocks)
    /\ CommitPhase("removed")
    /\ UNCHANGED <<m_txNotifier, executeVars, config, commits, misreported, repeated>>

\* ... and only then the mutex is given up and the caller answered.
CommitUnlock ==
    /\ committing.phase = "removed"
    /\ committing' = Free
    /\ UNCHANGED <<m_blocks, m_txNotifier, executeVars, config, commits, misreported, repeated>>

-----------------------------------------------------------------------------

(* Two handlers of a fan-out overlap (module CommitStatus), so that the    *)
(* callback of asyncExecute or of asyncCommit runs twice, or the second    *)
(* phase of the commit is ordered twice.  Nothing is begun or removed in   *)
(* the model after that.                                                   *)

CallbackRepeats ==
    /\ ~repeated
    /\ executing.phase = "running" \/ committing.phase = "commit"
    /\ repeated' = TRUE
    /\ UNCHANGED <<m_blocks, m_txNotifier, executeVars, committing, config, commits, misreported>>

-----------------------------------------------------------------------------

ExecuteStep == ExecuteResult \/ ExecuteStore \/ ExecuteUnlock \/ ExecuteFails \/ ExecuteThrows

CommitStep ==
    \/ CommitRefuse \/ CommitStart \/ CommitFails \/ CommitPartly \/ CommitDone
    \/ AskHash \/ Notified \/ Remove \/ CommitUnlock
    \/ \E q \in Queries : Collect(q) \/ \E ok \in BOOLEAN : QueryAnswer(q, ok)

Next ==
    \/ \E n \in Numbers : ExecuteBlock(n) \/ CommitLock(n)
    \/ ExecuteStep
    \/ CommitStep
    \/ CallbackRepeats

Spec == Init /\ [][Next]_vars

\* Executors, storage, ledger and transaction pool answer, and a handler that
\* has begun runs to its end.
FairSpec == Spec /\ WF_vars(ExecuteStep) /\ WF_vars(CommitStep)

-----------------------------------------------------------------------------
(* Properties.                                                             *)

Block == [number : Numbers, result : BOOLEAN]
Configs == [kind : {"NONE", "CONFIG"}, total : Nat, asked : SUBSET Queries,
            success : SUBSET Queries, failed : SUBSET Queries, checked : SUBSET Queries,
            delivered : SUBSET [by : Queries, error : BOOLEAN], overlap : BOOLEAN]

TypeOK ==
    /\ m_blocks \in Seq(Block)
    /\ m_lastExecutedBlockNumber \in Numbers \cup {0}
    /\ m_txNotifier \in BOOLEAN
    /\ executing \in [phase : {"free", "running", "result", "stored", "leaked"},
                      number : Numbers \cup {0}]
    /\ committing \in [phase : {"free", "locked", "commit", "config", "notify", "remove", "removed"},
                       number : Numbers \cup {0}]
    /\ config \in Configs
    /\ commits \in [Numbers -> 0 .. MaxCommits]
    /\ misreported \subseteq Numbers /\ failed \subseteq Numbers
    /\ repeated \in BOOLEAN

\* The blocks in the list have consecutive numbers: executeBlock finds a number
\* between the first and the last one by walking to it.
Consecutive ==
    \A i \in 1 .. Len(m_blocks) - 1 : m_blocks[i + 1].number = m_blocks[i].number + 1

\* From the commit to the removal, through the callbacks of storage, ledger
\* and transaction pool, the front of the list stays the block that is
\* committed: the block that is notified and removed is that one.
CommitsFront ==
    committing.phase \in {"commit", "config", "notify", "remove"} =>
       m_blocks # <<>> /\ Front.number = committing.number /\ Front.result

\* A block is not removed while it executes: the reference asyncExecute works
\* on stays valid, and is the last block until the execution ends.
ExecutesLast ==
    executing.phase = "running" =>
       m_blocks # <<>> /\ Back.number = executing.number /\ ~Back.result

\* While nothing executes, a block in the list has a result unless its
\* execution failed: only then is a repeated request answered without one.
ResultUnlessFailed ==
    executing = Free =>
       \A i \in 1 .. Len(m_blocks) : m_blocks[i].result \/ m_blocks[i].number \in failed

\* The storage commits a block a second time only if the caller of an earlier
\* commit was told of an error, because an executor failed after the storage
\* had committed or because the configuration could not be read: a commit that
\* is answered as a success is the last one.  When the second phase is ordered
\* twice the storage is asked twice by one call; that case is left out.
CommittedOnce == ~repeated => \A n \in Numbers : commits[n] > 1 => n \in misreported

Chain == INSTANCE BlockChain WITH
    pending <- {m_blocks[i].number : i \in 1 .. Len(m_blocks)},
    committed <- {n \in Numbers : commits[n] > 0}

\* The pipeline implements BlockChain: blocks are executed once and in order,
\* committed from the oldest on, and removed only when committed.
RefinesChain == Chain!ChainSpec

\* Both mutexes are given up again, so that later calls are not refused for
\* ever, on every path but two: an exception that leaks the callback of the
\* execution, and a callback of the commit that runs twice.
MutexesReleased ==
    /\ executing # Free ~> executing = Free \/ executing.phase = "leaked"
    /\ committing # Free ~> committing = Free \/ repeated
=============================================================================
