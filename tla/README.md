# bcos-scheduler in TLA+

This directory models the block scheduler of FISCO BCOS (`src/bcos-scheduler`):
how the transactions of a block are executed by several executors in batches,
how key locks keep them apart, how deadlocks between them are found and broken,
how contracts are assigned to executors, how an executed block is committed in
two phases, and how the scheduler executes and commits several blocks beside
each other.

## 1. Inventory

| Component | State | Operations | Interacts through |
|---|---|---|---|
| `SchedulerImpl` pipeline | `m_blocks`, `m_executeMutex`, `m_commitMutex`, `m_blocksMutex`, `m_lastExecutedBlockNumber` | `executeBlock`, `commitBlock` | owns the `BlockExecutive`s; consensus calls it; ledger, transaction pool |
| `SchedulerImpl` services | `m_calledContextID`, notifiers | `call`, `getCode`, `registerExecutor`, `asyncGetLedgerConfig` | temporary `BlockExecutive`, `ExecutorManager`, ledger callbacks |
| `BlockExecutive` set-up and DAG phase | `m_executiveStates`, `m_executiveResults` | `asyncExecute`, `DAGExecute` | executors (`dagExecuteTransactions`) |
| `BlockExecutive` batches | the same, `BatchStatus`, `m_keyLocks`, `calledContract` | `DMTExecute`, `startBatch`, `executeCallback`, `checkBatch`, `traverseExecutive` | executors' threads call back |
| `GraphKeyLocks` | `m_graph`, `m_vertexes` | acquire, batch acquire, release, query, `detectDeadLock` | called by the two walks only |
| `BlockExecutive` fan-outs | `CommitStatus` | `batchNextBlock`, `batchGetHashes`, `batchBlockCommit`, `batchBlockRollback` | all executors, storage |
| `BlockExecutive` commit | `CommitStatus` | `asyncCommit`, `asyncNotify` | ledger, storage, executors (two-phase commit) |
| `ExecutorManager` | map contract -> executor, contract sets, priority queue, mutex | `addExecutor`, `dispatchExecutor`, `removeExecutor` | called from the executing thread, `call` and `getCode` |
| `ChecksumAddress`, addresses | none | `toChecksumAddress`, `newEVMAddress`, `preprocessAddress` | - |

What is hard in this code, and what makes each part correct:

* **Batches.** Executors answer from their own threads, in any order, also while
  the walk still sends. A batch must be closed exactly once, with every answer
  in; two transactions must not be at one contract; the list of foreign locks
  an executor was given must stay true while it works; results must go back to
  the frame that called.
* **Key locks and deadlocks.** Locks are per call frame and re-entrant within a
  transaction. A lock must have one owner and must not outlive its frame;
  stale wait edges must not confuse the search; a batch in which nothing can be
  sent must find a victim, and the block must end.
* **Executor assignment.** A lookup without the mutex, then a `try_lock`: a
  contract must stay with its executor, and must not lead to one that is gone.
* **Fan-outs.** A handler counts its answer and then compares the counters, and
  other handlers run between the two: the callback must not run early or not at
  all, and runs twice only if handlers overlap. Executors register meanwhile.
* **DAG phase, hashes.** What a handler does after it has counted (storing its
  messages, adding its hash) may come after the next stage has begun.
* **Commit.** The decision of the first phase must be the same for storage and
  executors, also when it is taken twice; the caller must be answered.
* **Pipeline.** One list is appended to by the execution and popped by the last
  callback of a commit. The block a commit has checked must be the one it
  removes, the block that executes must stay, errors reported at any stage must
  leave both mutexes free, and blocks must be executed once and committed in
  order.

`PROJECT.json` lists every hazard with its line under `hazards`.

## 2. Modules

| Module | Models |
|---|---|
| `KeyLockTable` | abstract: a table of exclusive locks, taken when free, given up by the owner |
| `GraphKeyLocks` | the class: own and request edges, context vertexes |
| `KeyLockRefinement` | the refinement mapping `OwnerOf` and `TableSpec` |
| `DeadLockSearch` | `detectDeadLock` as the three-colour search it runs, one step for each edge, beside the graph |
| `GraphKeyLocksProofs` | the proofs about the lock graph |
| `DMTExecute` | the batches, composed with `GraphKeyLocks` (`m_keyLocks == INSTANCE ...`) and with a model of the executors |
| `DMTExecuteProofs` | the proofs about the batches: types, counters, call stacks, walks |
| `DMTLockProofs` | the proofs about the key locks of the batches and about stalled batches |
| `DMTContractProofs` | the proofs about the contracts that transactions are at |
| `ExecutorManager`, `ExecutorManagerProofs` | the assignment of contracts, and the proofs about it |
| `CommitStatus` | the counter join of concurrent answers, as operators on a record |
| `FanOut` | the executors that are registered, and the participants of a fan-out |
| `BlockExecution` | the stages of an execution: `asyncExecute`, `batchNextBlock`, `DAGExecute`, the batches as one stage, `batchGetHashes` |
| `TwoPhaseCommit` | `asyncCommit`, `batchBlockCommit`, `batchBlockRollback` |
| `BlockLifecycle` | the two composed over the same executors |
| `BlockLifecycleProofs` | the proofs about the answers a join waits for and the atomic commit |
| `BlockStagesProofs` | the proofs about the handlers of the joins and the stages of a block |
| `BlockChain` | abstract: blocks executed once and in order, committed from the oldest on |
| `SchedulerPipeline` | `executeBlock`, `commitBlock`, `asyncNotify`, the collector of `asyncGetLedgerConfig`; implements `BlockChain` |
| `SchedulerPipelineProofs` | the proofs about the pipeline |
| `MCKeyLocks`, `MCDMT`, `MCExecutorManager`, `MCBlockLifecycle`, `MCSchedulerPipeline` | the TLC instances; each `.cfg` is one question |

Names follow the source. A definition commented `Mutant:` is a plausible bug of
the definition that follows it; it shows that a property can fail.

### GraphKeyLocks

An edge is a record (lock, context, seq), in `own` for lock -> context and in
`request` for context -> lock. `addEdge` refuses a second edge with the same
ends and seq, so sets are exact. `m_vertexes` keeps the context vertexes; key
vertexes are never removed and one without edges has no effect.
`acquireKeyLock` is `AcquireOwns` (true) or `AcquireWaits` (false);
`batchAcquireKeyLock` is `BatchAcquireOwns`, or `BatchAcquireThrows` at the
first foreign key, after some of the free ones were taken. `DetectDeadLock` is
defined by what the search decides: a context that has a vertex and holds a
lock, in a set of contexts that each wait for a member of the set.

`DeadLockSearch` is how the code decides it: `boost::depth_first_visit` with its
colours (`vertexColors`), its stack and the edges it has still to examine
(`outEdges`), in any order. `ReturnEarly` is the two early returns, `Visit` the
call, `OtherEdge` sets `hasDeadLock` at a back edge, and `TreeEdge` gives a vertex
that is entered no edges to examine once it is set, which is what boost makes of
the terminator; the vertexes below it on the stack are still finished. One thread
walks, so the graph's operations come between two searches only.

### DMTExecute

* `m_executiveStates` maps each unfinished transaction to its state. `key` is
  the contract in the map key; the walk visits states in the order (key,
  contextID), one action for each visit. `todo` holds those it has still to
  visit, so answers can arrive between two visits.
* Sending walk (`phase = "send"`): `VisitSkip`, `VisitRequest`, `VisitFinish`,
  `VisitReturn`, `VisitRevertKeyLock`, `VisitAcquire`, `VisitWait`,
  `VisitSendBack`, one for each branch of `startBatch`, each with the common
  tail `Dispatch` where the code falls through to it. `EndSend` sets
  `allSended` and calls `checkBatch`.
* `checkers` counts the `checkBatch` calls about to be made: one by each
  answer, one by the end of the walk. `CheckBatch` is the one that wins the
  compare-and-swap, `CheckNotReady` any other. Calls left when the next batch
  starts belong to the old `BatchStatus`, whose `callbackExecuted` is set: they
  return without effect.
* The walks of `checkBatch`: `VisitVictim`, `VisitNoVictim` when nothing was
  sent, otherwise `UpdateAcquire`, `UpdateThrows`, `UpdateRelease`; both with
  `UpdateSkipped`. `BatchCallback` is the callback of `DMTExecute`: the next
  batch, or the end.
* `UPDATE` extracts a state from the map and re-inserts it under its new key
  after the walk. The model changes the key at once, which is the same for a
  walk that does not come back to a visited state.
* Initial states: every choice of targets (a deployed contract or a creation)
  and every outcome of the DAG phase, `NONE` for transactions it did not run.
  The code's `withDAG` is not reset, so all transactions after the first DAG
  one are DAG ones; the initial states follow that.
* Executors are external. They are modelled by what the scheduler relies on: a
  stack of frames for each transaction; a frame calls or creates a contract,
  finishes, reverts, or asks for a key that the message lists as locked by
  another transaction, and reports the keys of its contract it has touched. A
  frame told to revert while it waits reverts. `Honest = FALSE` drops the
  assumption that frames do not touch listed keys.
* Addresses are numbers. `newEVMAddress` is an injective numbering of
  (contextID, seq), and with a salt depends on the sender only: code and salt
  are fixed, so equal senders give equal addresses.
* Left out: gas, receipt contents, log entries, the checksum spelling of
  addresses, static calls' use of `executor->call`, the `executiveState.error`
  branch at the start of a visit (a batch with an error is the last one).

### ExecutorManager

`dispatchExecutor` is cut where other threads can come between: `Call`, `Find`
(lookup without the mutex), `TryLock`, `Assign`. `AssignThrows` is the exception
for a contract that the chosen executor already has, which leaves the executor
out of the queue; `AssignFromEmpty` is `top()` of the emptied queue, undefined
behaviour after which the thread does not come back. `answers` is a history
variable: the executors returned for a contract since it was last unassigned.
`raced` is another: the contracts that two threads had both missed at one time.
`RemoveExecutor` and `RemoveThrows` run only while nothing is dispatched:
`unsafe_erase` beside a lookup is undefined, and no code of the repository calls
`removeExecutor` while it executes (`unregisterExecutor` is empty).

### CommitStatus, FanOut, BlockExecution, TwoPhaseCommit, BlockLifecycle

* A join is a record: `total`, the participants `asked`, and the counters as the
  sets `success` and `failed`. `Count` is `++success` or `++failed`, `Check` the
  comparison that follows it (`checkAndCommit`); a handler is in `Checking`
  between the two. `delivered` records each run of the callback and whether it
  got an error. The storage's handlers count and do not check (`CountOnly`).
  `Exact` says that the calls are those of the total; an executor that registers
  between them breaks it.
* The fan-outs `nextBlock` and `hashes` compute the total and make their calls in
  one loop, one step here. In the commit the storage's callback lies between the
  two, and so do other actions: `Prewritten` and `SecondPhase` take the total,
  `StoragePrepared` and `StorageEnded` make the calls.
* `DAGSubtract`, `DAGStore` and `DAGCheck` are the three parts of the handler of
  a DAG answer: subtract the messages from `totalCount`, store them or count a
  failure, look at the count. An answer has an error or not and any number of
  messages up to those that were sent. `Requests` is the multimap that the phase
  fills, one element for each message, and `totalCount` begins with its size;
  there is a DAG phase only if some transaction is a DAG one, so it is not empty.
  `HashAnswer`, `HashXor` and `HashCheck`
  are the parts of the handler of a hash; `HashXor` has a mutex of its own.
* `StartDMT` is the assertion on the messages in the first batch. The batches are
  one stage here (`DMTStates`), and `DMTExecute` models how they end: `DMTEnd` is an
  end that runs the callback, `DMTStops` one that does not. Those are an exception
  that leaves a walk (`thrown`), a static call that waits for its own lock
  (`waiting`, see run `dmt_call`) and, in a static call, the null pointer that
  `dispatchExecutor` returns when no executor is registered (`null`); a block that
  has reached its batches has called executors and these stay registered.
* `RolledBack` is a rollback whose answers have all come. Its caller gets an error
  of it, or nothing.
* A callback that runs twice starts its stage twice. The second start is recorded
  in `twice` and the execution is not followed further; in the commit both runs
  are in `prepare.delivered`, and the second phase that was started first is
  followed. The two second phases have a `CommitStatus` each.
* `commitBlock` begins the commit when the block has a result, which may be
  before the last handlers of the execution have returned. The composition lets
  them end first (`ExecutionQuiet`). The joins are separate objects; what this
  leaves out is a second run of the callback of `batchGetHashes` beside a commit,
  which appends the receipts to `m_block` again (`BlockExecutive.cpp:506-509`) and
  replaces `m_result` while the prewrite reads the block. `OneRoot` is about its
  cause.

### SchedulerPipeline

* `executing` and `committing` are the two mutexes, with the block and the
  callback their holder has reached. A failed `try_lock` answers an error and
  changes nothing, so it is no action; before it answers, `commitBlock` asserts
  that `m_blocks` is not empty (`SchedulerImpl.cpp:137`), which can fail while a
  commit that will find it empty holds the mutex. The mutexes are `unique_lock`s
  owned by the callbacks: a callback that is dropped without being called (after a
  rollback, a DAG phase that never ends its count, or an exception in the first
  batch) is destroyed with the last handler that holds it, and unlocks.
  `ExecuteFails` and `CommitFails` stand for both.
* From the second batch on the callback is owned by `recursionCallback`, which
  captures the shared pointer to itself (`BlockExecutive.cpp:454-456`): an
  exception then leaves it neither called nor destroyed, and `m_executeMutex`
  locked. This is `ExecuteThrows`, with the phase `leaked`.
* `ExecuteBlock` is the branch that appends; a number within the list is answered
  from it and any other one is refused, without effect. `ExecuteResult` sets
  `m_result`, and `ExecuteStore` and `ExecuteUnlock` are the callback that
  follows: commits may come between them.
* `CommitLock` takes the mutex, `CommitRefuse` and `CommitStart` look at the list
  later: nothing but the mutex keeps it in place between the two.
* The collector asks the ledger for several things at once, and for the hash from
  the handler of the number, before that handler collects (`AskHash`,
  `QueryAnswer`). `Collect` is the comparison and the callback.
* The storage commits before the executors: `CommitPartly` is a commit of the
  storage after which an executor failed. The caller is told of an error, and the
  block stays in the list and can be committed again, as it does after an error of
  the ledger in `Collect`.
* Overlapping handlers run a callback twice. `CallbackRepeats` stands for that in
  `asyncExecute` and `asyncCommit` (and for a second phase ordered twice), `Collect`
  finds it in the collector. Both set `repeated`; no block is accepted or removed
  and no commit begins after that, because what the code then does is not followed
  (section 5).
* `commits`, `misreported` (committed by the storage though the caller was told of
  an error) and `failed` are histories for the properties.

## 3. Runs

| Run | Checks | Bounds, and why they are enough |
|---|---|---|
| `keylocks` | `KeyLockTypeOK`, `MutualExclusion`, `NoSelfWait`, `SearchIsExact`, `TableSpec` | 3 contexts, 3 keys, 2 frames, at most `MaxEdges` = 6 edges: re-entrant holders, two waiters on a lock, batch acquisitions that fail half-way, cycles of two and three, tails that lead into a cycle |
| `dmt_pair` | `TypeOK`, `OneContextPerContract`, `MessagePresent`, `ReceiptsComplete`, `WalkOnce` | 2 transactions, 2 contracts, 2 frames, all DAG outcomes, creations, reverts, errors, executors that report foreign keys |
| `dmt_reentrant` | `LocksFresh`, `NoUnexpectedKeyLock`, `CallStackAgrees`, `HoldersLive`, `Termination` | 2 transactions of up to 3 frames, so that A calls B calls A; calls and reverts; with fairness |
| `dmt_three` | `RequestsCurrent`, `StallFindsVictim`, `StallsResolved` | 3 transactions on 3 contracts: deadlocks of two and of three |
| `executors_threads` | `ManagerTypeOK`, `DispatchesRegistered`, `ExactUnlessRaced`, `Sticky` | 2 callers, 2 contracts, 3 executors: races, removals that fail after them, the exception of a dispatch and the emptied queue |
| `lifecycle` | `TypeOK`, `JoinsDeliverAll`, `JoinsDeliverOnce`, `JoinsDeliver`, `ShortDAGStops`, `RootComplete`, `CommitAtomic`, `CommittedWasAgreed`, `ExecutionEnds`, `CommitEnds` | 2 executors of which any may register late, 2 DAG contracts with 2 and 1 messages, every call failing or not, all orders of handlers: two is the number at which handlers overlap, and an answer can be short, empty or complete |
| `pipeline` | `TypeOK`, `Consecutive`, `CommitsFront`, `ExecutesLast`, `ResultUnlessFailed`, `CommittedOnce`, `RefinesChain`, `MutexesReleased` | 3 blocks, each committed at most `MaxCommits` = 2 times, 3 queries: one block executes and one commits beside a third in the list, a list that empties and fills again, a commit repeated after an executor failed or the configuration was not read |

One lockable key for each contract is enough in the `dmt` runs: two locks of a
deadlock are keys of two contracts, and `keylocks` covers several keys.
`MaxSeq` bounds the frames of a transaction (the code has no bound), `NumTx` the
transactions. Deadlock checking is on in the lock, batch and dispatch runs;
`Ended` is the explicit end of a block. It is off in the lifecycle and the
pipeline, which may stop: a block ends, consensus sends no more blocks, and a
fan-out without executors or a second run of a callback is not followed.

Five runs show that the code does not do what its comments or tests say:

* `dmt_call`: a static call has `m_startContextID # 0`. Locks are registered
  under the message's contextID and asked for under the state's, so a call that
  has locked a key and enters the contract again waits forever for itself.
  `tests/testScheduler.cpp:279-283` requires the callback to get a receipt.
* `dmt_create2`: "Check if another context processing same contract"
  (`BlockExecutive.cpp:771`) runs before the address of a created contract is
  known. In the run one transaction has created a contract with CREATE2 and holds a
  lock there; another one, whose CREATE2 came to the same address, waits for it.
  In the batch in which that wait is granted and its message sent to the contract
  again (its key in the map is still the empty address, so it is visited early),
  the CREATE2 of a third transaction with the same sender, code and salt resolves
  to the same address and is sent too.
* `executors_race`: two callers that both miss a contract get two executors;
  `tests/testExecutorManager.cpp:73-74` requires one.
* `lifecycle_dag`: the handler of a DAG answer subtracts its messages from
  `totalCount` before it stores them; another handler can find 0 in between and
  start the batches, whose `assert(message)` then fails (`MessagesStored`).
* `lifecycle_root`: the handler of a hash counts its answer before it adds the
  hash; another one can complete the join in between and answer a header whose
  root lacks it. The first handler completes the join again and answers another
  root (`OneRoot`), where `testScheduler.cpp:456` requires a block that is asked
  for again to have the root it had. `RootComplete`, in `lifecycle`, says that
  the last header answered is right.

### Fairness

In `DMTExecute`, `Fairness` is weak fairness of the scheduler's own steps, and of
each executor's answer. The first holds because a walk is a plain loop in one
thread and `checkBatch` is called in the thread that made it possible; the second
is what the scheduler assumes of executors: there are no timeouts, an answer that
never comes stops the block.

`BlockLifecycle` and `SchedulerPipeline` assume the same in a weaker form: as long
as a call is unanswered or a handler is inside, some such step is taken. Nothing
is assumed about registrations and about the calls of consensus. The liveness
properties name what keeps a caller without an answer, or a mutex locked, though
everybody answers:

* `ExecutionEnds`: no executor is registered (the loop makes no call, and a static
  call uses a null pointer), a DAG answer lacks messages, the assertion of the
  first batch fails, a walk throws, a static call waits for itself, or a stage was
  started twice;
* `CommitEnds`: a rollback has ended, whose success is not reported
  (`BlockExecutive.cpp:237`). Once a commit is ordered, its caller is answered;
* `MutexesReleased`: the execution has leaked its callback, or a callback of the
  commit runs twice.

## 4. Proofs

`GraphKeyLocksProofs`, for any contexts, contracts, keys and frames:

* `KeyLockCorrect`, and its parts `KeyLockTypeCorrect` and
  `NoContextWaitsForItself`: `KeyLockInv` (types, one owner, a vertex exactly with an
  edge, which is `VertexHasEdge`, no wait for an own lock) is inductive as it
  stands; one lemma for each operation. The failed batch acquisition is the only one where exclusion needs
  the free subset to be acquired first.
* `KeyLockRefinesTable`: the graph implements `KeyLockTable`. Exclusion makes
  `OwnerOf` well defined; an acquisition maps to `Take`, a release to `Drop` of
  the locks no other frame of the context holds, a wait to a stutter. It assumes
  `NoOwnerAssumption`.
* `GroupHasVictim`: a set of contexts that each wait for a member contains one
  that `detectDeadLock` reports. The in-degree test loses nothing, since a
  context that is waited for holds a lock and then has a vertex.
* `SearchCorrect`: the search gives the answer of `DetectDeadLock`, in any order of
  edges. `SearchInv` says that the stack is a path from the context over the gray
  vertexes (`StackInv`), and, until a back edge is met, that the black vertexes are
  closed under out-edges and contain no trap (`NoCycleInv`). A trap is a set of
  vertexes that each have an out-edge into the set: that a cycle can be reached is
  said without paths, so no induction over their length is needed. Blackening a
  vertex whose targets are all black makes no trap; a back edge makes the stack
  one (`CycleInv`). It assumes `VertexAssumption` (a vertex is a context or a lock).
* `SearchKeepsGraph`: with searches between its operations the graph still
  implements `KeyLockSpec`, so what is proved of the graph holds beside them.

`DMTExecuteProofs`, for any number of transactions, contracts, keys and frames
and any answers of the executors (dishonest ones, CREATE2 and static calls
included), from `ConstantsAssumption`. The inductive invariant `Inv` adds to `TypeOK`

* `FramesInv`: the scheduler's call stack, the messages and the executors' frames
  agree. They agree exactly only while a message is at an executor (`SentOK`). A
  message that waits to be sent (`MsgOK`) is off by one frame: a request has its
  frame still to be pushed, and a return has its frame still on the scheduler's
  stack. `CallStackAgrees` alone is not inductive for that reason;
* `BatchInv`: `received` plus the messages at executors is `total`, and a state
  without a message is at an executor unless one answered an error;
* `SkipInv`: one state for each contract is marked, and marks are gone when the
  walk that follows the batch is over;
* `NothingSent`: as long as nothing was sent all states that were visited wait for
  a key lock;
* `KeyLockInv` of the lock graph.

From it follow `TypeCorrect`, `MessagesPresent`, `ReceiptsCorrect`, `StacksAgree`
and the action property `WalksOnce`. One lemma for each send, answer and visit shows what it does to one transaction
(`Sendable`, `Answerable`), so the invariant is a statement about each transaction
and a count of them. The operations of the lock graph are proved again for the
contexts of a block (`LockContexts`): a theorem of an extended module is not
available about an instance with other parameters.
`BatchesUseKeyLocks` says that this is the same graph: the batches implement
`KeyLockSpec` of the instance, each step being one of its operations, with
arguments in its domains, or leaving it alone.

`DMTLockProofs`:

* `LockListsExact`: what a list of locked keys says is kept by `WalkInv` and
  `FreshInv`: only an acquisition for the same contract could change it, and
  `calledContract` has that contract from the moment the list is made.
* `NoLockOutlivesItsFrame` and `NoStaleRequest`, from `LockInv`. A return is in a
  state before its locks are released: `ReleasedInv` says that it is then one that
  the release walk has still to visit (`Fresh`). A request edge outlives the wait
  of an aborted frame until the revert is released (`RequestOK`).
* `StallsFindVictim`: `StallInv` says that all states passed by a walk that sent
  nothing wait for a lock of another, live transaction. With `LockInv` the
  unfinished transactions are a set of contexts that wait for each other, and the
  argument of `GroupHasVictim` gives one that `detectDeadLock` reports; the walk
  has not passed it.
* `OneVictim` and `StallsAreResolved` (`StallsResolved`): only a search marks a transaction, a mark goes
  only with the message that tells the waiting frame to revert, and no batch is
  empty while there is a mark, because `NothingSent` makes all passed states wait
  (`MarkStep`, `StallBegins`). So no two batches in a row send nothing. This is the
  safety part of `Termination`; that the abort ends the wait of another transaction
  in the end is left to TLC.

`NoLockOutlivesItsFrame`, `NoStaleRequest`, `StallsFindVictim` and
`StallsAreResolved` are stated for `m_startContextID = 0`, which is what
`SchedulerImpl` passes for a block (`SchedulerImpl.cpp:98`). A static call has
another start and run `dmt_call` shows that it can wait for itself.

`DMTContractProofs`:

* `OneTransactionPerContract`, if no contract is created with a salt: `AddressInv`
  says that every address in a message or frame of a transaction is a deployed
  contract or one that the transaction created itself, and `NewAddressInjective`
  that no two transactions create the same. Run `dmt_create2` shows that the
  restriction is needed.
* `NoKeyLockSurprise`, for a block without CREATE2 and with `Honest` executors:
  `SettleInv` says that transactions that are at an executor, or have reported keys
  not acquired yet, are at different contracts of `calledContract`, and that no
  other transaction owns what they reported. Run `dmt_pair` reaches the exception
  with executors that are not honest.

`ExecutorManagerProofs`, for any threads, contracts and executors, from
`ManagerAssumption`:

* `ManagerTypeCorrect`, with `AskedOK` (a thread inside the function has a
  contract) as the strengthening.
* `DispatchRegisteredCorrect`: the map leads to registered executors only;
  the strengthening is that only registered ones are in the queue.
* `StickyCorrect`: the action property, with races and removals.
* `SerialCorrect`: map, contract sets and queue agree as long as no contract was
  raced for, and a contract that was not raced for keeps its executor in any
  case. `MissInv` is the strengthening: a thread that has missed a contract which
  is not in `raced` is the only one and still finds no entry. The run
  `executors_race` shows that the restriction is needed.

`SchedulerPipelineProofs`, for any block numbers above 0, any queries and any bound
on commits, from `PipelineAssumption`. `PipelineInv` consists of

* `Numbered`: `Consecutive`, counted from the front, so that an append and a pop
  keep it without an induction over the list;
* `CommitsFront` and `ExecutesLast`, which hold each other up: a commit begins
  only with a result, and the block that executes has none, so the pop never
  takes it;
* `Collecting`: the collector's callback is outstanding only for the commit that
  holds the mutex, so `Collected` moves on the right block;
* `ExecutesNew` and `CommittedOld`: the block that executes is after all others,
  and a committed block is not after the front, or was executed if the list is
  empty. `Acceptable` keeps the chain in order only because of this: with an
  empty list it looks at `m_lastExecutedBlockNumber` alone, which is stored after
  the result is visible;
* `CommitBounded`, about the bound of the model.

From it follow `PipelineTypeCorrect`, `ConsecutiveCorrect`, `CommitsFrontCorrect`,
`ExecutesLastCorrect`, and `PipelineRefinesChain`: `ExecuteBlock` maps to
`Execute`, `CommitDone` and `CommitPartly` to `Commit`, `Remove` to `Forget`, all
else to a stutter.
`ResultCorrect` adds `HasResultOrReason` (a block without a result executes or has
failed), `CommittedOnceCorrect` adds `BehindFront` (a block that was committed and
is not at the front has left the list, or is in `misreported`). It says that the
storage commits a block again only if an earlier caller was told of an error, and
leaves out a second phase that is ordered twice (`repeated`).

`BlockLifecycleProofs`, for any finite set of executors and any DAG, from
`FanOutAssumption`:

* `JoinsDeliverAllCorrect`: `JoinInv` says that counts are answers to calls and
  that no answer is counted twice. Then the sum of the counters is the number of
  participants that have answered (`CompleteMeansAll`, by the cardinality of a
  disjoint union), and if it reaches an exact total all have.
* `CommitAtomicCorrect`: `StorageFirst` (while the storage has not answered, nobody
  else was called and nothing was delivered) allows calls to be added to the join
  after it began; the rest follows from `JoinInv` of the first phase.

`BlockStagesProofs`, from the same assumption. `StagesInv` adds to the invariant
above

* `HandlersInv`, about the handlers of one join: without an overlap one handler at
  a time is between its count and its comparison, and one that has delivered was
  the last. The last handler delivers because the total is not more than the calls
  (`TotalInv`); in the commit the total is computed before the executors are
  called, and this holds because executors only register;
* `StartInv`, `HashInv`, `ResultInv`: each stage has begun only if the one before
  it was answered by all it called without an error, and calls at least the
  executors that `batchNextBlock` had called. The XOR holds the hashes of all
  handlers that have compared the counters.

From it follow `JoinsDeliverOnceCorrect`, `JoinsDeliverCorrect`,
`RootCompleteCorrect` and `CommittedWasAgreedCorrect`. From `DAGAssumption` too:

* `LifecycleTypeCorrect` and `ShortDAGStopsCorrect`, from `DAGInv`: once the calls are
  made `totalCount` is the cardinality of `Outstanding`, the messages of `Requests`
  that no answer has given back. A subtraction removes the messages of one contract
  from that set, so the unsigned counter does not wrap, and the last message of a
  short answer stays in it. The cardinality of a set takes the place of a sum over
  the contracts, whose laws would need an induction.
* `AssertionNeedsRace`, `OneRootWithoutOverlap`, `StartedOnceWithoutOverlap`: the
  races of `lifecycle_dag` and `lifecycle_root` are the only way to what those runs
  show. The assertion of the first batch fails only while another handler is
  between its subtraction and its store; without two handlers of `batchGetHashes`
  between count and comparison there is one root, over all executors asked; and
  without such an overlap in `batchNextBlock` the batches of a block without a DAG
  phase are started once (`RaceInv`).

Only model-checked: the liveness properties `Termination`, `ExecutionEnds`,
`CommitEnds` and `MutexesReleased`, since liveness under fairness is out of the
prover's reach. Every invariant and every action property of a passing run is the
subject of a theorem. Assumptions on the constants are evaluated by TLC.

## 5. Not modelled, and plan

Not modelled:

* what follows a second run of a callback. In an execution: a second start of the
  DAG phase or of the batches over the same states, a second `m_result`, and a
  second `m_lastExecutedBlockNumber.store`. In a commit: a second phase ordered
  twice, and after a second report of `asyncCommit` or of the collector a second
  `asyncGetLedgerConfig` and a second `pop_front`, which may take a block that was
  not committed (`SchedulerImpl.cpp:198-250`). `executeLock->unlock()` and
  `commitLock->unlock()` throw when they run a second time, because the lock is
  not owned any more. The properties of the pipeline hold up to that point;
* a registration between the total and the calls of `batchNextBlock`,
  `batchGetHashes` or `batchBlockRollback`, which iterate a concurrent container;
* the two spellings of a created contract's address (`ChecksumAddress`,
  `preprocessAddress`): the model numbers addresses;
* block 0, which `m_lastExecutedBlockNumber = 0` cannot tell from no block;
* what consensus does in its callbacks, of which one runs with both locks held
  (`SchedulerImpl.cpp:93`);
* answers of `DAGExecute` with more messages than were sent: `totalCount`, which is
  reduced before the sizes are compared (`BlockExecutive.cpp:414-422`), would wrap;
* the empty functions (`status`, `unregisterExecutor`, `reset`), formatting, gas,
  receipts and logging.

Further work, in this order: that an abort frees a lock some transaction waits for
(the rest of the argument for `Termination` that can be stated without fairness);
addresses and their spellings; the second run of a callback followed into the list
of blocks.
