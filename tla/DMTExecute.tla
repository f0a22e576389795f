----------------------------- MODULE DMTExecute -----------------------------
(***************************************************************************)
(* How a block's transactions are executed in batches (BlockExecutive:     *)
(* DMTExecute, startBatch, checkBatch, traverseExecutive).                 *)
(*                                                                         *)
(* A batch walks through the executive states, one per unfinished          *)
(* transaction, in the order of the map key (contract, contextID), and     *)
(* sends each message to an executor unless the contract it is for was     *)
(* called in this batch already.  Answers arrive from other threads in any *)
(* order, during the walk too.  When all have arrived, one thread walks    *)
(* the states again to update the key locks, or, if nothing could be sent, *)
(* to abort a transaction of a deadlock, and the next batch starts.        *)
(*                                                                         *)
(* The executors are not part of the repository; they are modelled from    *)
(* what the scheduler relies on: a stack of call frames per transaction,   *)
(* each of which calls other contracts, finishes, reverts or asks for a    *)
(* key lock that the scheduler told it another transaction holds.          *)
(***************************************************************************)
EXTENDS Naturals, Sequences, SequencesExt

CONSTANTS NumTx,            \* transactions in the block
          NumContracts,     \* deployed contracts
          Keys,             \* lockable keys of a contract
          MaxSeq,           \* bound: a transaction has at most MaxSeq + 1 call frames
          m_startContextID, \* offset of the contextID written into messages
          TopType,          \* "TXHASH" (block with metadata) or "MESSAGE"
          DAGResults,       \* what the DAG phase left: subset of {"NONE", "SEND_BACK", "FINISHED"}
          Replies,          \* the kinds of answer executors give besides FINISHED and KEY_LOCK
          Honest,           \* executors touch no key that is listed in keyLocks
          NoKey             \* "no key lock is asked for"

ASSUME ConstantsAssumption ==
    /\ NumTx \in Nat /\ NumContracts \in Nat /\ MaxSeq \in Nat
    /\ m_startContextID \in Nat
    /\ TopType \in {"TXHASH", "MESSAGE"}
    /\ DAGResults \subseteq {"NONE", "SEND_BACK", "FINISHED"}
    /\ Replies \subseteq {"CALL", "CREATE", "CREATE2", "REVERT", "ERROR"}
    /\ Honest \in BOOLEAN
    /\ NoKey \notin Keys

VARIABLES m_executiveStates,  \* contextID -> executive state, for unfinished transactions
          m_executiveResults, \* contextIDs that have a receipt
          todo,               \* states the current walk has still to visit
          calledContract,     \* contracts called in the current batch
          batchStatus,        \* counters of the current batch
          checkers,           \* checkBatch calls about to be made for the current batch
          phase,              \* what the block's execution is doing
          m_vertexes, own, request, \* m_keyLocks
          atExecutor,         \* contextID -> the message its executor works on
          frames              \* contextID -> the executors' stack of call frames

lockVars == <<m_vertexes, own, request>>
batchVars == <<calledContract, batchStatus, checkers>>
executorVars == <<atExecutor, frames>>
vars == <<m_executiveStates, m_executiveResults, todo, batchVars, phase, lockVars, executorVars>>

-----------------------------------------------------------------------------
(* Addresses are numbers, ordered as the map orders its string keys.       *)

TxIDs == 0 .. NumTx - 1
Seqs == 0 .. MaxSeq
Contracts == 1 .. NumContracts
NoAddress == 0                       \* the empty string, least of all

\* newEVMAddress: a hash of its arguments, so injective in (contextID, seq)
\* and, with a salt, the same for the same sender, code and salt.
NewAddress(ctx, seq) == NumContracts + 1 + ctx * (MaxSeq + 1) + seq
SaltedAddress(sender) == NumContracts + NumTx * (MaxSeq + 1) + sender

Addresses == NoAddress .. (2 * NumContracts + NumTx * (MaxSeq + 1))

m_keyLocks == INSTANCE GraphKeyLocks
                WITH ContextIDs <- 0 .. (NumTx - 1 + m_startContextID),
                     Contracts <- Addresses

RequestType == {"TXHASH", "MESSAGE"}
ReturnType == {"FINISHED", "REVERT"}
MessageType == RequestType \cup ReturnType \cup {"KEY_LOCK", "REVERT_KEY_LOCK", "SEND_BACK"}

Message == [type : MessageType, from : Addresses, to : Addresses, seq : Seqs,
            createSalt : BOOLEAN, keyLocks : SUBSET Keys, keyLockAcquired : Keys \cup {NoKey}]

NoMessage == [type |-> "NULL"]

ExecutiveState == [key : Addresses, callStack : Seq(Seqs), currentSeq : Nat,
                   message : Message \cup {NoMessage}, skip : BOOLEAN]

Frame == [seq : Seqs, contract : Addresses]

BatchStatus == [total : 0 .. NumTx, received : 0 .. NumTx, error : 0 .. NumTx,
                allSended : BOOLEAN, callbackExecuted : BOOLEAN]

Phases == {"send", "wait", "deadlock", "locks", "done", "failed", "thrown"}

TypeOK ==
    /\ DOMAIN m_executiveStates \subseteq TxIDs
    /\ \A i \in DOMAIN m_executiveStates : m_executiveStates[i] \in ExecutiveState
    /\ m_executiveResults \subseteq TxIDs
    /\ todo \subseteq DOMAIN m_executiveStates
    /\ calledContract \subseteq Addresses
    /\ batchStatus \in BatchStatus
    /\ checkers \in 0 .. NumTx + 1
    /\ phase \in Phases
    /\ m_keyLocks!KeyLockTypeOK
    /\ DOMAIN atExecutor \subseteq DOMAIN m_executiveStates
    /\ \A i \in DOMAIN atExecutor : atExecutor[i] \in Message
    /\ frames \in [TxIDs -> Seq(Frame)]

-----------------------------------------------------------------------------
(* asyncExecute fills the states; transactions the DAG phase ran have had  *)
(* frame 0 pushed and hold the executor's answer.  withDAG is not reset    *)
(* between transactions: those after the first DAG one are DAG ones too.   *)

FirstMessage(type, to) ==
    [type |-> type, from |-> NoAddress, to |-> to, seq |-> 0, createSalt |-> FALSE,
     keyLocks |-> {}, keyLockAcquired |-> NoKey]

FirstState(dag, to) ==
    [key        |-> to,
     callStack  |-> IF dag = "NONE" THEN <<>> ELSE <<0>>,
     currentSeq |-> IF dag = "NONE" THEN 0 ELSE 1,
     message    |-> FirstMessage(IF dag = "NONE" THEN TopType ELSE dag, to),
     skip       |-> FALSE]

FreshBatch == [total |-> 0, received |-> 0, error |-> 0,
               allSended |-> FALSE, callbackExecuted |-> FALSE]

Init ==
    /\ \E to \in [TxIDs -> Contracts \cup {NoAddress}], dag \in [TxIDs -> DAGResults] :
          /\ \A i, j \in TxIDs : i < j /\ dag[i] # "NONE" => dag[j] # "NONE"
          /\ m_executiveStates = [i \in TxIDs |-> FirstState(dag[i], to[i])]
    /\ m_executiveResults = {}
    /\ todo = TxIDs
    /\ calledContract = {}
    /\ batchStatus = FreshBatch
    /\ checkers = 0
    /\ phase = "send"
    /\ m_keyLocks!KeyLockInit
    /\ atExecutor = << >>
    /\ frames = [i \in TxIDs |-> <<>>]

-----------------------------------------------------------------------------
(* traverseExecutive: the walk.  UPDATE takes a state out of the map and   *)
(* re-inserts it under its new key when the walk is over; as the walk does *)
(* not come back to it, the key is changed at once here.                   *)

Before(i, j) ==
    LET k(x) == m_executiveStates[x].key IN k(i) < k(j) \/ (k(i) = k(j) /\ i <= j)

Current(i) == i \in todo /\ \A j \in todo : Before(i, j)

SameKey(i) == {j \in todo : m_executiveStates[j].key = m_executiveStates[i].key}

\* An entry is erased, or a message is put at an executor.
Without(f, i) == Restrict(f, DOMAIN f \ {i})
With(f, i, x) == [j \in DOMAIN f \cup {i} |-> IF j = i THEN x ELSE f[j]]

-----------------------------------------------------------------------------
(* startBatch: the walk that sends.                                        *)

Visiting(i) == phase = "send" /\ Current(i)

\* Mutant: the contracts called in the batch are not looked at.
NeverSkipped(i) == FALSE

Skipped(i) ==
    LET to == m_executiveStates[i].message.to IN to # NoAddress /\ to \in calledContract

VisitSkip(i) ==
    /\ Visiting(i)
    /\ Skipped(i)
    /\ m_executiveStates' = [m_executiveStates EXCEPT ![i].skip = TRUE]
    /\ todo' = todo \ SameKey(i)
    /\ UNCHANGED <<m_executiveResults, batchVars, phase, lockVars, executorVars>>

\* The address of the contract that a message creates is fixed when it is sent.
ResolveTo(i, message, seq) ==
    IF message.to # NoAddress THEN message.to
    ELSE IF message.createSalt THEN SaltedAddress(message.from)
    ELSE NewAddress(i, seq)

\* Mutant: only requests get the list of locked keys.
StaleLockedKeys(i, message) ==
    IF message.type \in RequestType
    THEN m_keyLocks!GetKeyLocksNotHoldingByContext(message.to, i)
    ELSE message.keyLocks

LockedKeys(i, message) == m_keyLocks!GetKeyLocksNotHoldingByContext(message.to, i)

\* The common tail: mark the contract as called, list the keys that other
\* contexts hold there and move the message to the executor.
Dispatch(i, state, message) ==
    /\ m_executiveStates' = [m_executiveStates EXCEPT ![i] = [state EXCEPT !.message = NoMessage]]
    /\ atExecutor' = With(atExecutor, i, [message EXCEPT !.keyLocks = LockedKeys(i, message)])
    /\ calledContract' = calledContract \cup {message.to}
    /\ batchStatus' = [batchStatus EXCEPT !.total = @ + 1]
    /\ todo' = todo \ {i}
    /\ UNCHANGED <<m_executiveResults, checkers, phase, frames>>

\* Mutant: incremented before it is used.
NewSeqIncremented(state) == state.currentSeq + 1

NewSeq(state) == state.currentSeq

VisitRequest(i) ==
    /\ Visiting(i)
    /\ ~Skipped(i)
    /\ m_executiveStates[i].message.type \in RequestType
    /\ LET state == m_executiveStates[i]
           newSeq == NewSeq(state)
       IN  Dispatch(i, [state EXCEPT !.currentSeq = @ + 1,
                                     !.callStack = Append(@, newSeq)],
                    [state.message EXCEPT !.seq = newSeq,
                                          !.to = ResolveTo(i, state.message, newSeq)])
    /\ UNCHANGED lockVars

\* Mutant: the stack is not asked.
AnyFrameIsLast(i) == TRUE

IsLastFrame(i) == Len(m_executiveStates[i].callStack) = 1

\* FINISHED or REVERT of the transaction's first frame: the receipt.
VisitFinish(i) ==
    /\ Visiting(i)
    /\ ~Skipped(i)
    /\ m_executiveStates[i].message.type \in ReturnType
    /\ IsLastFrame(i)
    /\ m_executiveResults' = m_executiveResults \cup {i}
    /\ m_executiveStates' = Without(m_executiveStates, i)
    /\ todo' = todo \ {i}
    /\ UNCHANGED <<batchVars, phase, lockVars, executorVars>>

\* Mutant: the seq of the frame that ended.
EndedSeq(callStack) == Last(callStack)

CallerSeq(callStack) == Last(Front(callStack))

\* FINISHED or REVERT of a called frame: back to the frame below it.
VisitReturn(i) ==
    /\ Visiting(i)
    /\ ~Skipped(i)
    /\ m_executiveStates[i].message.type \in ReturnType
    /\ ~IsLastFrame(i)
    /\ LET state == m_executiveStates[i]
       IN  Dispatch(i, [state EXCEPT !.callStack = Front(@)],
                    [state.message EXCEPT !.seq = CallerSeq(state.callStack)])
    /\ UNCHANGED lockVars

\* Mutant: the victim's message goes out with its mark, not as a REVERT.
VisitRevertUntyped(i) ==
    /\ Visiting(i)
    /\ ~Skipped(i)
    /\ m_executiveStates[i].message.type = "REVERT_KEY_LOCK"
    /\ Dispatch(i, m_executiveStates[i], m_executiveStates[i].message)
    /\ UNCHANGED lockVars

\* The victim of a deadlock: its waiting frame is told to revert.
VisitRevertKeyLock(i) ==
    /\ Visiting(i)
    /\ ~Skipped(i)
    /\ m_executiveStates[i].message.type = "REVERT_KEY_LOCK"
    /\ Dispatch(i, m_executiveStates[i], [m_executiveStates[i].message EXCEPT !.type = "REVERT"])
    /\ UNCHANGED lockVars

VisitAcquire(i) ==
    /\ Visiting(i)
    /\ ~Skipped(i)
    /\ LET message == m_executiveStates[i].message
       IN  /\ message.type = "KEY_LOCK"
           /\ m_keyLocks!AcquireOwns(message.from, message.keyLockAcquired, i, message.seq)
           /\ Dispatch(i, m_executiveStates[i], message)

VisitWait(i) ==
    /\ Visiting(i)
    /\ ~Skipped(i)
    /\ LET message == m_executiveStates[i].message
       IN  /\ message.type = "KEY_LOCK"
           /\ m_keyLocks!AcquireWaits(message.from, message.keyLockAcquired, i, message.seq)
    /\ todo' = todo \ {i}
    /\ UNCHANGED <<m_executiveStates, m_executiveResults, batchVars, phase, executorVars>>

\* Sent back by the DAG phase: sent again, its frame is on the stack already.
VisitSendBack(i) ==
    /\ Visiting(i)
    /\ ~Skipped(i)
    /\ LET message == m_executiveStates[i].message
       IN  /\ message.type = "SEND_BACK"
           /\ Dispatch(i, m_executiveStates[i],
                       [message EXCEPT !.type = TopType,
                                       !.to = ResolveTo(i, message, message.seq)])
    /\ UNCHANGED lockVars

\* The walk is over; startBatch calls checkBatch itself.
EndSend ==
    /\ phase = "send"
    /\ todo = {}
    /\ batchStatus' = [batchStatus EXCEPT !.allSended = TRUE]
    /\ checkers' = checkers + 1
    /\ phase' = "wait"
    /\ UNCHANGED <<m_executiveStates, m_executiveResults, todo, calledContract, lockVars, executorVars>>

-----------------------------------------------------------------------------
(* The executor (external) and executeCallback, which runs in its thread.  *)

\* The frames once the executor has seen message m: a request opens one.
Opened(i, m) ==
    IF m.type \in RequestType
    THEN Append(frames[i], [seq |-> m.seq, contract |-> m.to])
    ELSE frames[i]

\* A frame told to revert while it waits for a key lock.
Aborted(m) == m.type = "REVERT" /\ m.keyLockAcquired # NoKey

\* The keys of its contract that a frame may have touched and reports.
Touched(m) == SUBSET (IF Honest THEN Keys \ m.keyLocks ELSE Keys)

Response(m, type, to, createSalt, keyLocks, keyLockAcquired) ==
    [type |-> type, from |-> m.to, to |-> to, seq |-> m.seq, createSalt |-> createSalt,
     keyLocks |-> keyLocks, keyLockAcquired |-> keyLockAcquired]

\* executeCallback: store the answer and count it; then checkBatch is called.
ExecuteCallback(i, response, errors) ==
    /\ m_executiveStates' = [m_executiveStates EXCEPT ![i].message = response]
    /\ atExecutor' = Without(atExecutor, i)
    /\ batchStatus' = [batchStatus EXCEPT !.received = @ + 1, !.error = @ + errors]
    /\ checkers' = checkers + 1
    /\ UNCHANGED <<m_executiveResults, todo, calledContract, phase, lockVars>>

\* The frame calls a contract (to, createSalt) or creates one.
Callees(m) ==
    (IF "CALL" \in Replies THEN Contracts \X {FALSE} ELSE {})
      \cup (IF "CREATE" \in Replies THEN {<<NoAddress, FALSE>>} ELSE {})
      \cup (IF "CREATE2" \in Replies /\ m.to \in Contracts THEN {<<NoAddress, TRUE>>} ELSE {})

RespondCall(i) ==
    /\ i \in DOMAIN atExecutor
    /\ m_executiveStates[i].currentSeq <= MaxSeq
    /\ LET m == atExecutor[i]
       IN  /\ ~Aborted(m)
           /\ \E callee \in Callees(m), locks \in Touched(m) :
                 ExecuteCallback(i, Response(m, "MESSAGE", callee[1], callee[2], locks, NoKey), 0)
           /\ frames' = [frames EXCEPT ![i] = Opened(i, m)]

\* The frame ends; the answer goes to the contract of the frame below.
RespondReturn(i) ==
    /\ i \in DOMAIN atExecutor
    /\ LET m == atExecutor[i]
           left == Front(Opened(i, m))
           to == IF left = <<>> THEN m.to ELSE Last(left).contract
       IN  /\ \E type \in IF Aborted(m) THEN {"REVERT"} ELSE {"FINISHED"} \cup (Replies \cap {"REVERT"}) :
                 ExecuteCallback(i, Response(m, type, to, FALSE, {}, NoKey), 0)
           /\ frames' = [frames EXCEPT ![i] = left]

\* The frame needs a key that another transaction holds.
RespondKeyLock(i) ==
    /\ i \in DOMAIN atExecutor
    /\ LET m == atExecutor[i]
       IN  /\ ~Aborted(m)
           /\ \E key \in m.keyLocks, locks \in Touched(m) :
                 ExecuteCallback(i, Response(m, "KEY_LOCK", m.to, FALSE, locks, key), 0)
           /\ frames' = [frames EXCEPT ![i] = Opened(i, m)]

\* An error, or no answer message.
RespondError(i) ==
    /\ "ERROR" \in Replies
    /\ i \in DOMAIN atExecutor
    /\ ExecuteCallback(i, NoMessage, 1)
    /\ UNCHANGED frames

Respond(i) == RespondCall(i) \/ RespondReturn(i) \/ RespondKeyLock(i) \/ RespondError(i)

-----------------------------------------------------------------------------
(* checkBatch: of the calls made for a batch one continues, once every     *)
(* message has been sent and answered.  The calls that come after it find  *)
(* callbackExecuted set, so they are forgotten when the next batch starts. *)

\* Mutant: callbackExecuted is not tested.
BatchReadyAgain ==
    /\ batchStatus.allSended
    /\ batchStatus.received = batchStatus.total

BatchReady ==
    /\ batchStatus.allSended
    /\ batchStatus.received = batchStatus.total
    /\ ~batchStatus.callbackExecuted

CheckNotReady ==
    /\ checkers > 0
    /\ ~BatchReady
    /\ checkers' = checkers - 1
    /\ UNCHANGED <<m_executiveStates, m_executiveResults, todo, calledContract, batchStatus,
                   phase, lockVars, executorVars>>

\* Mutant: errors of the batch are ignored.
WalkDespiteErrors ==
    IF DOMAIN m_executiveStates # {} /\ batchStatus.total = 0 THEN "deadlock" ELSE "locks"

\* An error ends the block; a batch that sent nothing is a deadlock.
AfterBatch ==
    IF batchStatus.error > 0 THEN "failed"
    ELSE IF DOMAIN m_executiveStates # {} /\ batchStatus.total = 0 THEN "deadlock"
    ELSE "locks"

CheckBatch ==
    /\ checkers > 0
    /\ BatchReady
    /\ checkers' = checkers - 1
    /\ batchStatus' = [batchStatus EXCEPT !.callbackExecuted = TRUE]
    /\ todo' = DOMAIN m_executiveStates
    /\ phase' = AfterBatch
    /\ UNCHANGED <<m_executiveStates, m_executiveResults, calledContract, lockVars, executorVars>>

\* Both walks of checkBatch pass over what startBatch skipped.
UpdateSkipped(i) ==
    /\ phase \in {"deadlock", "locks"}
    /\ Current(i)
    /\ m_executiveStates[i].skip
    /\ m_executiveStates' = [m_executiveStates EXCEPT ![i].skip = FALSE]
    /\ todo' = todo \ SameKey(i)
    /\ UNCHANGED <<m_executiveResults, batchVars, phase, lockVars, executorVars>>

(* Nothing was sent: find a context in a deadlock.                         *)

VisitVictim(i) ==
    /\ phase = "deadlock"
    /\ Current(i)
    /\ ~m_executiveStates[i].skip
    /\ m_keyLocks!DetectDeadLock(i)
    /\ m_executiveStates' = [m_executiveStates EXCEPT ![i].message.type = "REVERT_KEY_LOCK"]
    /\ todo' = {}
    /\ UNCHANGED <<m_executiveResults, batchVars, phase, lockVars, executorVars>>

VisitNoVictim(i) ==
    /\ phase = "deadlock"
    /\ Current(i)
    /\ ~m_executiveStates[i].skip
    /\ ~m_keyLocks!DetectDeadLock(i)
    /\ todo' = todo \ {i}
    /\ UNCHANGED <<m_executiveStates, m_executiveResults, batchVars, phase, lockVars, executorVars>>

(* Process the key locks and update the order.                             *)

MessageContextID(i) == i + m_startContextID

Updating(i) == phase = "locks" /\ Current(i) /\ ~m_executiveStates[i].skip

Update(i) == m_executiveStates' =
    [m_executiveStates EXCEPT ![i].key = m_executiveStates[i].message.to]

UpdateAcquire(i) ==
    /\ Updating(i)
    /\ LET message == m_executiveStates[i].message
       IN  /\ message.type \in {"MESSAGE", "KEY_LOCK"}
           /\ m_keyLocks!BatchAcquireOwns(message.from, message.keyLocks,
                                          MessageContextID(i), message.seq)
           /\ IF message.type = "MESSAGE" THEN Update(i) ELSE UNCHANGED m_executiveStates
    /\ todo' = todo \ {i}
    /\ UNCHANGED <<m_executiveResults, batchVars, phase, executorVars>>

\* The exception leaves checkBatch: no callback, no further batch.
UpdateThrows(i) ==
    /\ Updating(i)
    /\ LET message == m_executiveStates[i].message
       IN  /\ message.type \in {"MESSAGE", "KEY_LOCK"}
           /\ m_keyLocks!BatchAcquireThrows(message.from, message.keyLocks,
                                            MessageContextID(i), message.seq)
    /\ phase' = "thrown"
    /\ UNCHANGED <<m_executiveStates, m_executiveResults, todo, batchVars, executorVars>>

\* Mutant: a reverted frame keeps its locks.
ReleaseIfFinished(i, message) ==
    IF message.type = "FINISHED"
    THEN m_keyLocks!ReleaseKeyLocks(MessageContextID(i), message.seq)
    ELSE UNCHANGED lockVars

ReleaseFrame(i, message) == m_keyLocks!ReleaseKeyLocks(MessageContextID(i), message.seq)

UpdateRelease(i) ==
    /\ Updating(i)
    /\ m_executiveStates[i].message.type \in ReturnType
    /\ ReleaseFrame(i, m_executiveStates[i].message)
    /\ Update(i)
    /\ todo' = todo \ {i}
    /\ UNCHANGED <<m_executiveResults, batchVars, phase, executorVars>>

\* The walk is over and the callback runs: DMTExecute starts the next batch,
\* or ends the execution when no state is left.
BatchCallback ==
    /\ phase \in {"deadlock", "locks"}
    /\ todo = {}
    /\ IF DOMAIN m_executiveStates = {}
       THEN /\ phase' = "done"
            /\ UNCHANGED <<todo, batchVars>>
       ELSE /\ phase' = "send"
            /\ todo' = DOMAIN m_executiveStates
            /\ calledContract' = {}
            /\ batchStatus' = FreshBatch
            /\ checkers' = 0
    /\ UNCHANGED <<m_executiveStates, m_executiveResults, lockVars, executorVars>>

-----------------------------------------------------------------------------
Visit(i) ==
    \/ VisitSkip(i) \/ VisitRequest(i) \/ VisitFinish(i) \/ VisitReturn(i)
    \/ VisitRevertKeyLock(i) \/ VisitAcquire(i) \/ VisitWait(i) \/ VisitSendBack(i)
    \/ VisitVictim(i) \/ VisitNoVictim(i)
    \/ UpdateSkipped(i) \/ UpdateAcquire(i) \/ UpdateThrows(i) \/ UpdateRelease(i)

Scheduler == (\E i \in TxIDs : Visit(i)) \/ EndSend \/ CheckNotReady \/ CheckBatch \/ BatchCallback

\* The block was executed, failed, or is abandoned after an exception.
Ended == phase \in {"done", "failed", "thrown"} /\ UNCHANGED vars

Next == Scheduler \/ (\E i \in TxIDs : Respond(i)) \/ Ended

Spec == Init /\ [][Next]_vars

\* The scheduler's threads run on, and executors answer what they were sent.
Fairness == WF_vars(Scheduler) /\ \A i \in TxIDs : WF_vars(Respond(i))

FairSpec == Spec /\ Fairness

-----------------------------------------------------------------------------
(* Properties.                                                             *)

\* Two transactions are never at the same contract at the same time: this is
\* what calledContract is for, also for a contract that is being created.
OneContextPerContract ==
    \A i, j \in DOMAIN atExecutor : atExecutor[i].to = atExecutor[j].to => i = j

\* The list of locked keys an executor works with stays exact while it works:
\* no lock of the contract is taken or given up by another context between
\* the dispatch (getKeyLocksNotHoldingByContext) and the answer.
LocksFresh ==
    \A i \in DOMAIN atExecutor :
       atExecutor[i].keyLocks =
          m_keyLocks!GetKeyLocksNotHoldingByContext(atExecutor[i].to, i)

\* batchAcquireKeyLock never meets a lock of another context, so checkBatch
\* never throws, as long as executors respect the locked keys they are given.
NoUnexpectedKeyLock == phase # "thrown"

\* The scheduler's call stack and the executors' frames agree whenever a
\* message is at an executor: it is addressed to the frame on top, by seq and
\* by contract, so a result returns to the frame that made the call.
CallStackAgrees ==
    \A i \in DOMAIN atExecutor :
       LET m == atExecutor[i]
           open == Opened(i, m)
           callStack == m_executiveStates[i].callStack
       IN  /\ callStack = [n \in DOMAIN open |-> open[n].seq]
           /\ open # <<>>
           /\ Last(open) = [seq |-> m.seq, contract |-> m.to]

\* A lock belongs to a call frame on the stack of an unfinished transaction:
\* no frame's locks outlive it, on return, revert or deadlock abort.
HoldersLive ==
    \A e \in own :
       /\ e.ctx \in DOMAIN m_executiveStates
       /\ \E n \in DOMAIN m_executiveStates[e.ctx].callStack :
             m_executiveStates[e.ctx].callStack[n] = e.seq

\* When nothing could be sent, every request edge is that of the key lock its
\* transaction waits for now, so the search meets no stale edge.
RequestsCurrent ==
    phase = "deadlock" =>
       \A r \in request :
          /\ r.ctx \in DOMAIN m_executiveStates
          /\ LET m == m_executiveStates[r.ctx].message
             IN  /\ m.type \in {"KEY_LOCK", "REVERT_KEY_LOCK"}
                 /\ <<m.from, m.keyLockAcquired>> = r.lock
                 /\ m.seq = r.seq

\* A batch in which nothing could be sent ends with a transaction to abort:
\* detectDeadLock does not miss the deadlock that stopped the batch.
StallFindsVictim ==
    phase = "deadlock" =>
       \E i \in DOMAIN m_executiveStates :
          \/ m_executiveStates[i].message.type = "REVERT_KEY_LOCK"
          \/ i \in todo /\ m_keyLocks!DetectDeadLock(i)

\* The transactions that a search has chosen and no walk has aborted yet.
Marked ==
    {i \in DOMAIN m_executiveStates : m_executiveStates[i].message.type = "REVERT_KEY_LOCK"}

\* In a block no two batches in a row send nothing.  A batch that sends nothing
\* is followed by one that begins with a victim, the victim stays until its
\* waiting frame is told to revert, and while there is one no batch is empty.
StallsResolved ==
    [][/\ phase = "deadlock" /\ phase' # "deadlock" => Marked # {} /\ phase' = "send"
       /\ \A i \in Marked \ Marked' : i \in DOMAIN atExecutor' /\ Aborted(atExecutor'[i])
       /\ phase # "deadlock" /\ phase' = "deadlock" => Marked = {}]_vars

\* A walk finds a message in every state it visits (assert(message) in
\* startBatch): all messages are back before a walk, and none was lost to an
\* error.  A skip mark is left only between the two walks of a batch.
MessagePresent ==
    /\ phase \in {"send", "deadlock", "locks"} =>
          \A i \in todo : m_executiveStates[i].message # NoMessage
    /\ \A i \in todo : m_executiveStates[i].skip => phase \in {"locks", "failed", "thrown"}

\* A transaction is either unfinished or has its receipt, and has its receipt
\* only when its first frame has ended at the executors.
ReceiptsComplete ==
    /\ DOMAIN m_executiveStates = TxIDs \ m_executiveResults
    /\ \A i \in m_executiveResults : frames[i] = <<>>
    /\ phase = "done" => m_executiveResults = TxIDs

\* The walk that follows a batch is not restarted or joined by a second
\* thread (callbackExecuted): it visits each state at most once, and no
\* message is sent before it is over.
WalkOnce ==
    [][(phase \in {"deadlock", "locks"}) =>
          /\ (phase' = phase => todo' \subseteq todo)
          /\ (phase' = "send" => todo = {} /\ DOMAIN atExecutor = {})]_vars

\* The execution of the block ends, with receipts or with an error.
Termination == <>(phase \in {"done", "failed"})
=============================================================================
