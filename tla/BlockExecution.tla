--------------------------- MODULE BlockExecution ---------------------------
(***************************************************************************)
(* The stages of a block's execution around its batches (BlockExecutive:   *)
(* asyncExecute, batchNextBlock, DAGExecute, DMTExecute, batchGetHashes).  *)
(* Each stage is started by the callback of the one before it.  The        *)
(* batches are one stage here; module DMTExecute has their inside.         *)
(***************************************************************************)
EXTENDS FanOut

CONSTANTS DAGContracts,  \* contracts with DAG transactions
          DAGSize        \* contract -> how many

ASSUME DAGAssumption ==
    /\ IsFiniteSet(DAGContracts)
    /\ DAGSize \in [DAGContracts -> Nat \ {0}]

VARIABLES mode,       \* "CALL" (static call), "PLAIN" or "DAG" (withDAG)
          begun,      \* asyncExecute was called
          nextBlock,  \* join of batchNextBlock
          totalCount, \* DAGExecute: messages not yet returned
          dagCalls,   \* DAG contract -> state of its call
          dagStored,  \* DAG contracts whose messages are back in their states
          dagFailed,  \* DAG contracts counted in failed
          dagErrors,  \* results with which DAGExecute ran its callback: is it an error
          dmt,        \* the batches
          hashes,     \* join of batchGetHashes
          totalHash,  \* executors whose hash is in the XOR
          roots,      \* state roots of the headers that were answered
          twice       \* a stage was started a second time; what then happens is not followed

dagVars == <<totalCount, dagCalls, dagStored, dagFailed, dagErrors>>
hashVars == <<hashes, totalHash, roots>>
executionVars == <<mode, begun, nextBlock, dagVars, dmt, hashVars, twice>>

\* The batches end with their callback ("done", "failed") or without one.
DMTStates == {"none", "running", "done", "failed", "asserted", "thrown", "waiting", "null"}

NoCall == [pc |-> "none", error |-> FALSE, size |-> 0]

ExecutionInit ==
    /\ mode \in {"CALL", "PLAIN", "DAG"}
    /\ mode = "DAG" => DAGContracts # {}
    /\ begun = FALSE
    /\ nextBlock = NotBegun
    /\ totalCount = 0
    /\ dagCalls = [c \in DAGContracts |-> NoCall]
    /\ dagStored = {} /\ dagFailed = {} /\ dagErrors = {}
    /\ dmt = "none"
    /\ hashes = NotBegun /\ totalHash = {} /\ roots = {}
    /\ twice = FALSE

\* DMTExecute: assert(message) in the first walk fails if the DAG phase did
\* not give a message back.
StartDMT ==
    /\ dmt' = IF dmt # "none" THEN dmt
              ELSE IF mode = "DAG" /\ dagStored # DAGContracts THEN "asserted"
              ELSE "running"
    /\ twice' = (twice \/ dmt # "none")

-----------------------------------------------------------------------------
(* asyncExecute and batchNextBlock                                         *)

AsyncExecute ==
    /\ ~begun
    /\ begun' = TRUE
    /\ \/ /\ mode = "CALL"
          /\ StartDMT
          /\ UNCHANGED nextBlock
       \/ /\ mode # "CALL"
          /\ nextBlock' = NewJoin("NEXT_BLOCK", Cardinality(registered), registered)
          /\ UNCHANGED <<dmt, twice>>
    /\ UNCHANGED <<registered, mode, dagVars, hashVars>>

NextBlockAnswer(e, ok) ==
    /\ e \in Waiting(nextBlock)
    /\ nextBlock' = Count(nextBlock, e, ok)
    /\ UNCHANGED <<registered, mode, begun, dagVars, dmt, hashVars, twice>>

\* The multimap requests of DAGExecute: the messages of each DAG contract.
Requests == UNION {{c} \X (1 .. DAGSize[c]) : c \in DAGContracts}

\* Mutant: the calls are counted, not the messages.
StartDAGByContract ==
    /\ totalCount' = Cardinality(DAGContracts)
    /\ dagCalls' = [c \in DAGContracts |-> [NoCall EXCEPT !.pc = "sent"]]
    /\ UNCHANGED <<dagStored, dagFailed, dagErrors, twice>>

\* One call for each contract, with all its DAG messages, which are moved out
\* of their states.
StartDAG ==
    /\ twice' = (twice \/ \E c \in DAGContracts : dagCalls[c] # NoCall)
    /\ IF twice' THEN UNCHANGED <<totalCount, dagCalls>>
       ELSE /\ totalCount' = Cardinality(Requests)
            /\ dagCalls' = [c \in DAGContracts |-> [NoCall EXCEPT !.pc = "sent"]]
    /\ UNCHANGED <<dagStored, dagFailed, dagErrors>>

NextBlockCheck(e) ==
    /\ ~twice
    /\ e \in Checking(nextBlock)
    /\ nextBlock' = Check(nextBlock, e)
    /\ \/ /\ ~Complete(nextBlock) \/ nextBlock.failed # {}
          /\ UNCHANGED <<dagVars, dmt, twice>>
       \/ /\ Complete(nextBlock) /\ nextBlock.failed = {} /\ mode = "DAG"
          /\ StartDAG
          /\ UNCHANGED dmt
       \/ /\ Complete(nextBlock) /\ nextBlock.failed = {} /\ mode = "PLAIN"
          /\ StartDMT
          /\ UNCHANGED dagVars
    /\ UNCHANGED <<registered, mode, begun, hashVars>>

-----------------------------------------------------------------------------
(* DAGExecute                                                              *)

\* Mutant: the messages that were asked for are subtracted.
DAGSubtractAsked(c, error, size) ==
    /\ ~twice
    /\ dagCalls[c].pc = "sent"
    /\ dagCalls' = [dagCalls EXCEPT ![c] = [pc |-> "subtracted", error |-> error, size |-> size]]
    /\ totalCount' = totalCount - DAGSize[c]
    /\ UNCHANGED <<registered, mode, begun, nextBlock, dagStored, dagFailed, dagErrors, dmt,
                   hashVars, twice>>

\* The messages of the answer are subtracted first ...
DAGSubtract(c, error, size) ==
    /\ ~twice
    /\ dagCalls[c].pc = "sent"
    /\ dagCalls' = [dagCalls EXCEPT ![c] = [pc |-> "subtracted", error |-> error, size |-> size]]
    /\ totalCount' = totalCount - size
    /\ UNCHANGED <<registered, mode, begun, nextBlock, dagStored, dagFailed, dagErrors, dmt,
                   hashVars, twice>>

\* ... then counted as failed or stored in their states ...
DAGStore(c) ==
    /\ ~twice
    /\ dagCalls[c].pc = "subtracted"
    /\ dagCalls' = [dagCalls EXCEPT ![c].pc = "settled"]
    /\ IF dagCalls[c].error \/ dagCalls[c].size # DAGSize[c]
       THEN dagFailed' = dagFailed \cup {c} /\ UNCHANGED dagStored
       ELSE dagStored' = dagStored \cup {c} /\ UNCHANGED dagFailed
    /\ UNCHANGED <<registered, mode, begun, nextBlock, totalCount, dagErrors, dmt, hashVars, twice>>

\* ... and then the count is looked at.
DAGCheck(c) ==
    /\ ~twice
    /\ dagCalls[c].pc = "settled"
    /\ dagCalls' = [dagCalls EXCEPT ![c].pc = "returned"]
    /\ IF totalCount = 0
       THEN /\ dagErrors' = dagErrors \cup {dagFailed # {}}
            /\ IF dagFailed = {} THEN StartDMT ELSE UNCHANGED <<dmt, twice>>
       ELSE UNCHANGED <<dagErrors, dmt, twice>>
    /\ UNCHANGED <<registered, mode, begun, nextBlock, totalCount, dagStored, dagFailed, hashVars>>

-----------------------------------------------------------------------------
(* DMTExecute and batchGetHashes                                           *)

\* Mutant: the test of m_staticCall is the wrong way round.
DMTEndNoHashes(ok) ==
    /\ ~twice
    /\ dmt = "running" /\ registered # {}
    /\ dmt' = IF ok THEN "done" ELSE "failed"
    /\ hashes' = IF ok /\ mode = "CALL"
                 THEN NewJoin("HASHES", Cardinality(registered), registered) ELSE hashes
    /\ UNCHANGED <<registered, mode, begun, nextBlock, dagVars, totalHash, roots, twice>>

\* A static call is answered here, a failed block too.
DMTEnd(ok) ==
    /\ ~twice
    /\ dmt = "running" /\ registered # {}
    /\ dmt' = IF ok THEN "done" ELSE "failed"
    /\ hashes' = IF ok /\ mode # "CALL"
                 THEN NewJoin("HASHES", Cardinality(registered), registered) ELSE hashes
    /\ UNCHANGED <<registered, mode, begun, nextBlock, dagVars, totalHash, roots, twice>>

\* The ends without a callback: an exception leaves a walk; a static call waits
\* for a lock of its own (run dmt_call of module DMTExecute); or, in a static
\* call, dispatchExecutor has no executor to give and its null pointer is used.
DMTStops ==
    /\ ~twice
    /\ dmt = "running"
    /\ \/ registered # {} /\ dmt' = "thrown"
       \/ registered # {} /\ mode = "CALL" /\ dmt' = "waiting"
       \/ registered = {} /\ dmt' = "null"
    /\ UNCHANGED <<registered, mode, begun, nextBlock, dagVars, hashVars, twice>>

HashAnswer(e, ok) ==
    /\ ~twice
    /\ e \in Waiting(hashes)
    /\ hashes' = Count(hashes, e, ok)
    /\ UNCHANGED <<registered, mode, begun, nextBlock, dagVars, dmt, totalHash, roots, twice>>

\* The hash is added, under a mutex of its own, after the answer was counted.
HashXor(e) ==
    /\ ~twice
    /\ e \in hashes.success \ totalHash
    /\ totalHash' = totalHash \cup {e}
    /\ UNCHANGED <<registered, mode, begun, nextBlock, dagVars, dmt, hashes, roots, twice>>

\* Mutant: the handler checks before it adds its hash.
HashCheckFirst(e) ==
    /\ ~twice
    /\ e \in Checking(hashes)
    /\ hashes' = Check(hashes, e)
    /\ roots' = IF Complete(hashes) /\ hashes.failed = {} THEN roots \cup {totalHash} ELSE roots
    /\ UNCHANGED <<registered, mode, begun, nextBlock, dagVars, dmt, totalHash, twice>>

\* Mutant: the header is made although a hash failed.
HashCheckIgnoresErrors(e) ==
    /\ ~twice
    /\ e \in Checking(hashes)
    /\ e \in hashes.failed \cup totalHash
    /\ hashes' = Check(hashes, e)
    /\ roots' = IF Complete(hashes) THEN roots \cup {totalHash} ELSE roots
    /\ UNCHANGED <<registered, mode, begun, nextBlock, dagVars, dmt, totalHash, twice>>

HashCheck(e) ==
    /\ ~twice
    /\ e \in Checking(hashes)
    /\ e \in hashes.failed \cup totalHash
    /\ hashes' = Check(hashes, e)
    /\ roots' = IF Complete(hashes) /\ hashes.failed = {} THEN roots \cup {totalHash} ELSE roots
    /\ UNCHANGED <<registered, mode, begun, nextBlock, dagVars, dmt, totalHash, twice>>

\* The answers of the executors and what their handlers do.
ExecutionStep ==
    \/ \E e \in Executors :
          \/ \E ok \in BOOLEAN : NextBlockAnswer(e, ok) \/ HashAnswer(e, ok)
          \/ NextBlockCheck(e) \/ HashXor(e) \/ HashCheck(e)
    \/ \E c \in DAGContracts :
          \/ \E error \in BOOLEAN, size \in 0 .. DAGSize[c] : DAGSubtract(c, error, size)
          \/ DAGStore(c) \/ DAGCheck(c)
    \/ DMTStops \/ \E ok \in BOOLEAN : DMTEnd(ok)

ExecutionNext == AsyncExecute \/ ExecutionStep

-----------------------------------------------------------------------------
(* Properties.                                                             *)

\* An answer of the DAG phase that lacks messages.
DAGShort == \E c \in DAGContracts :
    dagCalls[c].pc \notin {"none", "sent"} /\ dagCalls[c].size < DAGSize[c]

\* A header with a state root was given to the caller (m_result is set).
HasResult == roots # {}

\* The caller of asyncExecute was answered.
Answered ==
    \/ \E d \in nextBlock.delivered : d.error
    \/ TRUE \in dagErrors
    \/ dmt = "failed"
    \/ mode = "CALL" /\ dmt = "done"
    \/ hashes.delivered # {}

\* assert(message) in startBatch: when the batches start, every message that
\* the DAG phase took out of its state is back.
MessagesStored == dmt # "asserted"

\* After an answer of the DAG phase that lacks messages the batches are never
\* started, in whatever order the handlers count and check.
ShortDAGStops == DAGShort => dmt = "none"

\* The root that the last handler hands out is over the hashes of all
\* executors: when all handlers have returned and none failed, such a header
\* has been answered (one that lacks a hash may have been answered before).
RootComplete ==
    hashes.kind # "NONE" /\ hashes.asked # {} /\ hashes.checked = hashes.asked
       /\ hashes.failed = {} => hashes.asked \in roots

\* A block has one state root: asking for it again gives the one that was
\* answered at first.
OneRoot == Cardinality(roots) <= 1

\* Every execution is answered at the end of its stages, unless no executor
\* was registered, the DAG phase lost messages or asserted, a stage ran twice,
\* or the batches stopped without running their callback: an exception in a
\* block or a call, a null executor or a wait for itself only in a call.
ExecutionEnds ==
    begun ~> \/ Answered \/ DAGShort \/ twice
             \/ dmt \in {"asserted", "thrown"}
             \/ mode = "CALL" /\ dmt \in {"waiting", "null"}
             \/ mode # "CALL" /\ nextBlock.asked = {}
=============================================================================
