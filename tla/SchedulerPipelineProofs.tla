---------------------- MODULE SchedulerPipelineProofs ----------------------
(***************************************************************************)
(* Proofs about SchedulerPipeline, for any block numbers and any number of *)
(* commits: the list of blocks, the blocks that execution and commit work  *)
(* on, and the refinement of BlockChain.                                   *)
(***************************************************************************)
EXTENDS SchedulerPipeline, FiniteSetTheorems, SequenceTheorems, TLAPS

-----------------------------------------------------------------------------
(* The inductive invariant.                                                *)

\* Consecutive, counted from the front: no induction over the list is needed.
Numbered ==
    \A i \in 1 .. Len(m_blocks) : m_blocks[i].number = m_blocks[1].number + (i - 1)

\* The collector still has to run its callback only for the commit that holds
\* the mutex.
Collecting == config.delivered = {} => committing.phase = "config" \/ config = NotBegun

\* n is not after the last execution that has given a result.
Executed(n) ==
    \/ n <= m_lastExecutedBlockNumber
    \/ executing.phase = "result" /\ n <= executing.number

\* The block that executes is after all others, and the last one in the list.
ExecutesNew ==
    /\ executing.phase \in {"running", "result"} =>
          /\ m_lastExecutedBlockNumber < executing.number
          /\ m_blocks # <<>> => Back.number = executing.number
    /\ m_blocks # <<>> => m_lastExecutedBlockNumber <= Back.number
    /\ \A i \in 1 .. Len(m_blocks) : m_blocks[i].result => Executed(m_blocks[i].number)

\* A committed block is not after the front, or was executed if there is none.
CommittedOld ==
    /\ committing.phase \in {"config", "notify", "remove"} => commits[committing.number] > 0
    /\ \A n \in Numbers : commits[n] > 0 =>
          IF m_blocks # <<>> THEN n <= m_blocks[1].number ELSE Executed(n)

\* The bound of the model is not passed.
CommitBounded ==
    committing.phase \in {"locked", "commit"} => commits[committing.number] < MaxCommits

PipelineInv ==
    /\ TypeOK /\ Numbered /\ CommitsFront /\ ExecutesLast
    /\ Collecting /\ ExecutesNew /\ CommittedOld /\ CommitBounded

-----------------------------------------------------------------------------
(* The join of the collector keeps its type.                               *)

LEMMA BegunConfig ==
  /\ NotBegun \in Configs
  /\ \A asked \in SUBSET Queries : NewJoin("CONFIG", Cardinality(Queries), asked) \in Configs
<1>1. Cardinality(Queries) \in Nat
  BY PipelineAssumption, FS_CardinalityType
<1> QED BY <1>1 DEF NotBegun, NewJoin, Configs

LEMMA CountedConfig ==
  ASSUME NEW j \in Configs, NEW q \in Queries, NEW ok \in BOOLEAN
  PROVE  Count(j, q, ok) \in Configs
BY DEF Count, Configs

LEMMA CheckedConfig ==
  ASSUME NEW j \in Configs, NEW q \in Queries
  PROVE  Check(j, q) \in Configs
<1> DEFINE d == [by |-> q, error |-> j.failed # {}]
<1>1. (j.failed # {}) \in BOOLEAN
  OBVIOUS
<1>2. d \in [by : Queries, error : BOOLEAN]
  BY <1>1
<1>3. Check(j, q) = [j EXCEPT !.checked = @ \cup {q},
                              !.delivered = IF Complete(j) THEN @ \cup {d} ELSE @]
  BY DEF Check
<1> HIDE DEF d
<1>4. /\ j.checked \cup {q} \in SUBSET Queries
      /\ (IF Complete(j) THEN j.delivered \cup {d} ELSE j.delivered)
            \in SUBSET [by : Queries, error : BOOLEAN]
  BY <1>2 DEF Configs
<1> QED BY <1>3, <1>4 DEF Configs

-----------------------------------------------------------------------------

LEMMA PipelineInit == Init => PipelineInv
<1> SUFFICES ASSUME Init PROVE PipelineInv
  OBVIOUS
<1> USE DEF Init, Free
<1>1. TypeOK
  <2>1. m_blocks \in Seq(Block)
    BY EmptySeq
  <2>2. commits \in [Numbers -> 0 .. MaxCommits]
    BY PipelineAssumption
  <2> QED BY <2>1, <2>2, BegunConfig DEF TypeOK
<1>2. Numbered /\ CommitsFront /\ ExecutesLast /\ Collecting /\ ExecutesNew /\ CommittedOld
      /\ CommitBounded
  BY DEF Numbered, CommitsFront, ExecutesLast, Collecting, ExecutesNew, CommittedOld, CommitBounded
<1> QED BY <1>1, <1>2 DEF PipelineInv

-----------------------------------------------------------------------------
(* What the three changes of the list do to it.                            *)

LEMMA Ends ==
  ASSUME NEW s \in Seq(Block), s # <<>>
  PROVE  /\ Len(s) \in Nat \ {0} /\ Head(s) = s[1]
         /\ s[1] \in Block /\ s[1].number \in Numbers
         /\ s[Len(s)] \in Block /\ s[Len(s)].number \in Numbers
<1>1. Len(s) \in Nat \ {0} /\ Head(s) = s[1]
  BY EmptySeq
<1>2. s[1] \in Block /\ s[Len(s)] \in Block
  BY <1>1
<1> QED BY <1>1, <1>2 DEF Block

\* executeBlock appends a block without a result.
LEMMA Appended ==
  ASSUME NEW s \in Seq(Block), NEW n \in Numbers, NEW t,
         t = Append(s, [number |-> n, result |-> FALSE])
  PROVE  /\ t \in Seq(Block) /\ t # <<>> /\ Len(t) = Len(s) + 1
         /\ \A i \in 1 .. Len(s) : t[i] = s[i]
         /\ t[Len(t)] = [number |-> n, result |-> FALSE]
<1>1. [number |-> n, result |-> FALSE] \in Block
  BY DEF Block
<1> QED BY <1>1, AppendProperties

\* The last block gets its result.
LEMMA GivenResult ==
  ASSUME NEW s \in Seq(Block), s # <<>>, NEW t,
         t = [s EXCEPT ![Len(s)].result = TRUE]
  PROVE  /\ t \in Seq(Block) /\ t # <<>> /\ Len(t) = Len(s)
         /\ \A i \in 1 .. Len(s) - 1 : t[i] = s[i]
         /\ t[Len(s)].number = s[Len(s)].number /\ t[Len(s)].result = TRUE
<1> DEFINE b == [s[Len(s)] EXCEPT !.result = TRUE]
<1>1. Len(s) \in 1 .. Len(s) /\ s[Len(s)] \in Block /\ Len(s) \in Nat
  BY EmptySeq
<1>2. b \in Block /\ b.number = s[Len(s)].number /\ b.result = TRUE
  BY <1>1 DEF Block
<1>3. t = [s EXCEPT ![Len(s)] = b]
  OBVIOUS
<1> HIDE DEF b
<1>4. /\ t \in [1 .. Len(s) -> Block]
      /\ \A i \in 1 .. Len(s) : t[i] = IF i = Len(s) THEN b ELSE s[i]
  BY <1>2, <1>3, LenProperties
<1>5. t \in Seq(Block)
  BY <1>1, <1>4, SeqDef
<1>6. Len(t) = Len(s)
  BY <1>1, <1>4, <1>5, LenProperties
<1> QED BY <1>1, <1>2, <1>4, <1>5, <1>6, EmptySeq

\* commitBlock removes the front.
LEMMA Popped ==
  ASSUME NEW s \in Seq(Block), s # <<>>, NEW t, t = Tail(s)
  PROVE  /\ t \in Seq(Block) /\ Len(t) = Len(s) - 1
         /\ t = <<>> => Len(s) = 1
         /\ t # <<>> => Len(s) # 1
         /\ \A i \in 1 .. Len(t) : t[i] = s[i + 1]
<1>1. t \in Seq(Block) /\ Len(t) = Len(s) - 1 /\ \A i \in 1 .. Len(t) : t[i] = s[i + 1]
  BY HeadTailProperties
<1>2. Len(s) \in Nat \ {0} /\ (t = <<>> => Len(t) = 0) /\ (t # <<>> => Len(t) # 0)
  BY <1>1, EmptySeq
<1> QED BY <1>1, <1>2

-----------------------------------------------------------------------------
(* Types.                                                                  *)

LEMMA TypeStep == PipelineInv /\ [Next]_vars => TypeOK'
<1> SUFFICES ASSUME PipelineInv, [Next]_vars PROVE TypeOK'
  OBVIOUS
<1> USE DEF executeVars, commitVars
<1>a. TypeOK /\ CommitsFront /\ ExecutesLast
  BY DEF PipelineInv
<1>1. ASSUME NEW n \in Numbers, ExecuteBlock(n) PROVE TypeOK'
  <2>1. m_blocks' \in Seq(Block)
    BY <1>a, <1>1, Appended DEF ExecuteBlock, TypeOK
  <2> QED BY <1>a, <1>1, <2>1 DEF ExecuteBlock, TypeOK
<1>2. CASE ExecuteResult
  <2>1. m_blocks' \in Seq(Block)
    BY <1>a, <1>2, GivenResult DEF ExecuteResult, TypeOK, ExecutesLast
  <2> QED BY <1>a, <1>2, <2>1 DEF ExecuteResult, TypeOK
<1>3. CASE ExecuteStore
  BY <1>a, <1>3 DEF ExecuteStore, TypeOK
<1>4. CASE ExecuteUnlock
  BY <1>a, <1>4 DEF ExecuteUnlock, TypeOK, Free
<1>5. CASE ExecuteFails \/ ExecuteThrows
  <2>1. executing.number \in Numbers
    BY <1>a, <1>5, Ends DEF ExecuteFails, ExecuteThrows, TypeOK, ExecutesLast, Back
  <2>2. executing' \in [phase : {"free", "leaked"}, number : Numbers \cup {0}]
    BY <1>5, <1>a, <2>1 DEF ExecuteFails, ExecuteThrows, TypeOK, Free
  <2> QED BY <1>a, <1>5, <2>1, <2>2 DEF ExecuteFails, ExecuteThrows, TypeOK
<1>6. ASSUME NEW n \in Numbers, CommitLock(n) PROVE TypeOK'
  BY <1>a, <1>6 DEF CommitLock, TypeOK
<1>7. CASE CommitRefuse \/ CommitFails \/ CommitUnlock
  BY <1>a, <1>7 DEF CommitRefuse, CommitFails, CommitUnlock, TypeOK, Free
<1>8. CASE CommitStart \/ Notified
  BY <1>a, <1>8 DEF CommitStart, Notified, CommitPhase, TypeOK
<1>9. CASE CommitDone \/ CommitPartly
  <2>1. commits[committing.number] < MaxCommits /\ committing.number \in Numbers
    BY <1>a, <1>9, Ends DEF CommitDone, CommitPartly, TypeOK, PipelineInv, CommitBounded,
       CommitsFront, Front
  <2>2. commits' \in [Numbers -> 0 .. MaxCommits]
    BY <1>a, <1>9, <2>1, PipelineAssumption DEF CommitDone, CommitPartly, StorageCommitted, TypeOK
  <2>3. CASE CommitDone
    <3>1. config' \in Configs
      BY <2>3, BegunConfig DEF CommitDone
    <3> QED BY <1>a, <2>2, <2>3, <3>1 DEF CommitDone, CommitPhase, TypeOK
  <2>4. CASE CommitPartly
    BY <1>a, <2>1, <2>2, <2>4 DEF CommitPartly, TypeOK, Free
  <2> QED BY <1>9, <2>3, <2>4
<1>10. CASE AskHash
  <2>1. config' \in Configs
    BY <1>a, <1>10, PipelineAssumption DEF AskHash, TypeOK, Configs
  <2> QED BY <1>a, <1>10, <2>1 DEF AskHash, TypeOK
<1>11. ASSUME NEW q \in Queries, NEW ok \in BOOLEAN, QueryAnswer(q, ok) PROVE TypeOK'
  <2>1. config' \in Configs
    BY <1>a, <1>11, CountedConfig DEF QueryAnswer, TypeOK
  <2> QED BY <1>a, <1>11, <2>1 DEF QueryAnswer, TypeOK
<1>12. ASSUME NEW q \in Queries, Collect(q) PROVE TypeOK'
  <2>1. config' \in Configs
    BY <1>a, <1>12, CheckedConfig DEF Collect, TypeOK
  <2>2. CASE Complete(config) /\ config.delivered = {}
    <3>1. committing.phase = "config"
      BY <1>12, <2>2 DEF PipelineInv, Collecting, Collect, Checking, Counted, NotBegun, NewJoin
    <3>2. committing.number \in Numbers
      BY <1>a, <3>1, Ends DEF TypeOK, CommitsFront, Front
    <3>3. /\ committing' \in [phase : {"free", "notify", "remove"}, number : Numbers \cup {0}]
          /\ misreported' \subseteq Numbers
      BY <1>a, <1>12, <2>2, <3>2 DEF Collect, Collected, CommitPhase, Free, TypeOK
    <3> QED BY <1>a, <1>12, <2>1, <2>2, <3>3 DEF Collect, Collected, CommitPhase, Free, TypeOK
  <2>3. CASE ~(Complete(config) /\ config.delivered = {})
    BY <1>a, <1>12, <2>1, <2>3 DEF Collect, TypeOK
  <2> QED BY <2>2, <2>3
<1>13. CASE Remove
  <2>1. m_blocks' \in Seq(Block)
    BY <1>a, <1>13, Popped DEF Remove, TypeOK, CommitsFront
  <2> QED BY <1>a, <1>13, <2>1 DEF Remove, CommitPhase, TypeOK
<1>14. CASE UNCHANGED vars
  BY <1>a, <1>14 DEF vars, TypeOK
<1>15. CASE CallbackRepeats
  BY <1>a, <1>15 DEF CallbackRepeats, TypeOK
<1> QED BY <1>1, <1>2, <1>3, <1>4, <1>5, <1>6, <1>7, <1>8, <1>9, <1>10, <1>11, <1>12, <1>13, <1>14,
        <1>15 DEF Next, ExecuteStep, CommitStep

-----------------------------------------------------------------------------
(* The other parts of the invariant, action by action.                     *)

\* Block numbers as numbers.
LEMMA Facts ==
  ASSUME TypeOK
  PROVE  /\ \A n \in Numbers : n \in Nat \ {0}
         /\ m_lastExecutedBlockNumber \in Nat /\ executing.number \in Nat
         /\ Len(m_blocks) \in Nat
         /\ \A i \in 1 .. Len(m_blocks) : m_blocks[i] \in Block /\ m_blocks[i].number \in Nat
<1>1. \A i \in 1 .. Len(m_blocks) : m_blocks[i] \in Block
  BY DEF TypeOK
<1>2. \A i \in 1 .. Len(m_blocks) : m_blocks[i].number \in Numbers
  BY <1>1 DEF Block
<1>3. \A n \in Numbers : n \in Nat \ {0}
  BY PipelineAssumption
<1>4. Len(m_blocks) \in Nat
  BY LenProperties DEF TypeOK
<1>5. m_lastExecutedBlockNumber \in Nat /\ executing.number \in Nat
  BY <1>3 DEF TypeOK
<1> QED BY <1>1, <1>2, <1>3, <1>4, <1>5

LEMMA ExecuteBlockKeeps ==
  ASSUME PipelineInv, TypeOK', NEW n \in Numbers, ExecuteBlock(n)
  PROVE  PipelineInv'
<1>a. TypeOK /\ Numbered /\ CommitsFront /\ Collecting /\ ExecutesNew /\ CommittedOld /\ CommitBounded
  BY DEF PipelineInv
<1>b. /\ m_blocks' # <<>> /\ Len(m_blocks') = Len(m_blocks) + 1
      /\ \A i \in 1 .. Len(m_blocks) : m_blocks'[i] = m_blocks[i]
      /\ m_blocks'[Len(m_blocks')] = [number |-> n, result |-> FALSE]
  BY <1>a, Appended DEF ExecuteBlock, TypeOK
<1>c. /\ executing = Free /\ executing' = [phase |-> "running", number |-> n]
      /\ UNCHANGED <<m_lastExecutedBlockNumber, committing, config, commits>>
  BY DEF ExecuteBlock, commitVars
<1>d. /\ m_blocks # <<>> => Len(m_blocks) \in Nat \ {0} /\ n = m_blocks[Len(m_blocks)].number + 1
      /\ m_blocks = <<>> => Len(m_blocks) = 0 /\ m_lastExecutedBlockNumber < n
  BY <1>a, Facts, Ends DEF ExecuteBlock, Acceptable, Back, TypeOK
<1>1. Numbered'
  BY <1>a, <1>b, <1>d, Facts DEF Numbered
<1>2. CommitsFront'
  BY <1>a, <1>b, <1>c, <1>d, Ends DEF CommitsFront, Front, TypeOK
<1>3. ExecutesLast'
  BY <1>b, <1>c DEF ExecutesLast, Back
<1>4. ExecutesNew'
  <2>1. m_lastExecutedBlockNumber < n
    BY <1>a, <1>d, Facts DEF ExecutesNew, Back
  <2>2. \A i \in 1 .. Len(m_blocks') : m_blocks'[i].result => i \in 1 .. Len(m_blocks)
    BY <1>a, <1>b, Facts
  <2>3. \A i \in 1 .. Len(m_blocks) : m_blocks[i].result => m_blocks[i].number <= m_lastExecutedBlockNumber
    BY <1>a, <1>c DEF ExecutesNew, Executed, Free
  <2> QED BY <1>a, <1>b, <1>c, <2>1, <2>2, <2>3, Facts DEF ExecutesNew, Executed, Back
<1>5. CommittedOld'
  BY <1>a, <1>b, <1>c, <1>d, Facts DEF CommittedOld, Executed, Free
<1> QED BY <1>a, <1>c, <1>1, <1>2, <1>3, <1>4, <1>5 DEF PipelineInv, Collecting, CommitBounded

LEMMA ExecuteResultKeeps ==
  ASSUME PipelineInv, TypeOK', ExecuteResult
  PROVE  PipelineInv'
<1>a. /\ TypeOK /\ Numbered /\ CommitsFront /\ ExecutesLast
      /\ Collecting /\ ExecutesNew /\ CommittedOld /\ CommitBounded
  BY DEF PipelineInv
<1>b. m_blocks # <<>> /\ Back.number = executing.number
  BY <1>a DEF ExecutesLast, ExecuteResult
<1>c. /\ m_blocks' # <<>> /\ Len(m_blocks') = Len(m_blocks)
      /\ \A i \in 1 .. Len(m_blocks) - 1 : m_blocks'[i] = m_blocks[i]
      /\ m_blocks'[Len(m_blocks)].number = m_blocks[Len(m_blocks)].number
      /\ m_blocks'[Len(m_blocks)].result = TRUE
  BY <1>a, <1>b, GivenResult DEF ExecuteResult, TypeOK
<1>d. /\ executing.phase = "running"
      /\ executing' = [executing EXCEPT !.phase = "result"]
      /\ executing'.phase = "result" /\ executing'.number = executing.number
      /\ UNCHANGED <<m_lastExecutedBlockNumber, committing, config, commits>>
  BY <1>a DEF ExecuteResult, commitVars, TypeOK
<1>e. Len(m_blocks) \in Nat \ {0}
  BY <1>a, <1>b, Ends DEF TypeOK
<1>f. \A i \in 1 .. Len(m_blocks) :
         m_blocks'[i].number = m_blocks[i].number /\ (m_blocks[i].result => m_blocks'[i].result)
  BY <1>c, <1>e
<1>1. Numbered'
  BY <1>a, <1>c, <1>e, <1>f DEF Numbered
<1>2. CommitsFront'
  <2>1. Head(m_blocks) = m_blocks[1] /\ Head(m_blocks') = m_blocks'[1]
    BY <1>a, <1>b, <1>c, Ends DEF TypeOK
  <2> QED BY <1>a, <1>b, <1>c, <1>d, <1>e, <1>f, <2>1 DEF CommitsFront, Front
<1>3. ExecutesLast'
  BY <1>d DEF ExecutesLast
<1>4. ExecutesNew'
  <2>1. \A i \in 1 .. Len(m_blocks) : m_blocks'[i].result => m_blocks[i].number <= executing.number
    BY <1>a, <1>b, <1>e, Facts DEF Numbered, Back
  <2> QED BY <1>a, <1>b, <1>c, <1>d, <1>e, <1>f, <2>1 DEF ExecutesNew, Executed, Back
<1>5. CommittedOld'
  BY <1>a, <1>b, <1>c, <1>d, <1>e, <1>f DEF CommittedOld
<1> QED BY <1>a, <1>d, <1>1, <1>2, <1>3, <1>4, <1>5 DEF PipelineInv, Collecting, CommitBounded

LEMMA ExecuteEndsKeeps ==
  ASSUME PipelineInv, TypeOK', ExecuteStore \/ ExecuteUnlock \/ ExecuteFails \/ ExecuteThrows
  PROVE  PipelineInv'
<1>a. /\ TypeOK /\ Numbered /\ CommitsFront /\ ExecutesLast
      /\ Collecting /\ ExecutesNew /\ CommittedOld /\ CommitBounded
  BY DEF PipelineInv
<1>b. UNCHANGED <<m_blocks, committing, config, commits>>
  BY DEF ExecuteStore, ExecuteUnlock, ExecuteFails, ExecuteThrows, commitVars
<1>c. executing'.phase \in {"free", "stored", "leaked"}
  BY <1>a DEF ExecuteStore, ExecuteUnlock, ExecuteFails, ExecuteThrows, Free, TypeOK
<1>d. /\ m_lastExecutedBlockNumber <= m_lastExecutedBlockNumber'
      /\ m_blocks # <<>> => m_lastExecutedBlockNumber' <= Back.number
  BY <1>a, Facts DEF ExecuteStore, ExecuteUnlock, ExecuteFails, ExecuteThrows, ExecutesNew
<1>e. ASSUME NEW n \in Nat, Executed(n) PROVE Executed(n)'
  <2>1. CASE ExecuteStore
    BY <1>a, <1>e, <2>1, Facts DEF ExecuteStore, ExecutesNew, Executed
  <2>2. CASE ExecuteUnlock \/ ExecuteFails \/ ExecuteThrows
    BY <1>e, <2>2 DEF ExecuteUnlock, ExecuteFails, ExecuteThrows, Executed
  <2> QED BY <2>1, <2>2
<1>1. ExecutesNew'
  BY <1>a, <1>b, <1>c, <1>d, <1>e, Facts DEF ExecutesNew, Back
<1>2. CommittedOld'
  BY <1>a, <1>b, <1>e, Facts DEF CommittedOld
<1>3. ExecutesLast'
  BY <1>c DEF ExecutesLast
<1> QED BY <1>a, <1>b, <1>1, <1>2, <1>3
        DEF PipelineInv, Numbered, CommitsFront, Front, Collecting, CommitBounded

\* The commit's steps that leave the list alone.
LEMMA CommitKeeps ==
  ASSUME PipelineInv, TypeOK',
         \/ CommitRefuse \/ CommitStart \/ CommitFails \/ Notified \/ CommitUnlock
         \/ \E n \in Numbers : CommitLock(n)
  PROVE  PipelineInv'
<1>a. /\ TypeOK /\ Numbered /\ CommitsFront /\ ExecutesLast
      /\ Collecting /\ ExecutesNew /\ CommittedOld /\ CommitBounded
  BY DEF PipelineInv
<1> USE DEF executeVars
<1>b. UNCHANGED <<m_blocks, m_lastExecutedBlockNumber, executing, config, commits>>
  BY DEF CommitRefuse, CommitStart, CommitFails, Notified, CommitUnlock, CommitLock
<1>c. CASE CommitRefuse \/ CommitFails \/ CommitUnlock
  BY <1>a, <1>b, <1>c DEF CommitRefuse, CommitFails, CommitUnlock, Free, PipelineInv, Numbered,
     CommitsFront, ExecutesLast, Collecting, ExecutesNew, Executed, CommittedOld, CommitBounded,
     Front, Back
<1>d. CASE CommitStart \/ Notified
  <2>1. committing'.number = committing.number
    BY <1>a, <1>d DEF CommitStart, Notified, CommitPhase, TypeOK
  <2>2. \/ committing.phase = "locked" /\ committing'.phase = "commit" /\ Committable(committing.number)
        \/ committing.phase = "notify" /\ committing'.phase = "remove"
    BY <1>a, <1>d DEF CommitStart, Notified, CommitPhase, TypeOK
  <2> QED BY <1>a, <1>b, <2>1, <2>2 DEF Committable, PipelineInv, Numbered, CommitsFront,
     ExecutesLast, Collecting, ExecutesNew, Executed, CommittedOld, CommitBounded, Front, Back
<1>e. ASSUME NEW n \in Numbers, CommitLock(n) PROVE PipelineInv'
  BY <1>a, <1>b, <1>e DEF CommitLock, Free, PipelineInv, Numbered, CommitsFront, ExecutesLast,
     Collecting, ExecutesNew, Executed, CommittedOld, CommitBounded, Front, Back
<1> QED BY <1>c, <1>d, <1>e

LEMMA CommitDoneKeeps ==
  ASSUME PipelineInv, TypeOK', CommitDone
  PROVE  PipelineInv'
<1>a. /\ TypeOK /\ Numbered /\ CommitsFront /\ ExecutesLast
      /\ Collecting /\ ExecutesNew /\ CommittedOld /\ CommitBounded
  BY DEF PipelineInv
<1>b. UNCHANGED <<m_blocks, m_lastExecutedBlockNumber, executing>>
  BY DEF CommitDone, executeVars
<1>c. /\ committing.phase = "commit" /\ committing'.phase = "config"
      /\ committing'.number = committing.number
  BY <1>a DEF CommitDone, CommitPhase, TypeOK
<1>d. m_blocks # <<>> /\ m_blocks[1].number = committing.number /\ committing.number \in Numbers
  BY <1>a, <1>c, Ends DEF CommitsFront, Front, TypeOK
<1>e. /\ commits'[committing.number] > 0
      /\ \A n \in Numbers : commits'[n] > 0 => commits[n] > 0 \/ n = committing.number
  BY <1>a, <1>d DEF CommitDone, StorageCommitted, TypeOK
<1>1. CommitsFront' /\ Collecting' /\ CommitBounded'
  BY <1>a, <1>b, <1>c DEF CommitsFront, Front, Collecting, CommitBounded
<1>2. CommittedOld'
  BY <1>a, <1>b, <1>c, <1>d, <1>e, Facts DEF CommittedOld
<1> QED BY <1>a, <1>b, <1>1, <1>2 DEF PipelineInv, Numbered, ExecutesLast, ExecutesNew, Executed, Back

LEMMA CommitPartlyKeeps ==
  ASSUME PipelineInv, TypeOK', CommitPartly
  PROVE  PipelineInv'
<1>a. /\ TypeOK /\ Numbered /\ CommitsFront /\ ExecutesLast
      /\ Collecting /\ ExecutesNew /\ CommittedOld /\ CommitBounded
  BY DEF PipelineInv
<1>b. /\ UNCHANGED <<m_blocks, m_lastExecutedBlockNumber, executing, config>>
      /\ committing.phase = "commit" /\ committing'.phase = "free"
  BY DEF CommitPartly, executeVars, Free
<1>c. m_blocks # <<>> /\ m_blocks[1].number = committing.number /\ committing.number \in Numbers
  BY <1>a, <1>b, Ends DEF CommitsFront, Front, TypeOK
<1>d. \A n \in Numbers : commits'[n] > 0 => commits[n] > 0 \/ n = committing.number
  BY <1>a, <1>c DEF CommitPartly, StorageCommitted, TypeOK
<1>1. CommitsFront' /\ Collecting' /\ CommitBounded'
  BY <1>a, <1>b DEF CommitsFront, Front, Collecting, CommitBounded
<1>2. CommittedOld'
  BY <1>a, <1>b, <1>c, <1>d, Facts DEF CommittedOld
<1> QED BY <1>a, <1>b, <1>1, <1>2 DEF PipelineInv, Numbered, ExecutesLast, ExecutesNew, Executed, Back

LEMMA ConfigKeeps ==
  ASSUME PipelineInv, TypeOK',
         AskHash \/ \E q \in Queries : Collect(q) \/ \E ok \in BOOLEAN : QueryAnswer(q, ok)
  PROVE  PipelineInv'
<1>a. /\ TypeOK /\ Numbered /\ CommitsFront /\ ExecutesLast
      /\ Collecting /\ ExecutesNew /\ CommittedOld /\ CommitBounded
  BY DEF PipelineInv
<1>b. UNCHANGED <<m_blocks, m_lastExecutedBlockNumber, executing, commits>>
  BY DEF AskHash, Collect, QueryAnswer, executeVars
<1>c. config # NotBegun
  BY DEF AskHash, Collect, QueryAnswer, Waiting, Checking, Counted, NotBegun, NewJoin
<1>d. \/ committing' = committing /\ (config'.delivered = {} => config.delivered = {})
      \/ /\ committing.phase = "config" /\ config'.delivered # {}
         /\ \/ committing' = Free
            \/ committing'.phase \in {"notify", "remove"} /\ committing'.number = committing.number
  <2>1. CASE AskHash
    BY <1>a, <2>1 DEF AskHash, TypeOK, Configs
  <2>2. ASSUME NEW q \in Queries, NEW ok \in BOOLEAN, QueryAnswer(q, ok)
        PROVE  committing' = committing /\ config'.delivered = config.delivered
    BY <1>a, <2>2 DEF QueryAnswer, Count, TypeOK, Configs
  <2>3. ASSUME NEW q \in Queries, Collect(q)
        PROVE  /\ config'.delivered = {} => config.delivered = {}
               /\ Complete(config) => config'.delivered # {}
    BY <1>a, <2>3 DEF Collect, Check, TypeOK, Configs
  <2>4. ASSUME NEW q \in Queries, Collect(q), Complete(config), config.delivered = {}
        PROVE  /\ committing.phase = "config"
               /\ \/ committing' = Free
                  \/ committing'.phase \in {"notify", "remove"} /\ committing'.number = committing.number
    BY <1>a, <1>c, <2>4 DEF Collect, Collected, CommitPhase, Collecting, TypeOK
  <2>5. ASSUME NEW q \in Queries, Collect(q), ~(Complete(config) /\ config.delivered = {})
        PROVE  committing' = committing
    BY <2>5 DEF Collect
  <2> QED BY <2>1, <2>2, <2>3, <2>4, <2>5
<1>1. CommitsFront' /\ Collecting' /\ CommitBounded'
  BY <1>a, <1>b, <1>c, <1>d DEF CommitsFront, Front, Collecting, CommitBounded, Free
<1>2. CommittedOld'
  BY <1>a, <1>b, <1>d DEF CommittedOld, Executed, Free
<1> QED BY <1>a, <1>b, <1>1, <1>2 DEF PipelineInv, Numbered, ExecutesLast, ExecutesNew, Executed, Back

LEMMA RemoveKeeps ==
  ASSUME PipelineInv, TypeOK', Remove
  PROVE  PipelineInv'
<1>a. /\ TypeOK /\ Numbered /\ CommitsFront /\ ExecutesLast
      /\ Collecting /\ ExecutesNew /\ CommittedOld /\ CommitBounded
  BY DEF PipelineInv
<1>b. /\ committing.phase = "remove" /\ committing'.phase = "removed"
      /\ UNCHANGED <<m_lastExecutedBlockNumber, executing, config, commits>>
  BY <1>a DEF Remove, CommitPhase, executeVars, TypeOK
<1>c. m_blocks # <<>> /\ m_blocks[1].number = committing.number /\ m_blocks[1].result
  BY <1>a, <1>b, Ends DEF CommitsFront, Front, TypeOK
<1>d. /\ Len(m_blocks') = Len(m_blocks) - 1
      /\ m_blocks' = <<>> => Len(m_blocks) = 1
      /\ m_blocks' # <<>> => Len(m_blocks) # 1
      /\ \A i \in 1 .. Len(m_blocks') : m_blocks'[i] = m_blocks[i + 1]
      /\ Len(m_blocks) \in Nat \ {0}
  <2>1. m_blocks \in Seq(Block) /\ m_blocks' = Tail(m_blocks)
    BY <1>a DEF Remove, TypeOK
  <2>2. Len(m_blocks) \in Nat \ {0}
    BY <1>c, <2>1, Ends
  <2> QED BY <1>c, <2>1, <2>2, Popped
<1>1. Numbered'
  <2> SUFFICES ASSUME NEW i \in 1 .. Len(m_blocks')
               PROVE  m_blocks'[i].number = m_blocks'[1].number + (i - 1)
    BY DEF Numbered
  <2>1. 1 \in 1 .. Len(m_blocks') /\ i + 1 \in 1 .. Len(m_blocks) /\ 2 \in 1 .. Len(m_blocks)
    BY <1>d
  <2>2. /\ m_blocks'[i] = m_blocks[i + 1] /\ m_blocks'[1] = m_blocks[2]
        /\ m_blocks[i + 1].number = m_blocks[1].number + i
        /\ m_blocks[2].number = m_blocks[1].number + 1
    BY <1>a, <1>d, <2>1 DEF Numbered
  <2>3. m_blocks[1].number \in Nat
    BY <1>a, <1>d, Facts
  <2> QED BY <2>2, <2>3
<1>2. CommitsFront' /\ Collecting' /\ CommitBounded'
  BY <1>a, <1>b DEF CommitsFront, Collecting, CommitBounded
<1>3. m_blocks' # <<>> => m_blocks'[Len(m_blocks')] = m_blocks[Len(m_blocks)] /\ Len(m_blocks') \in Nat \ {0}
  BY <1>d
<1>4. ExecutesLast'
  BY <1>a, <1>b, <1>c, <1>d, <1>3 DEF ExecutesLast, Back
<1>5. ExecutesNew'
  BY <1>a, <1>b, <1>c, <1>d, <1>3 DEF ExecutesNew, Executed, Back
<1>6. CommittedOld'
  <2>1. m_blocks' # <<>> => m_blocks'[1].number = m_blocks[1].number + 1
    BY <1>a, <1>d, <1>3 DEF Numbered
  <2>2. Executed(m_blocks[1].number)
    BY <1>a, <1>c, <1>d DEF ExecutesNew
  <2>3. m_blocks[1].number \in Nat
    BY <1>a, <1>d, Facts
  <2> QED BY <1>a, <1>b, <1>c, <2>1, <2>2, <2>3, Facts DEF CommittedOld, Executed
<1> QED BY <1>1, <1>2, <1>4, <1>5, <1>6 DEF PipelineInv

LEMMA PipelineStep == PipelineInv /\ [Next]_vars => PipelineInv'
<1> SUFFICES ASSUME PipelineInv, [Next]_vars PROVE PipelineInv'
  OBVIOUS
<1>1. TypeOK'
  BY TypeStep
<1>2. CASE UNCHANGED vars
  BY <1>2 DEF vars, executeVars, commitVars, PipelineInv, TypeOK, Numbered, CommitsFront,
     ExecutesLast, Collecting, ExecutesNew, Executed, CommittedOld, CommitBounded, Front, Back
<1>3. CASE CallbackRepeats
  BY <1>1, <1>3 DEF CallbackRepeats, executeVars, PipelineInv, Numbered, CommitsFront,
     ExecutesLast, Collecting, ExecutesNew, Executed, CommittedOld, CommitBounded, Front, Back
<1>4. CASE Next /\ ~CallbackRepeats
  BY <1>1, <1>4, ExecuteBlockKeeps, ExecuteResultKeeps, ExecuteEndsKeeps, CommitKeeps,
     CommitDoneKeeps, CommitPartlyKeeps, ConfigKeeps, RemoveKeeps DEF Next, ExecuteStep, CommitStep
<1> QED BY <1>2, <1>3, <1>4

-----------------------------------------------------------------------------
(* The theorems about the list.                                            *)

\* Type correctness of the pipeline's state.
THEOREM PipelineTypeCorrect == Spec => []TypeOK
<1>1. PipelineInv => TypeOK
  BY DEF PipelineInv
<1> QED BY <1>1, PipelineInit, PipelineStep, PTL DEF Spec

\* The blocks in m_blocks have consecutive numbers.
THEOREM ConsecutiveCorrect == Spec => []Consecutive
<1>1. PipelineInv => Consecutive
  <2> SUFFICES ASSUME PipelineInv, NEW i \in 1 .. Len(m_blocks) - 1
               PROVE  m_blocks[i + 1].number = m_blocks[i].number + 1
    BY DEF Consecutive
  <2>1. TypeOK /\ Numbered
    BY DEF PipelineInv
  <2>2. i \in 1 .. Len(m_blocks) /\ i + 1 \in 1 .. Len(m_blocks) /\ 1 \in 1 .. Len(m_blocks)
    BY <2>1, Facts
  <2>3. m_blocks[1].number \in Nat
    BY <2>1, <2>2, Facts
  <2> QED BY <2>1, <2>2, <2>3 DEF Numbered
<1> QED BY <1>1, PipelineInit, PipelineStep, PTL DEF Spec

\* From the commit to the removal the front is the block that is committed.
THEOREM CommitsFrontCorrect == Spec => []CommitsFront
<1>1. PipelineInv => CommitsFront
  BY DEF PipelineInv
<1> QED BY <1>1, PipelineInit, PipelineStep, PTL DEF Spec

\* The block that executes is the last one and is not removed.
THEOREM ExecutesLastCorrect == Spec => []ExecutesLast
<1>1. PipelineInv => ExecutesLast
  BY DEF PipelineInv
<1> QED BY <1>1, PipelineInit, PipelineStep, PTL DEF Spec

-----------------------------------------------------------------------------
(* The refinement of BlockChain.                                           *)

Pending == {m_blocks[i].number : i \in 1 .. Len(m_blocks)}
Committed == {n \in Numbers : commits[n] > 0}

LEMMA RefinesInit == Init => Chain!ChainInit
<1> SUFFICES ASSUME Init PROVE Pending = {} /\ Committed = {}
  BY DEF Chain!ChainInit, Pending, Committed
<1>1. Len(m_blocks) = 0
  BY DEF Init
<1> QED BY <1>1 DEF Init, Pending, Committed

LEMMA RefinesStep == PipelineInv /\ [Next]_vars => [Chain!ChainNext]_<<Pending, Committed>>
<1> SUFFICES ASSUME PipelineInv, [Next]_vars
             PROVE  Chain!ChainNext \/ UNCHANGED <<Pending, Committed>>
  OBVIOUS
<1>a. TypeOK /\ Numbered /\ CommitsFront /\ ExecutesLast /\ ExecutesNew /\ CommittedOld
  BY DEF PipelineInv
<1> USE DEF executeVars, commitVars
<1>1. ASSUME NEW n \in Numbers, ExecuteBlock(n) PROVE Chain!Execute(n)
  <2>1. /\ Len(m_blocks') = Len(m_blocks) + 1
        /\ \A i \in 1 .. Len(m_blocks) : m_blocks'[i] = m_blocks[i]
        /\ m_blocks'[Len(m_blocks')] = [number |-> n, result |-> FALSE]
    BY <1>a, <1>1, Appended DEF ExecuteBlock, TypeOK
  <2>2. Committed' = Committed
    BY <1>1 DEF ExecuteBlock, Committed
  <2>3. Pending' = Pending \cup {n}
    BY <1>a, <2>1, Facts DEF Pending
  <2>4. ASSUME NEW m \in Pending PROVE m < n
    <3>1. PICK i \in 1 .. Len(m_blocks) : m = m_blocks[i].number
      BY <2>4 DEF Pending
    <3>2. m_blocks # <<>> /\ n = m_blocks[Len(m_blocks)].number + 1
      BY <1>1, <3>1, EmptySeq DEF ExecuteBlock, Acceptable, Back
    <3>3. /\ i \in Nat /\ i <= Len(m_blocks) /\ Len(m_blocks) \in 1 .. Len(m_blocks)
          /\ m_blocks[1].number \in Nat
      BY <1>a, <3>1, Facts
    <3>4. m = m_blocks[1].number + (i - 1) /\ n = m_blocks[1].number + (Len(m_blocks) - 1) + 1
      BY <1>a, <3>1, <3>2, <3>3 DEF Numbered
    <3> QED BY <1>a, <3>3, <3>4, Facts
  <2>5. ASSUME NEW m \in Committed PROVE m < n
    <3>1. CASE m_blocks # <<>>
      <4>1. m <= m_blocks[1].number /\ 1 \in 1 .. Len(m_blocks)
        BY <1>a, <2>5, <3>1, Ends DEF CommittedOld, Committed, TypeOK
      <4>2. m_blocks[1].number \in Pending /\ m_blocks[1].number \in Nat /\ m \in Nat /\ n \in Nat
        BY <1>a, <2>5, <4>1, Facts DEF Pending, Committed
      <4> QED BY <2>4, <4>1, <4>2
    <3>2. CASE m_blocks = <<>>
      <4>1. m <= m_lastExecutedBlockNumber
        BY <1>a, <1>1, <2>5, <3>2 DEF CommittedOld, Committed, Executed, ExecuteBlock, Free
      <4> QED BY <1>a, <1>1, <2>5, <3>2, <4>1, Facts DEF ExecuteBlock, Acceptable, Committed
    <3> QED BY <3>1, <3>2
  <2> QED BY <2>2, <2>3, <2>4, <2>5 DEF Chain!Execute, Pending, Committed
<1>2. CASE ExecuteResult
  <2>1. /\ Len(m_blocks') = Len(m_blocks) /\ Len(m_blocks) \in Nat \ {0}
        /\ \A i \in 1 .. Len(m_blocks) - 1 : m_blocks'[i] = m_blocks[i]
        /\ m_blocks'[Len(m_blocks)].number = m_blocks[Len(m_blocks)].number
    BY <1>a, <1>2, GivenResult, Ends DEF ExecuteResult, TypeOK, ExecutesLast
  <2>2. \A i \in 1 .. Len(m_blocks) : m_blocks'[i].number = m_blocks[i].number
    BY <2>1
  <2> QED BY <1>2, <2>1, <2>2 DEF ExecuteResult, Pending, Committed
<1>3. CASE ExecuteStore \/ ExecuteUnlock \/ ExecuteFails \/ ExecuteThrows
  BY <1>3 DEF ExecuteStore, ExecuteUnlock, ExecuteFails, ExecuteThrows, Pending, Committed
<1>4. CASE \/ CallbackRepeats \/ CommitRefuse \/ CommitStart \/ CommitFails \/ Notified \/ CommitUnlock
           \/ \E n \in Numbers : CommitLock(n)
  BY <1>4 DEF CallbackRepeats, CommitRefuse, CommitStart, CommitFails, Notified, CommitUnlock, CommitLock,
              Pending, Committed
<1>5. CASE AskHash \/ \E q \in Queries : Collect(q) \/ \E ok \in BOOLEAN : QueryAnswer(q, ok)
  BY <1>5 DEF AskHash, Collect, QueryAnswer, Pending, Committed
<1>6. ASSUME NEW n \in Numbers, n = committing.number, CommitDone \/ CommitPartly PROVE Chain!Commit(n)
  <2>1. m_blocks # <<>> /\ m_blocks[1].number = n /\ n \in Numbers /\ 1 \in 1 .. Len(m_blocks)
    BY <1>a, <1>6, Ends DEF CommitDone, CommitPartly, CommitsFront, Front, TypeOK
  <2>2. Pending' = Pending
    BY <1>6 DEF CommitDone, CommitPartly, Pending
  <2>3. Committed' = Committed \cup {n}
    BY <1>a, <1>6, <2>1 DEF CommitDone, CommitPartly, StorageCommitted, Committed, TypeOK
  <2>4. n \in Pending /\ \A m \in Pending : n <= m
    BY <1>a, <2>1, Facts DEF Pending, Numbered
  <2> QED BY <2>2, <2>3, <2>4 DEF Chain!Commit, Pending, Committed
<1>7. ASSUME NEW n \in Numbers, n = committing.number, Remove PROVE Chain!Forget(n)
  <2>1. /\ m_blocks # <<>> /\ m_blocks[1].number = n /\ n \in Numbers /\ commits[n] > 0
        /\ 1 \in 1 .. Len(m_blocks)
    BY <1>a, <1>7, Ends DEF Remove, CommitsFront, CommittedOld, Front, TypeOK
  <2>2. Committed' = Committed
    BY <1>7 DEF Remove, Committed
  <2>3. /\ Len(m_blocks') = Len(m_blocks) - 1
        /\ \A i \in 1 .. Len(m_blocks') : m_blocks'[i] = m_blocks[i + 1]
    BY <1>a, <1>7, <2>1, Popped DEF Remove, TypeOK
  <2>4. Pending' = Pending \ {n}
    <3>1. ASSUME NEW m \in Pending' PROVE m \in Pending \ {n}
      <4>1. PICK i \in 1 .. Len(m_blocks') : m = m_blocks'[i].number
        BY <3>1 DEF Pending
      <4>2. i + 1 \in 1 .. Len(m_blocks) /\ m = m_blocks[i + 1].number
        BY <1>a, <2>3, <4>1, Facts
      <4>3. m = n + i
        BY <1>a, <2>1, <4>1, <4>2 DEF Numbered
      <4>4. n \in Nat /\ i \in Nat \ {0}
        BY <1>a, <2>1, <4>1, Facts
      <4>5. m # n
        BY <4>3, <4>4
      <4> QED BY <4>2, <4>5 DEF Pending
    <3>2. ASSUME NEW m \in Pending, m # n PROVE m \in Pending'
      <4>1. PICK i \in 1 .. Len(m_blocks) : m = m_blocks[i].number
        BY <3>2 DEF Pending
      <4>2. i # 1
        BY <2>1, <3>2, <4>1
      <4>3. i - 1 \in 1 .. Len(m_blocks') /\ m_blocks'[i - 1] = m_blocks[i]
        BY <1>a, <2>3, <4>1, <4>2, Facts
      <4> QED BY <4>1, <4>3 DEF Pending
    <3> QED BY <3>1, <3>2
  <2>5. n \in Pending \cap Committed
    BY <2>1 DEF Pending, Committed
  <2> QED BY <2>2, <2>4, <2>5 DEF Chain!Forget, Pending, Committed
<1>8. CASE UNCHANGED vars
  BY <1>8 DEF vars, Pending, Committed
<1>9. CommitDone \/ CommitPartly \/ Remove => committing.number \in Numbers
  BY <1>a, Ends DEF CommitDone, CommitPartly, Remove, CommitsFront, Front, TypeOK
<1> QED BY <1>1, <1>2, <1>3, <1>4, <1>5, <1>6, <1>7, <1>8, <1>9
        DEF Next, ExecuteStep, CommitStep, Chain!ChainNext

\* executeBlock and commitBlock implement the chain of blocks: each executed
\* once and in order, committed from the oldest on, removed when committed.
THEOREM PipelineRefinesChain == Spec => RefinesChain
BY PipelineInit, PipelineStep, RefinesInit, RefinesStep, PTL
   DEF Spec, RefinesChain, Chain!ChainSpec, Pending, Committed

-----------------------------------------------------------------------------
(* Blocks without a result, and blocks that are committed again.           *)

\* ResultUnlessFailed, also while a block executes.
HasResultOrReason ==
    \A i \in 1 .. Len(m_blocks) :
       \/ m_blocks[i].result = TRUE
       \/ m_blocks[i].number \in failed
       \/ executing.phase = "running" /\ m_blocks[i].number = executing.number

\* A block that the storage has committed, without an error told to the
\* caller, is at the end of its commit or behind the front.
BehindFront ==
    \A n \in Numbers : commits[n] > 0 /\ n \notin misreported =>
       /\ commits[n] = 1
       /\ \/ committing.phase \in {"config", "notify", "remove"} /\ committing.number = n
          \/ m_blocks # <<>> => n < m_blocks[1].number

LEMMA ResultStep == PipelineInv /\ HasResultOrReason /\ [Next]_vars => HasResultOrReason'
<1> SUFFICES ASSUME PipelineInv, HasResultOrReason, [Next]_vars PROVE HasResultOrReason'
  OBVIOUS
<1>a. TypeOK /\ Numbered /\ CommitsFront /\ ExecutesLast
  BY DEF PipelineInv
<1> USE DEF executeVars, commitVars
<1>1. ASSUME NEW n \in Numbers, ExecuteBlock(n) PROVE HasResultOrReason'
  <2>1. /\ Len(m_blocks') = Len(m_blocks) + 1
        /\ \A i \in 1 .. Len(m_blocks) : m_blocks'[i] = m_blocks[i]
        /\ m_blocks'[Len(m_blocks')] = [number |-> n, result |-> FALSE]
    BY <1>a, <1>1, Appended DEF ExecuteBlock, TypeOK
  <2> QED BY <1>a, <1>1, <2>1, Facts DEF ExecuteBlock, Free, HasResultOrReason
<1>2. CASE ExecuteResult
  <2>1. /\ Len(m_blocks') = Len(m_blocks) /\ Len(m_blocks) \in Nat \ {0}
        /\ \A i \in 1 .. Len(m_blocks) - 1 : m_blocks'[i] = m_blocks[i]
        /\ m_blocks'[Len(m_blocks)].result = TRUE
    BY <1>a, <1>2, GivenResult, Ends DEF ExecuteResult, TypeOK, ExecutesLast
  <2>2. ASSUME NEW i \in 1 .. Len(m_blocks) - 1 PROVE m_blocks[i].number # executing.number
    <3>1. m_blocks[1].number \in Nat /\ Len(m_blocks) \in 1 .. Len(m_blocks) /\ i \in 1 .. Len(m_blocks)
      BY <1>a, <2>1, Facts
    <3>2. m_blocks[Len(m_blocks)].number = executing.number
      BY <1>a, <1>2 DEF ExecuteResult, ExecutesLast, Back
    <3>3. /\ m_blocks[i].number = m_blocks[1].number + (i - 1)
          /\ executing.number = m_blocks[1].number + (Len(m_blocks) - 1)
      BY <1>a, <3>1, <3>2 DEF Numbered
    <3> QED BY <2>1, <3>1, <3>3
  <2> QED BY <1>2, <2>1, <2>2 DEF ExecuteResult, HasResultOrReason
<1>3. CASE ExecuteStore \/ ExecuteUnlock \/ ExecuteFails \/ ExecuteThrows
  BY <1>3 DEF ExecuteStore, ExecuteUnlock, ExecuteFails, ExecuteThrows, HasResultOrReason
<1>4. CASE \/ CommitRefuse \/ CommitStart \/ CommitFails \/ CommitPartly \/ CommitDone \/ Notified \/ CommitUnlock
           \/ AskHash \/ CallbackRepeats \/ \E n \in Numbers : CommitLock(n)
           \/ \E q \in Queries : Collect(q) \/ \E ok \in BOOLEAN : QueryAnswer(q, ok)
  BY <1>4 DEF CommitRefuse, CommitStart, CommitFails, CommitPartly, CommitDone, Notified,
              CommitUnlock, AskHash, CallbackRepeats, CommitLock, Collect, QueryAnswer, HasResultOrReason
<1>5. CASE Remove
  <2>1. /\ Len(m_blocks') = Len(m_blocks) - 1
        /\ \A i \in 1 .. Len(m_blocks') : m_blocks'[i] = m_blocks[i + 1]
    BY <1>a, <1>5, Popped DEF Remove, CommitsFront, TypeOK
  <2>2. \A i \in 1 .. Len(m_blocks') : i + 1 \in 1 .. Len(m_blocks)
    BY <1>a, <2>1, Facts
  <2> QED BY <1>5, <2>1, <2>2 DEF Remove, HasResultOrReason
<1>6. CASE UNCHANGED vars
  BY <1>6 DEF vars, HasResultOrReason
<1> QED BY <1>1, <1>2, <1>3, <1>4, <1>5, <1>6 DEF Next, ExecuteStep, CommitStep

\* A block in the list has a result once nothing executes, unless its
\* execution failed.
THEOREM ResultCorrect == Spec => []ResultUnlessFailed
<1>1. Init => HasResultOrReason
  BY DEF Init, HasResultOrReason
<1>2. HasResultOrReason => ResultUnlessFailed
  BY DEF HasResultOrReason, ResultUnlessFailed, Free
<1> QED BY <1>1, <1>2, PipelineInit, PipelineStep, ResultStep, PTL DEF Spec

LEMMA BehindStep == PipelineInv /\ BehindFront /\ [Next]_vars => BehindFront'
<1> SUFFICES ASSUME PipelineInv, BehindFront, [Next]_vars PROVE BehindFront'
  OBVIOUS
<1>a. /\ TypeOK /\ Numbered /\ CommitsFront /\ ExecutesLast
      /\ Collecting /\ ExecutesNew /\ CommittedOld
  BY DEF PipelineInv
<1> USE DEF executeVars, commitVars
<1>1. ASSUME NEW n \in Numbers, ExecuteBlock(n) PROVE BehindFront'
  <2>1. /\ m_blocks' # <<>> /\ Len(m_blocks') = Len(m_blocks) + 1
        /\ \A i \in 1 .. Len(m_blocks) : m_blocks'[i] = m_blocks[i]
        /\ m_blocks'[Len(m_blocks')] = [number |-> n, result |-> FALSE]
    <3>1. m_blocks \in Seq(Block) /\ m_blocks' = Append(m_blocks, [number |-> n, result |-> FALSE])
      BY <1>a, <1>1 DEF ExecuteBlock, TypeOK
    <3> QED BY <3>1, Appended
  <2>2. CASE m_blocks # <<>>
    <3>1. m_blocks'[1] = m_blocks[1]
      BY <1>a, <2>1, <2>2, Ends DEF TypeOK
    <3> QED BY <1>1, <2>2, <3>1 DEF ExecuteBlock, BehindFront
  <2>3. CASE m_blocks = <<>>
    <3>1. m_blocks'[1].number = n
      BY <2>1, <2>3
    <3>2. \A m \in Numbers : commits[m] > 0 => m <= m_lastExecutedBlockNumber
      BY <1>a, <1>1, <2>3 DEF CommittedOld, Executed, ExecuteBlock, Free
    <3>3. m_lastExecutedBlockNumber < n
      BY <1>a, <1>1, <2>3, Facts DEF ExecuteBlock, Acceptable
    <3>4. \A m \in Numbers : commits[m] > 0 => m < n
      BY <1>a, <3>2, <3>3, Facts
    <3> QED BY <1>1, <3>1, <3>4 DEF ExecuteBlock, BehindFront
  <2> QED BY <2>2, <2>3
<1>2. CASE ExecuteResult
  <2>1. /\ m_blocks # <<>> /\ Len(m_blocks) \in Nat \ {0}
        /\ \A i \in 1 .. Len(m_blocks) - 1 : m_blocks'[i] = m_blocks[i]
        /\ m_blocks'[Len(m_blocks)].number = m_blocks[Len(m_blocks)].number
    BY <1>a, <1>2, GivenResult, Ends DEF ExecuteResult, TypeOK, ExecutesLast
  <2>2. m_blocks'[1].number = m_blocks[1].number
    BY <2>1
  <2> QED BY <1>2, <2>1, <2>2 DEF ExecuteResult, BehindFront
<1>3. CASE ExecuteStore \/ ExecuteUnlock \/ ExecuteFails \/ ExecuteThrows \/ CallbackRepeats
  BY <1>3 DEF ExecuteStore, ExecuteUnlock, ExecuteFails, ExecuteThrows, CallbackRepeats, BehindFront
<1>4. CASE CommitRefuse \/ CommitStart \/ CommitFails \/ CommitUnlock \/ \E n \in Numbers : CommitLock(n)
  BY <1>4 DEF CommitRefuse, CommitStart, CommitFails, CommitUnlock, CommitLock, Free, BehindFront
<1>5. CASE CommitDone
  <2>1. m_blocks # <<>> /\ m_blocks[1].number = committing.number /\ committing.number \in Numbers
    BY <1>a, <1>5, Ends DEF CommitDone, CommitsFront, Front, TypeOK
  <2>2. /\ committing.phase = "commit" /\ committing'.phase = "config"
        /\ committing'.number = committing.number
        /\ UNCHANGED <<m_blocks, misreported>>
    BY <1>a, <1>5 DEF CommitDone, CommitPhase, TypeOK
  <2>3. committing.number \in misreported \/ commits[committing.number] = 0
    BY <1>a, <2>1, <2>2, Facts DEF BehindFront, TypeOK
  <2>4. /\ \A n \in Numbers : n # committing.number => commits'[n] = commits[n]
        /\ commits'[committing.number] = commits[committing.number] + 1
    BY <1>a, <1>5, <2>1 DEF CommitDone, StorageCommitted, TypeOK
  <2> QED BY <2>1, <2>2, <2>3, <2>4 DEF BehindFront
<1>6. CASE Notified
  <2>1. committing'.phase = "remove" /\ committing'.number = committing.number
    BY <1>a, <1>6 DEF Notified, CommitPhase, TypeOK
  <2> QED BY <1>6, <2>1 DEF Notified, BehindFront
<1>7. CASE AskHash \/ \E q \in Queries, ok \in BOOLEAN : QueryAnswer(q, ok)
  BY <1>7 DEF AskHash, QueryAnswer, BehindFront
<1>8. ASSUME NEW q \in Queries, Collect(q) PROVE BehindFront'
  <2>1. UNCHANGED <<m_blocks, commits>>
    BY <1>8 DEF Collect
  <2>2. \/ UNCHANGED <<committing, misreported>>
        \/ misreported' = misreported \cup {committing.number}
        \/ /\ misreported' = misreported /\ committing'.phase \in {"notify", "remove"}
           /\ committing'.number = committing.number
    BY <1>a, <1>8 DEF Collect, Collected, CommitPhase, TypeOK
  <2> QED BY <2>1, <2>2 DEF BehindFront
<1>9. CASE Remove
  <2>1. /\ m_blocks # <<>> /\ m_blocks[1].number = committing.number /\ Len(m_blocks) \in Nat \ {0}
        /\ m_blocks[1].number \in Nat /\ committing.phase = "remove"
        /\ UNCHANGED <<commits, misreported>>
    BY <1>a, <1>9, Ends, Facts DEF Remove, CommitsFront, Front, TypeOK
  <2>2. /\ Len(m_blocks') = Len(m_blocks) - 1
        /\ m_blocks' # <<>> => Len(m_blocks) # 1
        /\ \A i \in 1 .. Len(m_blocks') : m_blocks'[i] = m_blocks[i + 1]
    <3>1. m_blocks \in Seq(Block) /\ m_blocks' = Tail(m_blocks)
      BY <1>a, <1>9 DEF Remove, TypeOK
    <3> QED BY <2>1, <3>1, Popped
  <2>3. m_blocks' # <<>> => m_blocks'[1].number = m_blocks[1].number + 1
    BY <1>a, <2>1, <2>2 DEF Numbered
  <2> QED BY <1>a, <2>1, <2>3, Facts DEF BehindFront
<1>10. CASE UNCHANGED vars
  BY <1>10 DEF vars, BehindFront
<1>11. CASE CommitPartly
  <2>1. /\ committing.phase = "commit" /\ committing.number \in Numbers
        /\ m_blocks' = m_blocks /\ misreported' = misreported \cup {committing.number}
    BY <1>a, <1>11, Ends DEF CommitPartly, CommitsFront, Front, TypeOK
  <2>2. \A n \in Numbers : n # committing.number => commits'[n] = commits[n]
    BY <1>a, <1>11, <2>1 DEF CommitPartly, StorageCommitted, TypeOK
  <2> QED BY <2>1, <2>2 DEF BehindFront
<1> QED BY <1>1, <1>2, <1>3, <1>4, <1>5, <1>6, <1>7, <1>8, <1>9, <1>10, <1>11
        DEF Next, ExecuteStep, CommitStep

\* The storage commits a block again only if the caller of an earlier commit
\* was told of an error.
THEOREM CommittedOnceCorrect == Spec => []CommittedOnce
<1>1. Init => BehindFront
  BY DEF Init, BehindFront
<1>2. PipelineInv /\ BehindFront => CommittedOnce
  BY PipelineAssumption DEF PipelineInv, TypeOK, BehindFront, CommittedOnce
<1> QED BY <1>1, <1>2, PipelineInit, PipelineStep, BehindStep, PTL DEF Spec
=============================================================================
