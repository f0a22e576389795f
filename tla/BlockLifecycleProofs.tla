------------------------ MODULE BlockLifecycleProofs ------------------------
(***************************************************************************)
(* Proofs about BlockLifecycle, for any executors and any DAG: the joins   *)
(* deliver what all participants have answered, and the two-phase commit   *)
(* is atomic.                                                              *)
(***************************************************************************)
EXTENDS BlockLifecycle, FiniteSetTheorems, TLAPS

-----------------------------------------------------------------------------
(* What the operations on a join keep.                                     *)

\* Counts are answers to calls, an answer is counted once, and the callback
\* runs when all have come.
JoinInv(join) ==
    /\ Counted(join) \subseteq join.asked
    /\ join.success \cap join.failed = {}
    /\ Exact(join) => DeliversAll(join)

\* While the storage has not answered, nobody else was called.
StorageFirst(join) ==
    Storage \in Waiting(join) /\ join.kind # "ROLLBACK" =>
       join.asked = {Storage} /\ join.delivered = {}

LEMMA ParticipantsFinite ==
  /\ IsFiniteSet(Participants) /\ Storage \in Participants /\ Executors \subseteq Participants
  /\ \A S \in SUBSET Participants : IsFiniteSet(S) /\ Cardinality(S) \in Nat
<1>1. IsFiniteSet(Participants)
  BY FanOutAssumption, FS_AddElement DEF Participants
<1>2. \A S \in SUBSET Participants : IsFiniteSet(S) /\ Cardinality(S) \in Nat
  BY <1>1, FS_Subset, FS_CardinalityType
<1> QED BY <1>1, <1>2 DEF Participants

LEMMA NewJoinKeeps ==
  ASSUME NEW kinds, NEW kind \in kinds, NEW total \in Nat, NEW asked \in SUBSET Participants
  PROVE  /\ NewJoin(kind, total, asked) \in Joins(kinds)
         /\ NotBegun \in Joins(kinds)
         /\ JoinInv(NewJoin(kind, total, asked)) /\ JoinInv(NotBegun)
BY DEF NewJoin, NotBegun, Joins, JoinInv, Counted, DeliversAll

\* If all of the calls are in the total, all have been answered when the sum
\* of the counters reaches it.
LEMMA CompleteMeansAll ==
  ASSUME NEW kinds, NEW join \in Joins(kinds), JoinInv(join), Exact(join), Complete(join)
  PROVE  Waiting(join) = {}
<1>1. /\ join.success \in SUBSET Participants /\ join.failed \in SUBSET Participants
      /\ join.asked \in SUBSET Participants
  BY DEF Joins
<1>2. /\ IsFiniteSet(join.success) /\ IsFiniteSet(join.failed) /\ IsFiniteSet(join.asked)
      /\ Cardinality(join.success) \in Nat /\ Cardinality(join.failed) \in Nat
      /\ Cardinality(join.asked) \in Nat
  BY <1>1, ParticipantsFinite
<1>3. Cardinality(Counted(join)) = Cardinality(join.success) + Cardinality(join.failed)
  <2>1. Cardinality(join.success \cap join.failed) = 0
    BY FS_EmptySet DEF JoinInv
  <2>2. Cardinality(join.success \cup join.failed)
          = Cardinality(join.success) + Cardinality(join.failed)
              - Cardinality(join.success \cap join.failed)
    BY <1>2, FS_Union
  <2> QED BY <1>2, <2>1, <2>2 DEF Counted
<1>4. Cardinality(Counted(join)) >= Cardinality(join.asked)
  BY <1>3 DEF Complete, Exact
<1>5. Counted(join) = join.asked
  <2>1. Counted(join) \subseteq join.asked
    BY DEF JoinInv
  <2>2. /\ Cardinality(Counted(join)) <= Cardinality(join.asked)
        /\ Cardinality(Counted(join)) = Cardinality(join.asked) => Counted(join) = join.asked
    BY <1>2, <2>1, FS_Subset
  <2>3. Cardinality(Counted(join)) \in Nat
    BY <1>2, <1>3
  <2> QED BY <1>2, <1>4, <2>2, <2>3
<1> QED BY <1>5 DEF Waiting

LEMMA CountKeeps ==
  ASSUME NEW kinds, NEW join \in Joins(kinds), JoinInv(join),
         NEW p \in Participants, p \in Waiting(join), NEW ok \in BOOLEAN, NEW next,
         next = Count(join, p, ok) \/ next = CountOnly(join, p, ok)
  PROVE  /\ next \in Joins(kinds) /\ JoinInv(next)
         /\ next.kind = join.kind /\ next.asked = join.asked /\ next.total = join.total
         /\ next.delivered = join.delivered
         /\ Waiting(next) = Waiting(join) \ {p}
<1>1. /\ next \in Joins(kinds)
      /\ next.kind = join.kind /\ next.asked = join.asked /\ next.total = join.total
      /\ next.delivered = join.delivered
      /\ next.success = IF ok THEN join.success \cup {p} ELSE join.success
      /\ next.failed = IF ok THEN join.failed ELSE join.failed \cup {p}
  <2> DEFINE overlap == join.overlap \/ Checking(join) # {}
             success == IF ok THEN join.success \cup {p} ELSE join.success
             failed == IF ok THEN join.failed ELSE join.failed \cup {p}
  <2>1. overlap \in BOOLEAN
    OBVIOUS
  <2>2. success \in SUBSET Participants /\ failed \in SUBSET Participants
    BY DEF Joins
  <2>3. \/ next = [join EXCEPT !.success = success, !.failed = failed, !.overlap = overlap]
        \/ next = [join EXCEPT !.success = success, !.failed = failed, !.checked = @ \cup {p}]
    BY DEF Count, CountOnly
  <2> HIDE DEF overlap, success, failed
  <2>4. CASE next = [join EXCEPT !.success = success, !.failed = failed, !.overlap = overlap]
    <3>1. /\ next.kind = join.kind /\ next.asked = join.asked /\ next.total = join.total
          /\ next.delivered = join.delivered /\ next.success = success /\ next.failed = failed
      BY <2>4 DEF Joins
    <3>2. next \in Joins(kinds)
      BY <2>1, <2>2, <2>4 DEF Joins
    <3> QED BY <3>1, <3>2 DEF success, failed
  <2>5. CASE next = [join EXCEPT !.success = success, !.failed = failed, !.checked = @ \cup {p}]
    <3>1. /\ next.kind = join.kind /\ next.asked = join.asked /\ next.total = join.total
          /\ next.delivered = join.delivered /\ next.success = success /\ next.failed = failed
      BY <2>5 DEF Joins
    <3>2. next \in Joins(kinds)
      BY <2>2, <2>5 DEF Joins
    <3> QED BY <3>1, <3>2 DEF success, failed
  <2> QED BY <2>3, <2>4, <2>5
<1>2. Exact(join) => join.delivered = {}
  BY DEF JoinInv, DeliversAll
<1>3. JoinInv(next)
  BY <1>1, <1>2 DEF JoinInv, Counted, Waiting, Exact, DeliversAll
<1>4. Waiting(next) = Waiting(join) \ {p}
  BY <1>1 DEF Waiting, Counted
<1> QED BY <1>1, <1>3, <1>4

\* More calls, before the callback has run.
Ask(join, S) == [join EXCEPT !.asked = @ \cup S]

LEMMA AskKeeps ==
  ASSUME NEW kinds, NEW join \in Joins(kinds), JoinInv(join), join.delivered = {},
         NEW S \in SUBSET Participants
  PROVE  /\ Ask(join, S) \in Joins(kinds) /\ JoinInv(Ask(join, S))
         /\ Ask(join, S).kind = join.kind /\ Ask(join, S).delivered = {}
         /\ Waiting(Ask(join, S)) \subseteq Waiting(join) \cup S
<1> DEFINE next == Ask(join, S)
<1>a. next = [join EXCEPT !.asked = @ \cup S]
  BY DEF Ask
<1> HIDE DEF next
<1>1. /\ next.kind = join.kind /\ next.asked = join.asked \cup S /\ next.success = join.success
      /\ next.failed = join.failed /\ next.delivered = join.delivered
  BY <1>a DEF Joins
<1>2. next \in Joins(kinds)
  BY <1>a DEF Joins
<1>3. /\ JoinInv(next)
      /\ Waiting(next) \subseteq Waiting(join) \cup S
  BY <1>1, <1>2 DEF JoinInv, Waiting, Counted, DeliversAll
<1> QED BY <1>1, <1>2, <1>3 DEF next

LEMMA CheckKeeps ==
  ASSUME NEW kinds, NEW join \in Joins(kinds), JoinInv(join), NEW p \in Checking(join)
  PROVE  /\ Check(join, p) \in Joins(kinds) /\ JoinInv(Check(join, p))
         /\ Check(join, p).kind = join.kind /\ Check(join, p).asked = join.asked
         /\ Waiting(Check(join, p)) = Waiting(join)
         /\ join.delivered \subseteq Check(join, p).delivered
         /\ Complete(join) => [by |-> p, error |-> join.failed # {}] \in Check(join, p).delivered
<1> DEFINE d == [by |-> p, error |-> join.failed # {}]
           next == Check(join, p)
<1>1. (join.failed # {}) \in BOOLEAN /\ p \in Participants
  BY DEF Joins, Checking, Counted
<1>2. d \in [by : Participants, error : BOOLEAN] /\ (d.error <=> join.failed # {})
  BY <1>1
<1>3. next = [join EXCEPT !.checked = @ \cup {p},
                          !.delivered = IF Complete(join) THEN @ \cup {d} ELSE @]
  BY DEF Check
<1> HIDE DEF d, next
<1>4. /\ join.checked \cup {p} \in SUBSET Participants
      /\ (IF Complete(join) THEN join.delivered \cup {d} ELSE join.delivered)
            \in SUBSET [by : Participants, error : BOOLEAN]
  BY <1>1, <1>2 DEF Joins
<1>5. /\ next \in Joins(kinds)
      /\ next.kind = join.kind /\ next.asked = join.asked /\ next.total = join.total
      /\ next.success = join.success /\ next.failed = join.failed
      /\ next.delivered = IF Complete(join) THEN join.delivered \cup {d} ELSE join.delivered
  BY <1>3, <1>4 DEF Joins
<1>6. Waiting(next) = Waiting(join)
  BY <1>5 DEF Waiting, Counted
<1>7. Exact(next) => DeliversAll(next)
  <2>1. Exact(join) /\ Complete(join) => Waiting(join) = {}
    BY CompleteMeansAll
  <2>2. Exact(join) => DeliversAll(join)
    BY DEF JoinInv
  <2> QED BY <1>2, <1>5, <1>6, <2>1, <2>2 DEF Exact, DeliversAll
<1>8. JoinInv(next)
  BY <1>5, <1>7 DEF JoinInv, Counted
<1> QED BY <1>5, <1>6, <1>8 DEF d, next

-----------------------------------------------------------------------------
(* The invariant of the four joins, and of the order to commit.            *)

CommitInv ==
    /\ prepare \in Joins({"PREPARE"}) /\ JoinInv(prepare) /\ StorageFirst(prepare)
    /\ second \in Joins({"COMMIT", "ROLLBACK"}) /\ JoinInv(second) /\ StorageFirst(second)
    /\ second.kind = "COMMIT" => CommitOrdered
    /\ second.kind = "ROLLBACK" => RollbackOrdered
    /\ prewrite # "done" => prepare = NotBegun /\ second = NotBegun

ExecutionInv ==
    /\ nextBlock \in Joins({"NEXT_BLOCK"}) /\ JoinInv(nextBlock)
    /\ hashes \in Joins({"HASHES"}) /\ JoinInv(hashes)

LifecycleInv == registered \in SUBSET Executors /\ ExecutionInv /\ CommitInv

LEMMA LifecycleInit == Init => LifecycleInv
<1> SUFFICES ASSUME Init PROVE LifecycleInv
  OBVIOUS
<1>1. JoinInv(NotBegun) /\ \A kinds : NotBegun \in Joins(kinds)
  BY DEF NewJoin, NotBegun, Joins, JoinInv, Counted, DeliversAll
<1>2. StorageFirst(NotBegun) /\ NotBegun.kind = "NONE"
  BY DEF StorageFirst, Waiting, NotBegun, NewJoin
<1> QED BY <1>1, <1>2 DEF Init, ExecutionInit, CommitInit, LifecycleInv, ExecutionInv, CommitInv

LEMMA ExecutionKeeps ==
  ASSUME LifecycleInv, ExecutionNext
  PROVE  registered' = registered /\ ExecutionInv'
<1>a. registered \in SUBSET Executors /\ ExecutionInv
  BY DEF LifecycleInv
<1>b. registered \in SUBSET Participants /\ Cardinality(registered) \in Nat
  BY <1>a, ParticipantsFinite
<1> USE DEF dagVars, hashVars
<1>1. CASE AsyncExecute
  <2>1. registered' = registered /\ hashes' = hashes
    BY <1>1 DEF AsyncExecute
  <2>2. \/ nextBlock' = nextBlock
        \/ nextBlock' = NewJoin("NEXT_BLOCK", Cardinality(registered), registered)
    BY <1>1 DEF AsyncExecute
  <2> QED BY <1>a, <1>b, <2>1, <2>2, NewJoinKeeps DEF ExecutionInv
<1>2. ASSUME NEW e \in Executors, NEW ok \in BOOLEAN, NextBlockAnswer(e, ok)
      PROVE  registered' = registered /\ ExecutionInv'
  BY <1>a, <1>2, CountKeeps, ParticipantsFinite DEF NextBlockAnswer, ExecutionInv
<1>3. ASSUME NEW e \in Executors, NextBlockCheck(e)
      PROVE  registered' = registered /\ ExecutionInv'
  BY <1>a, <1>3, CheckKeeps DEF NextBlockCheck, ExecutionInv
<1>4. ASSUME NEW e \in Executors, NEW ok \in BOOLEAN, HashAnswer(e, ok)
      PROVE  registered' = registered /\ ExecutionInv'
  BY <1>a, <1>4, CountKeeps, ParticipantsFinite DEF HashAnswer, ExecutionInv
<1>5. ASSUME NEW e \in Executors, HashCheck(e)
      PROVE  registered' = registered /\ ExecutionInv'
  BY <1>a, <1>5, CheckKeeps DEF HashCheck, ExecutionInv
<1>6. ASSUME NEW ok \in BOOLEAN, DMTEnd(ok)
      PROVE  registered' = registered /\ ExecutionInv'
  <2>1. registered' = registered /\ nextBlock' = nextBlock
    BY <1>6 DEF DMTEnd
  <2>2. \/ hashes' = hashes
        \/ hashes' = NewJoin("HASHES", Cardinality(registered), registered)
    BY <1>6 DEF DMTEnd
  <2> QED BY <1>a, <1>b, <2>1, <2>2, NewJoinKeeps DEF ExecutionInv
<1>7. CASE \/ DMTStops
           \/ \E e \in Executors : HashXor(e)
           \/ \E c \in DAGContracts :
                 \/ \E error \in BOOLEAN, size \in 0 .. DAGSize[c] : DAGSubtract(c, error, size)
                 \/ DAGStore(c) \/ DAGCheck(c)
  BY <1>a, <1>7 DEF DMTStops, HashXor, hashVars, DAGSubtract, DAGStore, DAGCheck, ExecutionInv
<1> QED BY <1>1, <1>2, <1>3, <1>4, <1>5, <1>6, <1>7 DEF ExecutionNext, ExecutionStep

LEMMA CommitKeeps ==
  ASSUME LifecycleInv, CommitNext
  PROVE  registered' = registered /\ CommitInv'
<1>a. registered \in SUBSET Executors /\ CommitInv
  BY DEF LifecycleInv
<1>b. /\ registered \in SUBSET Participants /\ {Storage} \in SUBSET Participants
      /\ registered \cup {Storage} \in SUBSET Participants
      /\ 1 + Cardinality(registered) \in Nat
  BY <1>a, ParticipantsFinite
<1>c. Storage \notin registered
  BY <1>a, FanOutAssumption
<1>d. NotBegun.kind = "NONE" /\ NotBegun.asked = {} /\ Waiting(NotBegun) = {} /\ Checking(NotBegun) = {}
  BY DEF NotBegun, NewJoin, Waiting, Checking, Counted
<1>1. CASE AsyncCommit
  BY <1>a, <1>1 DEF AsyncCommit, CommitInv, CommitOrdered, RollbackOrdered
<1>2. ASSUME NEW ok \in BOOLEAN, Prewritten(ok) PROVE registered' = registered /\ CommitInv'
  <2>1. /\ registered' = registered /\ second' = second
        /\ prepare = NotBegun /\ second = NotBegun
        /\ \/ prewrite' = "failed" /\ prepare' = prepare
           \/ /\ prewrite' = "done"
              /\ prepare' = NewJoin("PREPARE", 1 + Cardinality(registered), {Storage})
    BY <1>a, <1>2 DEF Prewritten, CommitInv
  <2>2. /\ NewJoin("PREPARE", 1 + Cardinality(registered), {Storage}) \in Joins({"PREPARE"})
        /\ JoinInv(NewJoin("PREPARE", 1 + Cardinality(registered), {Storage}))
    BY <1>b, NewJoinKeeps
  <2>3. StorageFirst(NewJoin("PREPARE", 1 + Cardinality(registered), {Storage}))
    BY DEF StorageFirst, NewJoin
  <2> QED BY <1>a, <1>d, <2>1, <2>2, <2>3 DEF CommitInv
<1>3. ASSUME NEW ok \in BOOLEAN, StoragePrepared(ok) PROVE registered' = registered /\ CommitInv'
  <2> DEFINE counted == CountOnly(prepare, Storage, ok)
  <2>1. /\ registered' = registered /\ second' = second /\ prewrite' = prewrite
        /\ Storage \in Waiting(prepare)
        /\ prepare' = Ask(counted, registered)
    BY <1>3 DEF StoragePrepared, Ask
  <2>2. prewrite = "done" /\ prepare.delivered = {}
    BY <1>a, <1>d, <2>1 DEF CommitInv, StorageFirst, Joins
  <2>3. /\ counted \in Joins({"PREPARE"}) /\ JoinInv(counted) /\ counted.delivered = {}
        /\ Waiting(counted) = Waiting(prepare) \ {Storage} /\ counted.kind = prepare.kind
    BY <1>a, <2>1, <2>2, CountKeeps, ParticipantsFinite DEF CommitInv
  <2> HIDE DEF counted
  <2>4. /\ prepare' \in Joins({"PREPARE"}) /\ JoinInv(prepare') /\ prepare'.delivered = {}
        /\ Waiting(prepare') \subseteq Waiting(counted) \cup registered
    BY <1>b, <2>1, <2>3, AskKeeps
  <2>5. StorageFirst(prepare')
    BY <1>c, <2>3, <2>4 DEF StorageFirst
  <2> QED BY <1>a, <2>1, <2>2, <2>4, <2>5 DEF CommitInv, CommitOrdered, RollbackOrdered
<1>4. ASSUME NEW e \in Executors, NEW ok \in BOOLEAN, ExecutorPrepared(e, ok)
      PROVE  registered' = registered /\ CommitInv'
  <2>1. /\ registered' = registered /\ second' = second /\ prewrite' = prewrite
        /\ e \in Waiting(prepare) /\ prepare' = Count(prepare, e, ok)
    BY <1>4 DEF ExecutorPrepared
  <2>2. /\ prepare' \in Joins({"PREPARE"}) /\ JoinInv(prepare')
        /\ prepare'.delivered = prepare.delivered /\ prepare'.asked = prepare.asked
        /\ prepare'.kind = prepare.kind /\ Waiting(prepare') \subseteq Waiting(prepare)
    BY <1>a, <2>1, CountKeeps, ParticipantsFinite DEF CommitInv
  <2>3. prewrite = "done"
    BY <1>a, <1>d, <2>1 DEF CommitInv
  <2> QED BY <1>a, <2>1, <2>2, <2>3 DEF CommitInv, StorageFirst, CommitOrdered, RollbackOrdered
<1>5. ASSUME NEW e \in Executors, PrepareCheck(e) PROVE registered' = registered /\ CommitInv'
  <2> DEFINE d == [by |-> e, error |-> prepare.failed # {}]
  <2>1. /\ registered' = registered /\ prewrite' = prewrite
        /\ e \in Checking(prepare) /\ prepare' = Check(prepare, e)
        /\ \/ second' = second
           \/ Complete(prepare) /\ second' = SecondPhase(prepare)
    BY <1>5 DEF PrepareCheck
  <2>2. /\ prepare' \in Joins({"PREPARE"}) /\ JoinInv(prepare')
        /\ prepare.delivered \subseteq prepare'.delivered /\ prepare'.asked = prepare.asked
        /\ prepare'.kind = prepare.kind /\ Waiting(prepare') = Waiting(prepare)
        /\ Complete(prepare) => d \in prepare'.delivered
    BY <1>a, <2>1, CheckKeeps DEF CommitInv
  <2>3. prewrite = "done"
    BY <1>a, <1>d, <2>1 DEF CommitInv
  <2>4. StorageFirst(prepare')
    <3>1. Storage \notin Waiting(prepare)
      BY <1>a, <2>1, FanOutAssumption DEF CommitInv, StorageFirst, JoinInv, Checking, Joins
    <3> QED BY <2>2, <3>1 DEF StorageFirst
  <2>5. CASE second' = second
    BY <1>a, <2>1, <2>2, <2>3, <2>4, <2>5 DEF CommitInv, CommitOrdered, RollbackOrdered
  <2>6. CASE Complete(prepare) /\ second' = SecondPhase(prepare)
    <3>1. /\ BatchBlockCommit \in Joins({"COMMIT", "ROLLBACK"}) /\ JoinInv(BatchBlockCommit)
          /\ BatchBlockRollback \in Joins({"COMMIT", "ROLLBACK"}) /\ JoinInv(BatchBlockRollback)
      BY <1>b, NewJoinKeeps DEF BatchBlockCommit, BatchBlockRollback
    <3>2. /\ StorageFirst(BatchBlockCommit) /\ BatchBlockCommit.kind = "COMMIT"
          /\ StorageFirst(BatchBlockRollback) /\ BatchBlockRollback.kind = "ROLLBACK"
      BY DEF BatchBlockCommit, BatchBlockRollback, NewJoin, StorageFirst
    <3>3. CASE prepare.failed # {}
      <4>1. RollbackOrdered'
        BY <2>2, <2>6, <3>3 DEF RollbackOrdered
      <4> QED BY <1>a, <2>1, <2>2, <2>3, <2>4, <2>6, <3>1, <3>2, <3>3, <4>1 DEF CommitInv, SecondPhase
    <3>4. CASE prepare.failed = {}
      <4>1. CommitOrdered'
        BY <2>2, <2>6, <3>4 DEF CommitOrdered
      <4> QED BY <1>a, <2>1, <2>2, <2>3, <2>4, <2>6, <3>1, <3>2, <3>4, <4>1 DEF CommitInv, SecondPhase
    <3> QED BY <3>3, <3>4
  <2> QED BY <2>1, <2>5, <2>6
<1>6. ASSUME NEW ok \in BOOLEAN, StorageEnded(ok) PROVE registered' = registered /\ CommitInv'
  <2> DEFINE counted == CountOnly(second, Storage, ok)
  <2>1. /\ registered' = registered /\ prepare' = prepare /\ prewrite' = prewrite
        /\ Storage \in Waiting(second)
    BY <1>6 DEF StorageEnded
  <2>2. prewrite = "done"
    BY <1>a, <1>d, <2>1 DEF CommitInv
  <2>3. /\ counted \in Joins({"COMMIT", "ROLLBACK"}) /\ JoinInv(counted)
        /\ counted.delivered = second.delivered /\ counted.kind = second.kind
        /\ Waiting(counted) = Waiting(second) \ {Storage}
    BY <1>a, <2>1, CountKeeps, ParticipantsFinite DEF CommitInv
  <2>4. /\ second.kind = "COMMIT" => second' = Ask(counted, registered)
        /\ second.kind # "COMMIT" => second' = [counted EXCEPT !.asked = @]
    BY <1>6 DEF StorageEnded, Ask
  <2> HIDE DEF counted
  <2>5. CASE second.kind = "COMMIT"
    <3>1. second.delivered = {} /\ second' = Ask(counted, registered)
      BY <1>a, <2>1, <2>4, <2>5 DEF CommitInv, StorageFirst
    <3>2. /\ second' \in Joins({"COMMIT", "ROLLBACK"}) /\ JoinInv(second')
          /\ second'.kind = second.kind /\ Waiting(second') \subseteq Waiting(counted) \cup registered
      BY <1>b, <2>3, <3>1, AskKeeps
    <3> QED BY <1>a, <1>c, <2>1, <2>2, <2>3, <3>2
            DEF CommitInv, StorageFirst, CommitOrdered, RollbackOrdered
  <2>6. CASE second.kind # "COMMIT"
    <3>1. second' = counted
      BY <2>3, <2>4, <2>6 DEF Joins
    <3> QED BY <1>a, <2>1, <2>2, <2>3, <3>1
            DEF CommitInv, StorageFirst, CommitOrdered, RollbackOrdered
  <2> QED BY <2>5, <2>6
<1>7. ASSUME NEW e \in Executors, NEW ok \in BOOLEAN, ExecutorEnded(e, ok)
      PROVE  registered' = registered /\ CommitInv'
  <2>1. /\ registered' = registered /\ prepare' = prepare /\ prewrite' = prewrite
        /\ e \in Waiting(second) /\ second' = Count(second, e, ok)
    BY <1>7 DEF ExecutorEnded
  <2>2. /\ second' \in Joins({"COMMIT", "ROLLBACK"}) /\ JoinInv(second')
        /\ second'.delivered = second.delivered /\ second'.asked = second.asked
        /\ second'.kind = second.kind /\ Waiting(second') \subseteq Waiting(second)
    BY <1>a, <2>1, CountKeeps, ParticipantsFinite DEF CommitInv
  <2>3. prewrite = "done"
    BY <1>a, <1>d, <2>1 DEF CommitInv
  <2> QED BY <1>a, <2>1, <2>2, <2>3 DEF CommitInv, StorageFirst, CommitOrdered, RollbackOrdered
<1>8. ASSUME NEW e \in Executors, SecondCheck(e) PROVE registered' = registered /\ CommitInv'
  <2>1. /\ registered' = registered /\ prepare' = prepare /\ prewrite' = prewrite
        /\ e \in Checking(second) /\ second' = Check(second, e)
    BY <1>8 DEF SecondCheck
  <2>2. /\ second' \in Joins({"COMMIT", "ROLLBACK"}) /\ JoinInv(second')
        /\ second'.kind = second.kind /\ Waiting(second') = Waiting(second)
    <3>1. second \in Joins({"COMMIT", "ROLLBACK"}) /\ JoinInv(second)
      BY <1>a DEF CommitInv
    <3>2. ASSUME NEW kinds, second \in Joins(kinds)
          PROVE  /\ Check(second, e) \in Joins(kinds) /\ JoinInv(Check(second, e))
                 /\ Check(second, e).kind = second.kind
                 /\ Waiting(Check(second, e)) = Waiting(second)
      <4>1. e \in Checking(second) /\ JoinInv(second)
        BY <2>1, <3>1
      <4> QED BY <3>2, <4>1, CheckKeeps, ZenonT(60)
    <3> QED BY <2>1, <3>1, <3>2
  <2>3. prewrite = "done"
    BY <1>a, <1>d, <2>1 DEF CommitInv
  <2>4. StorageFirst(second')
    <3>1. Storage \in Waiting(second) => second.kind = "ROLLBACK"
      BY <1>a, <2>1, FanOutAssumption DEF CommitInv, StorageFirst, JoinInv, Checking
    <3> QED BY <2>2, <3>1 DEF StorageFirst
  <2> QED BY <1>a, <2>1, <2>2, <2>3, <2>4 DEF CommitInv, CommitOrdered, RollbackOrdered
<1> QED BY <1>1, <1>2, <1>3, <1>4, <1>5, <1>6, <1>7, <1>8 DEF CommitNext, CommitStep

LEMMA LifecycleStep == LifecycleInv /\ [Next]_vars => LifecycleInv'
<1> SUFFICES ASSUME LifecycleInv, [Next]_vars PROVE LifecycleInv'
  OBVIOUS
<1>a. registered \in SUBSET Executors /\ ExecutionInv /\ CommitInv
  BY DEF LifecycleInv
<1>1. UNCHANGED commitVars => CommitInv'
  BY <1>a DEF commitVars, CommitInv, CommitOrdered, RollbackOrdered
<1>2. UNCHANGED executionVars => ExecutionInv'
  BY <1>a DEF executionVars, hashVars, ExecutionInv
<1>3. ASSUME NEW e \in Executors, Register(e) PROVE LifecycleInv'
  BY <1>a, <1>1, <1>2, <1>3 DEF Register, RegisterExecutor, LifecycleInv
<1>4. CASE ExecutionNext /\ UNCHANGED commitVars
  BY <1>a, <1>1, <1>4, ExecutionKeeps DEF LifecycleInv
<1>5. CASE (AsyncCommit \/ CommitStep) /\ UNCHANGED executionVars
  BY <1>a, <1>2, <1>5, CommitKeeps DEF LifecycleInv, CommitNext
<1>6. CASE UNCHANGED vars
  BY <1>a, <1>1, <1>2, <1>6 DEF vars, LifecycleInv
<1> QED BY <1>3, <1>4, <1>5, <1>6 DEF Next

-----------------------------------------------------------------------------
(* The theorems.                                                           *)

\* For any number of executors, the callback of a fan-out runs when all
\* participants have answered, and reports success exactly if all succeeded.
THEOREM JoinsDeliverAllCorrect == Spec => []JoinsDeliverAll
<1>1. LifecycleInv => JoinsDeliverAll
  BY DEF LifecycleInv, ExecutionInv, CommitInv, JoinInv, JoinsDeliverAll, AllJoins
<1> QED BY <1>1, LifecycleInit, LifecycleStep, PTL DEF Spec

\* asyncCommit is a two-phase commit: it orders a commit only if storage and
\* executors have all prepared, a rollback only if one has not, never both.
THEOREM CommitAtomicCorrect == Spec => []CommitAtomic
<1>1. LifecycleInv => CommitAtomic
  <2> SUFFICES ASSUME LifecycleInv, Exact(prepare)
               PROVE  /\ CommitOrdered => prepare.success = prepare.asked
                      /\ RollbackOrdered => prepare.failed # {}
                      /\ ~(CommitOrdered /\ RollbackOrdered)
                      /\ second.kind = "COMMIT" => CommitOrdered
                      /\ second.kind = "ROLLBACK" => RollbackOrdered
    BY DEF CommitAtomic
  <2>1. CommitInv /\ JoinInv(prepare) /\ DeliversAll(prepare)
    BY DEF LifecycleInv, CommitInv, JoinInv
  <2>2. CommitOrdered => prepare.failed = {} /\ Waiting(prepare) = {}
    BY <2>1 DEF DeliversAll, CommitOrdered
  <2>3. RollbackOrdered => prepare.failed # {}
    BY <2>1 DEF DeliversAll, RollbackOrdered
  <2>4. CommitOrdered => prepare.success = prepare.asked
    BY <2>1, <2>2 DEF JoinInv, Waiting, Counted
  <2> QED BY <2>1, <2>2, <2>3, <2>4 DEF CommitInv
<1> QED BY <1>1, LifecycleInit, LifecycleStep, PTL DEF Spec
=============================================================================
