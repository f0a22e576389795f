------------------------- MODULE BlockStagesProofs -------------------------
(***************************************************************************)
(* Proofs about BlockLifecycle, for any executors and any DAG: the handler *)
(* that is last runs the callback of its fan-out, only handlers that       *)
(* overlap run it twice, and what is committed was accepted, hashed and    *)
(* prepared before.                                                        *)
(***************************************************************************)
EXTENDS BlockLifecycleProofs

USE DEF DMTStates

-----------------------------------------------------------------------------
(* The handlers of one join.                                               *)

\* Without an overlap one handler at a time is between its count and its
\* check, and the one that has delivered was the last.
HandlersInv(join) ==
    /\ join.checked \subseteq Counted(join)
    /\ ~join.overlap => \A p, q \in Checking(join) : p = q
    /\ Exact(join) /\ ~join.overlap /\ join.delivered # {} =>
          Checking(join) = {} /\ \A d1, d2 \in join.delivered : d1 = d2
    /\ join.kind # "ROLLBACK" => Delivers(join, Executors)

\* The total never exceeds the calls that are made: until the storage has
\* answered those are the storage and the executors registered by then.
TotalInv(join) ==
    IF Storage \in Waiting(join) /\ join.kind # "ROLLBACK"
    THEN join.total <= 1 + Cardinality(registered)
    ELSE join.total <= Cardinality(join.asked)

-----------------------------------------------------------------------------
(* The stages: each has begun only if the one before it has succeeded.     *)

\* All executors that were told of the block's start have accepted it.
Accepted == Waiting(nextBlock) = {} /\ nextBlock.failed = {}

StartInv ==
    /\ ~begun => nextBlock = NotBegun
    /\ mode = "CALL" => nextBlock = NotBegun /\ hashes = NotBegun
    /\ \A c \in DAGContracts : dagCalls[c].pc # "none" => begun /\ Accepted
    /\ dmt # "none" => begun /\ Accepted
    /\ Exact(nextBlock)
    /\ nextBlock.asked \subseteq registered

HashInv ==
    /\ dmt \notin {"done", "failed"} => hashes = NotBegun
    /\ hashes.kind = "NONE" => hashes = NotBegun
    /\ Exact(hashes)
    /\ totalHash \subseteq hashes.success
    /\ hashes.checked \cap hashes.success \subseteq totalHash
    /\ hashes.kind # "NONE" => nextBlock.asked \subseteq hashes.asked
    /\ HasResult => hashes.kind # "NONE" /\ Waiting(hashes) = {} /\ hashes.failed = {}
    /\ RootComplete

ResultInv ==
    /\ prewrite # "none" => HasResult
    /\ prepare # NotBegun /\ Storage \notin Waiting(prepare) =>
          nextBlock.asked \subseteq prepare.asked

ExecutionHandlers == HandlersInv(nextBlock) /\ HandlersInv(hashes)

CommitHandlers ==
    /\ HandlersInv(prepare) /\ TotalInv(prepare)
    /\ HandlersInv(second) /\ TotalInv(second)
    /\ second.kind = "NONE" => second = NotBegun

StagesInv ==
    /\ LifecycleInv
    /\ ExecutionHandlers /\ CommitHandlers
    /\ StartInv /\ HashInv /\ ResultInv

-----------------------------------------------------------------------------
(* What the operations on a join do to its handlers.                       *)

LEMMA NewJoinHandlers ==
  ASSUME NEW kinds, NEW kind \in kinds, NEW total \in Nat, NEW asked \in SUBSET Participants
  PROVE  /\ HandlersInv(NewJoin(kind, total, asked)) /\ HandlersInv(NotBegun)
BY DEF NewJoin, NotBegun, HandlersInv, Counted, Checking, Waiting, Delivers

\* When all have answered, the counters add up to the number of calls.
LEMMA AnswersAddUp ==
  ASSUME NEW kinds, NEW join \in Joins(kinds), JoinInv(join), Waiting(join) = {},
         join.total <= Cardinality(join.asked)
  PROVE  Complete(join)
<1>1. /\ join.success \in SUBSET Participants /\ join.failed \in SUBSET Participants
      /\ join.asked \in SUBSET Participants /\ join.total \in Nat
  BY DEF Joins
<1>2. /\ IsFiniteSet(join.success) /\ IsFiniteSet(join.failed)
      /\ Cardinality(join.success) \in Nat /\ Cardinality(join.failed) \in Nat
      /\ Cardinality(join.asked) \in Nat
  BY <1>1, ParticipantsFinite
<1>3. Cardinality(join.success \cap join.failed) = 0
  BY FS_EmptySet DEF JoinInv
<1>4. Cardinality(join.success \cup join.failed)
        = Cardinality(join.success) + Cardinality(join.failed)
            - Cardinality(join.success \cap join.failed)
  BY <1>2, FS_Union
<1>5. join.success \cup join.failed = join.asked
  BY DEF JoinInv, Waiting, Counted
<1> QED BY <1>1, <1>2, <1>3, <1>4, <1>5 DEF Complete

LEMMA CountHandlers ==
  ASSUME NEW kinds, NEW join \in Joins(kinds), JoinInv(join), HandlersInv(join),
         NEW p \in Participants, p \in Waiting(join), NEW ok \in BOOLEAN, NEW next,
         next = Count(join, p, ok)
  PROVE  /\ HandlersInv(next)
         /\ next.checked = join.checked
         /\ join.success \subseteq next.success
         /\ next.success \subseteq join.success \cup {p}
         /\ p \in Checking(next)
<1> DEFINE overlap == join.overlap \/ Checking(join) # {}
           success == IF ok THEN join.success \cup {p} ELSE join.success
           failed == IF ok THEN join.failed ELSE join.failed \cup {p}
<1>1. next = [join EXCEPT !.success = success, !.failed = failed, !.overlap = overlap]
  BY DEF Count
<1>2. success \cup failed = Counted(join) \cup {p}
  BY DEF Counted
<1>3. join.success \subseteq success /\ success \subseteq join.success \cup {p}
  OBVIOUS
<1>4. overlap <=> (join.overlap \/ Checking(join) # {})
  OBVIOUS
<1> HIDE DEF overlap, success, failed
<1>5. /\ next.kind = join.kind /\ next.asked = join.asked /\ next.total = join.total
      /\ next.delivered = join.delivered /\ next.checked = join.checked
      /\ next.success = success /\ next.failed = failed /\ next.overlap = overlap
  BY <1>1 DEF Joins
<1>6. Counted(next) = Counted(join) \cup {p}
  BY <1>2, <1>5 DEF Counted
<1>7. p \notin Counted(join) /\ p \notin join.checked /\ p \in join.asked
  BY DEF HandlersInv, Waiting
<1>8. Checking(next) = Checking(join) \cup {p}
  BY <1>5, <1>6, <1>7 DEF Checking
<1>9. Exact(next) => join.delivered = {}
  BY <1>5 DEF JoinInv, Exact, DeliversAll
<1>10. HandlersInv(next)
  <2>1. next.checked \subseteq Counted(next)
    BY <1>5, <1>6 DEF HandlersInv
  <2>2. ~next.overlap => \A x, y \in Checking(next) : x = y
    BY <1>4, <1>5, <1>8
  <2>3. Exact(next) /\ ~next.overlap => next.delivered = {}
    BY <1>5, <1>9
  <2>4. Delivers(next, Executors)
    BY <1>8 DEF Delivers
  <2> QED BY <2>1, <2>2, <2>3, <2>4 DEF HandlersInv
<1> QED BY <1>3, <1>5, <1>8, <1>10

\* The storage's answer is counted and not checked; then the executors are
\* called, unless a rollback has called them before.
LEMMA StorageHandlers ==
  ASSUME NEW kinds, NEW join \in Joins(kinds), JoinInv(join), HandlersInv(join),
         StorageFirst(join), Storage \in Waiting(join),
         NEW ok \in BOOLEAN, NEW S \in SUBSET Executors,
         join.kind = "ROLLBACK" => S = {},
         NEW next, next = Ask(CountOnly(join, Storage, ok), S)
  PROVE  /\ HandlersInv(next)
         /\ next.kind = join.kind /\ next.total = join.total
         /\ next.asked = join.asked \cup S
         /\ Storage \notin Waiting(next)
<1> DEFINE success == IF ok THEN join.success \cup {Storage} ELSE join.success
           failed == IF ok THEN join.failed ELSE join.failed \cup {Storage}
           counted == CountOnly(join, Storage, ok)
<1>1. counted = [join EXCEPT !.success = success, !.failed = failed,
                             !.checked = @ \cup {Storage}]
  BY DEF CountOnly
<1>2. success \cup failed = Counted(join) \cup {Storage}
  BY DEF Counted
<1>3. next = [counted EXCEPT !.asked = @ \cup S]
  BY DEF Ask
<1> HIDE DEF success, failed, counted
<1>4. next = [join EXCEPT !.success = success, !.failed = failed,
                          !.checked = @ \cup {Storage}, !.asked = @ \cup S]
  BY <1>1, <1>3 DEF Joins
<1>5. /\ next.kind = join.kind /\ next.asked = join.asked \cup S /\ next.total = join.total
      /\ next.delivered = join.delivered /\ next.checked = join.checked \cup {Storage}
      /\ next.success = success /\ next.failed = failed /\ next.overlap = join.overlap
  BY <1>4 DEF Joins
<1>6. Counted(next) = Counted(join) \cup {Storage}
  BY <1>2, <1>5 DEF Counted
<1>7. Storage \notin Counted(join) /\ Storage \in join.asked /\ Storage \notin Executors
  BY FanOutAssumption DEF Waiting
<1>8. Checking(next) = Checking(join)
  BY <1>5, <1>6, <1>7 DEF Checking
<1>9. Exact(next) => join.delivered = {}
  <2>1. CASE join.kind = "ROLLBACK"
    BY <1>5, <2>1 DEF JoinInv, Exact, DeliversAll
  <2>2. CASE join.kind # "ROLLBACK"
    BY <2>2 DEF StorageFirst
  <2> QED BY <2>1, <2>2
<1>10. HandlersInv(next)
  <2>1. next.checked \subseteq Counted(next)
    BY <1>5, <1>6 DEF HandlersInv
  <2>2. ~next.overlap => \A x, y \in Checking(next) : x = y
    BY <1>5, <1>8 DEF HandlersInv
  <2>3. Exact(next) /\ ~next.overlap => next.delivered = {}
    BY <1>5, <1>9
  <2>4. next.kind # "ROLLBACK" => Delivers(next, Executors)
    <3> SUFFICES ASSUME join.kind # "ROLLBACK", NEW e \in Executors, e \in next.asked
                 PROVE  Waiting(next) # {}
      BY <1>5 DEF Delivers
    <3>1. join.asked = {Storage} /\ Counted(join) \subseteq join.asked
      BY DEF StorageFirst, JoinInv
    <3>2. e \notin Counted(next)
      BY <1>6, <1>7, <3>1
    <3> QED BY <3>2 DEF Waiting
  <2> QED BY <2>1, <2>2, <2>3, <2>4 DEF HandlersInv
<1> QED BY <1>5, <1>6, <1>10 DEF Waiting

LEMMA CheckHandlers ==
  ASSUME NEW kinds, NEW join \in Joins(kinds), JoinInv(join), HandlersInv(join),
         Waiting(join) = {} => join.total <= Cardinality(join.asked),
         NEW p \in Checking(join), NEW next, next = Check(join, p)
  PROVE  /\ HandlersInv(next)
         /\ next.kind = join.kind /\ next.total = join.total /\ next.asked = join.asked
         /\ next.success = join.success /\ next.failed = join.failed
         /\ next.checked = join.checked \cup {p}
         /\ Waiting(next) = Waiting(join)
<1> DEFINE d == [by |-> p, error |-> join.failed # {}]
<1>1. next = [join EXCEPT !.checked = @ \cup {p},
                          !.delivered = IF Complete(join) THEN @ \cup {d} ELSE @]
  BY DEF Check
<1> HIDE DEF d
<1>2. /\ next.kind = join.kind /\ next.asked = join.asked /\ next.total = join.total
      /\ next.success = join.success /\ next.failed = join.failed
      /\ next.checked = join.checked \cup {p} /\ next.overlap = join.overlap
      /\ next.delivered = IF Complete(join) THEN join.delivered \cup {d} ELSE join.delivered
  BY <1>1 DEF Joins
<1>3. Counted(next) = Counted(join) /\ p \in Counted(join) /\ Waiting(next) = Waiting(join)
  BY <1>2 DEF Counted, Checking, Waiting
<1>4. Checking(next) = Checking(join) \ {p}
  BY <1>2, <1>3 DEF Checking
<1>5. next.checked \subseteq Counted(next)
  BY <1>2, <1>3 DEF HandlersInv
<1>6. ~next.overlap => \A x, y \in Checking(next) : x = y
  BY <1>2, <1>4 DEF HandlersInv
<1>7. ASSUME Exact(next), ~next.overlap, next.delivered # {}
      PROVE  Checking(next) = {} /\ \A d1, d2 \in next.delivered : d1 = d2
  <2>1. Exact(join) /\ ~join.overlap
    BY <1>2, <1>7 DEF Exact
  <2>2. \A x \in Checking(join) : x = p
    BY <2>1 DEF HandlersInv
  <2>3. join.delivered = {}
    BY <2>1 DEF HandlersInv
  <2>4. next.delivered = {d}
    BY <1>2, <1>7, <2>3
  <2> QED BY <1>4, <2>2, <2>4
<1>8. next.kind # "ROLLBACK" => Delivers(next, Executors)
  <2> SUFFICES ASSUME Waiting(next) = {} PROVE next.delivered # {}
    BY DEF Delivers
  <2>1. Complete(join)
    BY <1>3, AnswersAddUp
  <2> QED BY <1>2, <2>1
<1>9. HandlersInv(next)
  BY <1>5, <1>6, <1>7, <1>8 DEF HandlersInv
<1> QED BY <1>2, <1>3, <1>9


-----------------------------------------------------------------------------
(* The stages of the execution.                                            *)

LEMMA NotBegunFacts ==
  /\ NotBegun.kind = "NONE" /\ NotBegun.asked = {} /\ NotBegun.success = {}
  /\ NotBegun.failed = {} /\ NotBegun.checked = {} /\ NotBegun.total = 0
  /\ Waiting(NotBegun) = {} /\ Checking(NotBegun) = {} /\ Exact(NotBegun)
BY FS_EmptySet DEF NotBegun, NewJoin, Waiting, Checking, Counted, Exact

LEMMA StagesInit == Init => StagesInv
<1> SUFFICES ASSUME Init PROVE StagesInv
  OBVIOUS
<1>1. LifecycleInv
  BY LifecycleInit
<1>2. HandlersInv(NotBegun)
  BY DEF NewJoin, NotBegun, HandlersInv, Counted, Checking, Waiting, Delivers
<1>3. TotalInv(NotBegun)
  BY NotBegunFacts DEF TotalInv, Exact
<1>4. /\ nextBlock = NotBegun /\ hashes = NotBegun /\ prepare = NotBegun /\ second = NotBegun
      /\ ~begun /\ dmt = "none" /\ totalHash = {} /\ roots = {} /\ prewrite = "none"
      /\ \A c \in DAGContracts : dagCalls[c].pc = "none"
  BY DEF Init, ExecutionInit, CommitInit, NoCall
<1>5. StartInv
  BY <1>4, NotBegunFacts DEF StartInv
<1>6. HashInv /\ ResultInv
  BY <1>4, NotBegunFacts DEF HashInv, ResultInv, HasResult, RootComplete
<1> QED BY <1>1, <1>2, <1>3, <1>4, <1>5, <1>6 DEF StagesInv, ExecutionHandlers, CommitHandlers

\* What the stages before the batches start and count.
LEMMA StartStages ==
  ASSUME StagesInv,
         \/ AsyncExecute
         \/ \E e \in Executors :
               NextBlockCheck(e) \/ \E ok \in BOOLEAN : NextBlockAnswer(e, ok)
  PROVE  /\ HandlersInv(nextBlock') /\ StartInv'
         /\ UNCHANGED <<registered, hashVars>>
         /\ dmt' \in {"done", "failed"} <=> dmt \in {"done", "failed"}
         /\ nextBlock'.asked = nextBlock.asked \/ hashes = NotBegun
<1>a. /\ registered \in SUBSET Executors /\ nextBlock \in Joins({"NEXT_BLOCK"})
      /\ JoinInv(nextBlock) /\ HandlersInv(nextBlock) /\ StartInv
      /\ dmt \notin {"done", "failed"} => hashes = NotBegun
  BY DEF StagesInv, LifecycleInv, ExecutionInv, ExecutionHandlers, HashInv
<1>b. registered \in SUBSET Participants /\ Cardinality(registered) \in Nat
  BY <1>a, ParticipantsFinite
<1> USE DEF hashVars, dagVars
<1>1. CASE AsyncExecute
  <2>1. /\ ~begun /\ nextBlock = NotBegun /\ dmt = "none" /\ hashes = NotBegun
        /\ \A c \in DAGContracts : dagCalls[c].pc = "none"
    BY <1>a, <1>1 DEF AsyncExecute, StartInv
  <2>2. begun' /\ mode' = mode /\ registered' = registered /\ dagCalls' = dagCalls
        /\ UNCHANGED hashVars
    BY <1>1 DEF AsyncExecute
  <2>3. CASE mode = "CALL"
    <3>1. dmt' = "running" /\ nextBlock' = nextBlock
      BY <1>1, <2>1, <2>3 DEF AsyncExecute, StartDMT
    <3>2. StartInv'
      BY <1>a, <2>1, <2>2, <3>1, NotBegunFacts DEF StartInv, Accepted
    <3> QED BY <1>a, <2>1, <2>2, <3>1, <3>2
  <2>4. CASE mode # "CALL"
    <3>1. /\ dmt' = dmt
          /\ nextBlock' = NewJoin("NEXT_BLOCK", Cardinality(registered), registered)
      BY <1>1, <2>4 DEF AsyncExecute
    <3>2. HandlersInv(nextBlock')
      BY <1>b, <3>1, NewJoinHandlers
    <3>3. nextBlock'.asked = registered /\ nextBlock'.total = Cardinality(registered)
      BY <3>1 DEF NewJoin
    <3>4. StartInv'
      BY <2>1, <2>2, <2>4, <3>1, <3>3 DEF StartInv, Exact
    <3> QED BY <2>1, <2>2, <3>1, <3>2, <3>4
  <2> QED BY <2>3, <2>4
<1>2. ASSUME NEW e \in Executors, NEW ok \in BOOLEAN, NextBlockAnswer(e, ok)
      PROVE  /\ HandlersInv(nextBlock') /\ StartInv' /\ UNCHANGED <<registered, hashVars, dmt>>
             /\ nextBlock'.asked = nextBlock.asked
  <2>1. /\ e \in Waiting(nextBlock) /\ nextBlock' = Count(nextBlock, e, ok)
        /\ UNCHANGED <<registered, mode, begun, dagVars, dmt, hashVars>>
    BY <1>2 DEF NextBlockAnswer
  <2>2. HandlersInv(nextBlock')
    BY <1>a, <2>1, CountHandlers, ParticipantsFinite
  <2>3. nextBlock'.asked = nextBlock.asked /\ nextBlock'.total = nextBlock.total
    BY <1>a, <2>1, CountKeeps, ParticipantsFinite
  <2>4. /\ nextBlock # NotBegun /\ ~Accepted
    BY <2>1, NotBegunFacts DEF Accepted
  <2>5. StartInv'
    BY <1>a, <2>1, <2>3, <2>4 DEF StartInv, Exact
  <2> QED BY <2>1, <2>2, <2>3, <2>5
<1>3. ASSUME NEW e \in Executors, NextBlockCheck(e)
      PROVE  /\ HandlersInv(nextBlock') /\ StartInv' /\ UNCHANGED <<registered, hashVars>>
             /\ dmt' \in {"done", "failed"} <=> dmt \in {"done", "failed"}
             /\ nextBlock'.asked = nextBlock.asked
  <2>1. /\ e \in Checking(nextBlock) /\ nextBlock' = Check(nextBlock, e)
        /\ UNCHANGED <<registered, mode, begun, hashVars>>
    BY <1>3 DEF NextBlockCheck
  <2>2. Cardinality(nextBlock.asked) \in Nat /\ nextBlock.total = Cardinality(nextBlock.asked)
    BY <1>a, ParticipantsFinite DEF StartInv, Exact, Joins
  <2>3. nextBlock.total <= Cardinality(nextBlock.asked)
    BY <2>2
  <2>4. /\ HandlersInv(nextBlock')
        /\ nextBlock'.total = nextBlock.total /\ nextBlock'.asked = nextBlock.asked
        /\ nextBlock'.failed = nextBlock.failed /\ Waiting(nextBlock') = Waiting(nextBlock)
    BY <1>a, <2>1, <2>3, CheckHandlers
  <2>5. Accepted' <=> Accepted
    BY <2>4 DEF Accepted
  <2>6. begun /\ mode # "CALL"
    BY <1>a, <2>1, NotBegunFacts DEF StartInv
  <2>7. Complete(nextBlock) /\ nextBlock.failed = {} => Accepted
    BY <1>a, CompleteMeansAll DEF StartInv, Accepted
  <2>8. Accepted \/ UNCHANGED <<dagVars, dmt>>
    BY <1>3, <2>7 DEF NextBlockCheck
  <2>9. /\ dmt' \in {"done", "failed"} <=> dmt \in {"done", "failed"}
    BY <1>3 DEF NextBlockCheck, StartDMT
  <2>10. StartInv'
    BY <1>a, <2>1, <2>4, <2>5, <2>6, <2>8 DEF StartInv, Exact
  <2> QED BY <2>1, <2>4, <2>9, <2>10
<1> QED BY <1>1, <1>2, <1>3


\* The handlers of the DAG phase run only in a block that was accepted.
LEMMA DAGStages ==
  ASSUME StagesInv, NEW c \in DAGContracts,
         \/ \E error \in BOOLEAN, size \in 0 .. DAGSize[c] : DAGSubtract(c, error, size)
         \/ DAGStore(c) \/ DAGCheck(c)
  PROVE  /\ StartInv'
         /\ UNCHANGED <<registered, nextBlock, hashVars>>
         /\ dmt' \in {"done", "failed"} <=> dmt \in {"done", "failed"}
<1>1. /\ UNCHANGED <<registered, mode, begun, nextBlock, hashVars>>
      /\ dagCalls[c].pc \in {"sent", "subtracted", "settled"}
      /\ dmt' \in {"done", "failed"} <=> dmt \in {"done", "failed"}
  BY DEF DAGSubtract, DAGStore, DAGCheck, StartDMT, hashVars
<1>2. StartInv /\ begun /\ Accepted
  BY <1>1 DEF StagesInv, StartInv
<1>3. StartInv'
  BY <1>1, <1>2 DEF StartInv, Accepted, Exact, hashVars
<1> QED BY <1>1, <1>3

\* The XOR holds the hashes of the handlers that have checked, so the last
\* one finds them all.
LEMMA HashStages ==
  ASSUME StagesInv,
         \/ DMTStops \/ \E ok \in BOOLEAN : DMTEnd(ok)
         \/ \E e \in Executors :
               \/ HashXor(e) \/ HashCheck(e)
               \/ \E ok \in BOOLEAN : HashAnswer(e, ok)
  PROVE  /\ HandlersInv(hashes') /\ StartInv' /\ HashInv'
         /\ UNCHANGED <<registered, nextBlock>>
         /\ HasResult => HasResult'
<1>a. /\ registered \in SUBSET Executors /\ hashes \in Joins({"HASHES"})
      /\ JoinInv(hashes) /\ HandlersInv(hashes) /\ StartInv /\ HashInv
  BY DEF StagesInv, LifecycleInv, ExecutionInv, ExecutionHandlers
<1>b. registered \in SUBSET Participants /\ Cardinality(registered) \in Nat
  BY <1>a, ParticipantsFinite
<1>c. ASSUME UNCHANGED <<registered, mode, begun, nextBlock, dagCalls>>,
             dmt # "none", mode = "CALL" => hashes' = hashes
      PROVE  StartInv'
  BY <1>a, <1>c DEF StartInv, Accepted, Exact
<1>d. hashes # NotBegun => dmt \in {"done", "failed"} /\ mode # "CALL"
  BY <1>a DEF StartInv, HashInv
<1> USE DEF dagVars
<1>1. ASSUME NEW ok \in BOOLEAN, DMTEnd(ok)
      PROVE  /\ HandlersInv(hashes') /\ StartInv' /\ HashInv'
             /\ UNCHANGED <<registered, nextBlock, roots>>
  <2>1. /\ dmt = "running" /\ dmt' \in {"done", "failed"} /\ hashes = NotBegun
        /\ UNCHANGED <<registered, mode, begun, nextBlock, dagCalls, totalHash, roots>>
    BY <1>a, <1>1 DEF DMTEnd, HashInv
  <2>2. StartInv'
    BY <1>1, <1>c, <2>1 DEF DMTEnd
  <2>3. totalHash = {} /\ ~HasResult
    BY <1>a, <2>1, NotBegunFacts DEF HashInv
  <2>4. CASE hashes' = hashes
    <3>1. HashInv'
      BY <1>a, <2>1, <2>4, NotBegunFacts DEF HashInv, HasResult, RootComplete
    <3> QED BY <1>a, <2>1, <2>2, <2>4, <3>1
  <2>5. CASE hashes' = NewJoin("HASHES", Cardinality(registered), registered)
    <3>1. HandlersInv(hashes')
      BY <1>b, <2>5, NewJoinHandlers
    <3>2. /\ hashes'.asked = registered /\ hashes'.total = Cardinality(registered)
          /\ hashes'.checked = {} /\ hashes'.kind = "HASHES"
      BY <2>5 DEF NewJoin
    <3>3. HashInv'
      BY <1>a, <2>1, <2>3, <3>2 DEF HashInv, StartInv, HasResult, RootComplete, Exact
    <3> QED BY <2>1, <2>2, <3>1, <3>3
  <2> QED BY <1>1, <2>4, <2>5 DEF DMTEnd
<1>s. ASSUME DMTStops
      PROVE  /\ HandlersInv(hashes') /\ StartInv' /\ HashInv'
             /\ UNCHANGED <<registered, nextBlock, roots>>
  <2>1. /\ dmt = "running" /\ dmt' \notin {"done", "failed"} /\ hashes' = hashes
        /\ UNCHANGED <<registered, mode, begun, nextBlock, dagCalls, totalHash, roots>>
    BY <1>s DEF DMTStops, hashVars
  <2>2. StartInv'
    BY <1>c, <2>1
  <2>3. HashInv'
    BY <1>a, <2>1 DEF HashInv, HasResult, RootComplete
  <2> QED BY <1>a, <2>1, <2>2, <2>3
<1>2. ASSUME NEW e \in Executors, NEW ok \in BOOLEAN, HashAnswer(e, ok)
      PROVE  /\ HandlersInv(hashes') /\ StartInv' /\ HashInv'
             /\ UNCHANGED <<registered, nextBlock, roots>>
  <2>1. /\ e \in Waiting(hashes) /\ hashes' = Count(hashes, e, ok)
        /\ UNCHANGED <<registered, mode, begun, nextBlock, dagCalls, dmt, totalHash, roots>>
    BY <1>2 DEF HashAnswer
  <2>2. /\ HandlersInv(hashes') /\ hashes'.checked = hashes.checked
        /\ hashes.success \subseteq hashes'.success
        /\ hashes'.success \subseteq hashes.success \cup {e}
    BY <1>a, <2>1, CountHandlers, ParticipantsFinite
  <2>3. hashes'.asked = hashes.asked /\ hashes'.total = hashes.total /\ hashes'.kind = hashes.kind
    BY <1>a, <2>1, CountKeeps, ParticipantsFinite
  <2>4. dmt \in {"done", "failed"} /\ mode # "CALL" /\ hashes.kind # "NONE"
    BY <1>a, <1>d, <2>1, NotBegunFacts DEF HashInv
  <2>5. StartInv'
    BY <1>c, <2>1, <2>4
  <2>6. e \in hashes.asked /\ e \notin hashes.checked
    BY <1>a, <2>1 DEF Waiting, HandlersInv
  <2>7. ~HasResult /\ ~HasResult'
    BY <1>a, <2>1 DEF HashInv, HasResult
  <2>8. RootComplete'
    BY <2>2, <2>3, <2>6 DEF RootComplete
  <2>9. HashInv'
    BY <1>a, <2>1, <2>2, <2>3, <2>4, <2>6, <2>7, <2>8 DEF HashInv, Exact
  <2> QED BY <2>1, <2>2, <2>5, <2>9
<1>3. ASSUME NEW e \in Executors, HashXor(e)
      PROVE  /\ HandlersInv(hashes') /\ StartInv' /\ HashInv'
             /\ UNCHANGED <<registered, nextBlock, roots>>
  <2>1. /\ e \in hashes.success /\ totalHash' = totalHash \cup {e}
        /\ UNCHANGED <<registered, mode, begun, nextBlock, dagCalls, dmt, hashes, roots>>
    BY <1>3 DEF HashXor
  <2>2. dmt \in {"done", "failed"}
    BY <1>d, <2>1, NotBegunFacts
  <2>3. StartInv'
    BY <1>c, <2>1, <2>2
  <2>4. HashInv'
    BY <1>a, <2>1 DEF HashInv, HasResult, RootComplete, Exact
  <2> QED BY <1>a, <2>1, <2>3, <2>4
<1>4. ASSUME NEW e \in Executors, HashCheck(e)
      PROVE  /\ HandlersInv(hashes') /\ StartInv' /\ HashInv'
             /\ UNCHANGED <<registered, nextBlock>>
             /\ HasResult => HasResult'
  <2>1. /\ e \in Checking(hashes) /\ e \in hashes.failed \cup totalHash
        /\ hashes' = Check(hashes, e)
        /\ roots' = IF Complete(hashes) /\ hashes.failed = {} THEN roots \cup {totalHash} ELSE roots
        /\ UNCHANGED <<registered, mode, begun, nextBlock, dagCalls, dmt, totalHash>>
    BY <1>4 DEF HashCheck
  <2>2. Cardinality(hashes.asked) \in Nat /\ hashes.total = Cardinality(hashes.asked)
    BY <1>a, ParticipantsFinite DEF HashInv, Exact, Joins
  <2>3. hashes.total <= Cardinality(hashes.asked)
    BY <2>2
  <2>4. /\ HandlersInv(hashes') /\ hashes'.kind = hashes.kind
        /\ hashes'.total = hashes.total /\ hashes'.asked = hashes.asked
        /\ hashes'.success = hashes.success /\ hashes'.failed = hashes.failed
        /\ hashes'.checked = hashes.checked \cup {e} /\ Waiting(hashes') = Waiting(hashes)
    BY <1>a, <2>1, <2>3, CheckHandlers
  <2>5. dmt \in {"done", "failed"} /\ mode # "CALL"
    BY <1>d, <2>1, NotBegunFacts
  <2>6. StartInv'
    BY <1>c, <2>1, <2>5
  <2>7. Complete(hashes) => Waiting(hashes) = {}
    BY <1>a, CompleteMeansAll DEF HashInv
  <2>8. /\ hashes.success \cap hashes.failed = {} /\ hashes.checked \subseteq Counted(hashes)
        /\ Counted(hashes) \subseteq hashes.asked /\ e \in Counted(hashes)
    BY <1>a, <2>1 DEF JoinInv, HandlersInv, Checking
  <2>9. hashes.kind # "NONE"
    BY <1>a, <2>1, NotBegunFacts DEF HashInv
  <2>10. RootComplete'
    <3> SUFFICES ASSUME hashes.checked \cup {e} = hashes.asked, hashes.failed = {}
                 PROVE  hashes.asked \in roots'
      BY <2>4 DEF RootComplete
    <3>1. hashes.success = hashes.asked /\ Counted(hashes) = hashes.asked
      BY <2>8 DEF Counted
    <3>2. Complete(hashes)
      BY <1>a, <2>3, <3>1, AnswersAddUp DEF Waiting
    <3>3. totalHash = hashes.asked
      BY <1>a, <2>1, <2>8, <3>1 DEF HashInv
    <3> QED BY <2>1, <3>2, <3>3
  <2>11. HashInv'
    BY <1>a, <2>1, <2>4, <2>5, <2>7, <2>8, <2>9, <2>10 DEF HashInv, HasResult, Exact
  <2> QED BY <2>1, <2>4, <2>6, <2>11 DEF HasResult
<1> QED BY <1>1, <1>s, <1>2, <1>3, <1>4 DEF HasResult


LEMMA ExecutionStages ==
  ASSUME StagesInv, ExecutionNext, UNCHANGED commitVars
  PROVE  ExecutionHandlers' /\ StartInv' /\ HashInv' /\ ResultInv'
<1>a. ExecutionHandlers /\ StartInv /\ HashInv /\ ResultInv /\ CommitInv
  BY DEF StagesInv, LifecycleInv
<1>b. UNCHANGED <<prewrite, prepare>>
  BY DEF commitVars
<1>1. CASE \/ AsyncExecute
           \/ \E e \in Executors :
                 NextBlockCheck(e) \/ \E ok \in BOOLEAN : NextBlockAnswer(e, ok)
  <2>1. /\ HandlersInv(nextBlock') /\ StartInv'
        /\ UNCHANGED <<hashes, totalHash, roots>>
        /\ dmt' \in {"done", "failed"} <=> dmt \in {"done", "failed"}
        /\ nextBlock'.asked = nextBlock.asked \/ hashes = NotBegun
    BY <1>1, StartStages DEF hashVars
  <2>2. HashInv'
    BY <1>a, <2>1, NotBegunFacts DEF HashInv, HasResult, RootComplete, Exact
  <2>3. hashes = NotBegun => prepare = NotBegun
    BY <1>a, NotBegunFacts DEF HashInv, ResultInv, CommitInv
  <2>4. ResultInv'
    BY <1>a, <1>b, <2>1, <2>3 DEF ResultInv, HasResult
  <2> QED BY <1>a, <2>1, <2>2, <2>4 DEF ExecutionHandlers
<1>2. CASE \E c \in DAGContracts :
              \/ \E error \in BOOLEAN, size \in 0 .. DAGSize[c] : DAGSubtract(c, error, size)
              \/ DAGStore(c) \/ DAGCheck(c)
  <2>1. /\ StartInv' /\ UNCHANGED <<nextBlock, hashes, totalHash, roots>>
        /\ dmt' \in {"done", "failed"} <=> dmt \in {"done", "failed"}
    BY <1>2, DAGStages DEF hashVars
  <2>2. HashInv'
    BY <1>a, <2>1 DEF HashInv, HasResult, RootComplete
  <2>3. ResultInv'
    BY <1>a, <1>b, <2>1 DEF ResultInv, HasResult
  <2> QED BY <1>a, <2>1, <2>2, <2>3 DEF ExecutionHandlers
<1>3. CASE \/ DMTStops \/ \E ok \in BOOLEAN : DMTEnd(ok)
           \/ \E e \in Executors :
                 \/ HashXor(e) \/ HashCheck(e)
                 \/ \E ok \in BOOLEAN : HashAnswer(e, ok)
  <2>1. /\ HandlersInv(hashes') /\ StartInv' /\ HashInv' /\ UNCHANGED nextBlock
        /\ HasResult => HasResult'
    BY <1>3, HashStages
  <2>2. ResultInv'
    BY <1>a, <1>b, <2>1 DEF ResultInv
  <2> QED BY <1>a, <2>1, <2>2 DEF ExecutionHandlers
<1> QED BY <1>1, <1>2, <1>3 DEF ExecutionNext, ExecutionStep

-----------------------------------------------------------------------------
(* The two phases of the commit.                                           *)

LEMMA StorageAddsOne ==
  ASSUME NEW S \in SUBSET Executors
  PROVE  Cardinality(S \cup {Storage}) = 1 + Cardinality(S)
<1>1. IsFiniteSet(S) /\ Cardinality(S) \in Nat /\ Storage \notin S
  BY ParticipantsFinite, FanOutAssumption
<1>2. Cardinality(S \cup {Storage}) = Cardinality(S) + 1
  BY <1>1, FS_AddElement
<1> QED BY <1>1, <1>2

LEMMA FirstPhaseStages ==
  ASSUME StagesInv, UNCHANGED <<nextBlock, roots>>,
         \/ AsyncCommit /\ HasResult
         \/ \E ok \in BOOLEAN : Prewritten(ok) \/ StoragePrepared(ok)
         \/ \E e \in Executors, ok \in BOOLEAN : ExecutorPrepared(e, ok)
  PROVE  CommitHandlers' /\ ResultInv'
<1>a. /\ registered \in SUBSET Executors /\ CommitInv /\ CommitHandlers /\ ResultInv
      /\ nextBlock.asked \subseteq registered
  BY DEF StagesInv, LifecycleInv, StartInv
<1>b. /\ {Storage} \in SUBSET Participants /\ IsFiniteSet(registered)
      /\ Cardinality(registered) \in Nat /\ 1 + Cardinality(registered) \in Nat
      /\ Storage \notin registered
  BY <1>a, ParticipantsFinite, FanOutAssumption
<1>c. /\ prepare \in Joins({"PREPARE"}) /\ JoinInv(prepare) /\ StorageFirst(prepare)
      /\ HandlersInv(prepare) /\ TotalInv(prepare)
  BY <1>a DEF CommitInv, CommitHandlers
<1>d. ASSUME UNCHANGED <<registered, second>>, HandlersInv(prepare'), TotalInv(prepare)'
      PROVE  CommitHandlers'
  BY <1>a, <1>d DEF CommitHandlers, TotalInv
<1>1. CASE AsyncCommit /\ HasResult
  BY <1>1, <1>a, <1>c, <1>d DEF AsyncCommit, ResultInv, HasResult, TotalInv
<1>2. ASSUME NEW ok \in BOOLEAN, Prewritten(ok) PROVE CommitHandlers' /\ ResultInv'
  <2>1. UNCHANGED <<registered, second>> /\ prewrite = "called"
    BY <1>2 DEF Prewritten
  <2>2. HasResult'
    BY <1>a, <2>1 DEF ResultInv, HasResult
  <2>3. CASE prepare' = prepare
    BY <1>a, <1>c, <1>d, <2>1, <2>2, <2>3 DEF ResultInv, TotalInv
  <2>4. CASE prepare' = NewJoin("PREPARE", 1 + Cardinality(registered), {Storage})
    <3>1. HandlersInv(prepare')
      BY <1>b, <2>4, NewJoinHandlers
    <3>2. /\ prepare'.kind = "PREPARE" /\ prepare'.total = 1 + Cardinality(registered)
          /\ Storage \in Waiting(prepare')
      BY <2>4 DEF NewJoin, Waiting, Counted
    <3>3. TotalInv(prepare)'
      BY <1>b, <2>1, <3>2 DEF TotalInv
    <3> QED BY <1>d, <2>1, <2>2, <3>1, <3>2, <3>3 DEF ResultInv
  <2> QED BY <1>2, <2>3, <2>4 DEF Prewritten
<1>3. ASSUME NEW ok \in BOOLEAN, StoragePrepared(ok) PROVE CommitHandlers' /\ ResultInv'
  <2>1. /\ UNCHANGED <<registered, prewrite, second>> /\ Storage \in Waiting(prepare)
        /\ prepare' = Ask(CountOnly(prepare, Storage, ok), registered)
    BY <1>3 DEF StoragePrepared, Ask
  <2>2. prepare.kind # "ROLLBACK" /\ prepare.asked = {Storage}
    BY <1>c, <2>1 DEF Joins, StorageFirst
  <2>3. /\ HandlersInv(prepare') /\ prepare'.total = prepare.total
        /\ prepare'.asked = {Storage} \cup registered /\ Storage \notin Waiting(prepare')
    BY <1>a, <1>c, <2>1, <2>2, StorageHandlers
  <2>4. Cardinality(registered \cup {Storage}) = 1 + Cardinality(registered)
    BY <1>a, StorageAddsOne
  <2>5. prepare.total <= 1 + Cardinality(registered)
    BY <1>c, <2>1, <2>2 DEF TotalInv
  <2>6. TotalInv(prepare)'
    BY <2>3, <2>4, <2>5 DEF TotalInv
  <2>7. ResultInv'
    BY <1>a, <2>1, <2>3 DEF ResultInv, HasResult
  <2> QED BY <1>d, <2>1, <2>3, <2>6, <2>7
<1>4. ASSUME NEW e \in Executors, NEW ok \in BOOLEAN, ExecutorPrepared(e, ok)
      PROVE  CommitHandlers' /\ ResultInv'
  <2>1. /\ UNCHANGED <<registered, prewrite, second>> /\ e \in Waiting(prepare)
        /\ prepare' = Count(prepare, e, ok)
    BY <1>4 DEF ExecutorPrepared
  <2>2. HandlersInv(prepare')
    BY <1>c, <2>1, CountHandlers, ParticipantsFinite
  <2>3. /\ prepare'.kind = prepare.kind /\ prepare'.asked = prepare.asked
        /\ prepare'.total = prepare.total /\ Waiting(prepare') = Waiting(prepare) \ {e}
    BY <1>c, <2>1, CountKeeps, ParticipantsFinite
  <2>4. e # Storage /\ prepare # NotBegun
    BY <2>1, FanOutAssumption, NotBegunFacts
  <2>5. TotalInv(prepare)'
    BY <1>c, <2>1, <2>3, <2>4 DEF TotalInv
  <2>6. ResultInv'
    BY <1>a, <2>1, <2>3, <2>4 DEF ResultInv, HasResult
  <2> QED BY <1>d, <2>1, <2>2, <2>5, <2>6
<1> QED BY <1>1, <1>2, <1>3, <1>4


LEMMA SecondPhaseStages ==
  ASSUME StagesInv, UNCHANGED <<nextBlock, roots>>,
         \/ \E ok \in BOOLEAN : StorageEnded(ok)
         \/ \E e \in Executors :
               PrepareCheck(e) \/ SecondCheck(e) \/ \E ok \in BOOLEAN : ExecutorEnded(e, ok)
  PROVE  CommitHandlers' /\ ResultInv'
<1>a. /\ registered \in SUBSET Executors /\ CommitInv /\ CommitHandlers /\ ResultInv
  BY DEF StagesInv, LifecycleInv
<1>b. /\ registered \in SUBSET Participants /\ IsFiniteSet(registered)
      /\ {Storage} \in SUBSET Participants /\ registered \cup {Storage} \in SUBSET Participants
      /\ Cardinality(registered) \in Nat /\ 1 + Cardinality(registered) \in Nat
      /\ Storage \notin registered
  BY <1>a, ParticipantsFinite, FanOutAssumption
<1>c. /\ prepare \in Joins({"PREPARE"}) /\ JoinInv(prepare)
      /\ HandlersInv(prepare) /\ TotalInv(prepare)
      /\ second \in Joins({"COMMIT", "ROLLBACK"}) /\ JoinInv(second) /\ StorageFirst(second)
      /\ HandlersInv(second) /\ TotalInv(second) /\ (second.kind = "NONE" => second = NotBegun)
  BY <1>a DEF CommitInv, CommitHandlers
<1>d. Cardinality(registered \cup {Storage}) = 1 + Cardinality(registered)
  BY <1>a, StorageAddsOne
<1>1. ASSUME NEW e \in Executors, PrepareCheck(e) PROVE CommitHandlers' /\ ResultInv'
  <2>1. /\ UNCHANGED <<registered, prewrite>>
        /\ e \in Checking(prepare) /\ prepare' = Check(prepare, e)
        /\ \/ second' = second
           \/ second' = SecondPhase(prepare)
    BY <1>1 DEF PrepareCheck
  <2>2. Waiting(prepare) = {} => prepare.total <= Cardinality(prepare.asked)
    BY <1>c DEF TotalInv
  <2>3. /\ HandlersInv(prepare') /\ prepare'.kind = prepare.kind
        /\ prepare'.asked = prepare.asked /\ prepare'.total = prepare.total
        /\ Waiting(prepare') = Waiting(prepare)
    BY <1>c, <2>1, <2>2, CheckHandlers
  <2>4. TotalInv(prepare)' /\ ResultInv'
    BY <1>a, <1>c, <2>1, <2>3, NotBegunFacts DEF TotalInv, ResultInv, HasResult
  <2>5. /\ HandlersInv(second') /\ TotalInv(second)'
        /\ second'.kind = "NONE" => second' = NotBegun
    <3>1. CASE second' = second
      BY <1>c, <2>1, <3>1 DEF TotalInv
    <3>2. CASE second' = BatchBlockCommit
      <4>1. HandlersInv(second')
        BY <1>b, <3>2, NewJoinHandlers DEF BatchBlockCommit
      <4>2. /\ second'.kind = "COMMIT" /\ second'.total = 1 + Cardinality(registered)
            /\ Storage \in Waiting(second')
        BY <3>2 DEF BatchBlockCommit, NewJoin, Waiting, Counted
      <4> QED BY <1>b, <2>1, <4>1, <4>2 DEF TotalInv
    <3>3. CASE second' = BatchBlockRollback
      <4>1. HandlersInv(second')
        BY <1>b, <3>3, NewJoinHandlers DEF BatchBlockRollback
      <4>2. /\ second'.kind = "ROLLBACK" /\ second'.total = 1 + Cardinality(registered)
            /\ second'.asked = registered \cup {Storage}
        BY <3>3 DEF BatchBlockRollback, NewJoin
      <4> QED BY <1>b, <1>d, <2>1, <4>1, <4>2 DEF TotalInv
    <3> QED BY <2>1, <3>1, <3>2, <3>3 DEF SecondPhase
  <2> QED BY <2>3, <2>4, <2>5 DEF CommitHandlers
<1>e. ASSUME UNCHANGED <<registered, prewrite, prepare>>, HandlersInv(second'), TotalInv(second)',
             second'.kind = second.kind, second.kind # "NONE"
      PROVE  CommitHandlers' /\ ResultInv'
  BY <1>a, <1>c, <1>e DEF CommitHandlers, TotalInv, ResultInv, HasResult
<1>2. ASSUME NEW ok \in BOOLEAN, StorageEnded(ok) PROVE CommitHandlers' /\ ResultInv'
  <2> DEFINE S == IF second.kind = "COMMIT" THEN registered ELSE {}
             counted == CountOnly(second, Storage, ok)
  <2>1. /\ UNCHANGED <<registered, prewrite, prepare>> /\ Storage \in Waiting(second)
        /\ second' = [counted EXCEPT !.asked = IF second.kind = "COMMIT" THEN @ \cup registered ELSE @]
        /\ second.kind # "NONE"
    BY <1>2, <1>c, NotBegunFacts DEF StorageEnded
  <2>2. second' = Ask(counted, S)
    <3>1. counted.asked \cup {} = counted.asked
      OBVIOUS
    <3> HIDE DEF counted
    <3> QED BY <2>1, <3>1 DEF Ask
  <2>3. /\ S \in SUBSET Executors
        /\ second.kind = "ROLLBACK" => S = {}
        /\ second.kind # "ROLLBACK" => second.kind = "COMMIT" /\ S = registered
    <3>1. second.kind \in {"COMMIT", "ROLLBACK"}
      BY <1>c, <2>1 DEF Joins
    <3> QED BY <1>a, <3>1
  <2> HIDE DEF S
  <2>4. /\ HandlersInv(second') /\ second'.total = second.total /\ second'.kind = second.kind
        /\ second'.asked = second.asked \cup S /\ Storage \notin Waiting(second')
    <3>1. PICK kinds : second \in Joins(kinds)
      BY <1>c
    <3>2. PICK ask \in SUBSET Executors : ask = S
      BY <2>3
    <3>3. PICK next : next = second'
      OBVIOUS
    <3>4. next = Ask(CountOnly(second, Storage, ok), ask) /\ (second.kind = "ROLLBACK" => ask = {})
      BY <2>2, <2>3, <3>2, <3>3
    <3>5. /\ HandlersInv(next) /\ next.total = second.total /\ next.kind = second.kind
          /\ next.asked = second.asked \cup ask /\ Storage \notin Waiting(next)
      <4>1. /\ JoinInv(second) /\ HandlersInv(second) /\ StorageFirst(second)
            /\ Storage \in Waiting(second)
        BY <1>c, <2>1
      <4> QED BY <3>1, <3>4, <4>1, StorageHandlers
    <3> QED BY <3>2, <3>3, <3>5
  <2>5. CASE second.kind = "ROLLBACK"
    BY <1>c, <1>e, <2>1, <2>3, <2>4, <2>5 DEF TotalInv
  <2>6. CASE second.kind # "ROLLBACK"
    <3>1. second.asked = {Storage} /\ second.total <= 1 + Cardinality(registered)
      BY <1>c, <2>1, <2>6 DEF StorageFirst, TotalInv
    <3>2. second'.asked = registered \cup {Storage}
      BY <2>3, <2>4, <2>6, <3>1
    <3> QED BY <1>d, <1>e, <2>1, <2>4, <3>1, <3>2 DEF TotalInv
  <2> QED BY <2>5, <2>6
<1>3. ASSUME NEW e \in Executors, NEW ok \in BOOLEAN, ExecutorEnded(e, ok)
      PROVE  CommitHandlers' /\ ResultInv'
  <2>1. /\ UNCHANGED <<registered, prewrite, prepare>> /\ e \in Waiting(second)
        /\ second' = Count(second, e, ok) /\ second.kind # "NONE"
    BY <1>3, <1>c, NotBegunFacts DEF ExecutorEnded
  <2>2. HandlersInv(second')
    BY <1>c, <2>1, CountHandlers, ParticipantsFinite
  <2>3. /\ second'.kind = second.kind /\ second'.asked = second.asked
        /\ second'.total = second.total /\ Waiting(second') = Waiting(second) \ {e}
    BY <1>c, <2>1, CountKeeps, ParticipantsFinite
  <2>4. TotalInv(second)'
    BY <1>c, <2>1, <2>3, FanOutAssumption DEF TotalInv
  <2> QED BY <1>e, <2>1, <2>2, <2>3, <2>4
<1>4. ASSUME NEW e \in Executors, SecondCheck(e) PROVE CommitHandlers' /\ ResultInv'
  <2>1. /\ UNCHANGED <<registered, prewrite, prepare>>
        /\ e \in Checking(second) /\ second' = Check(second, e) /\ second.kind # "NONE"
    BY <1>4, <1>c, NotBegunFacts DEF SecondCheck
  <2>2. Waiting(second) = {} => second.total <= Cardinality(second.asked)
    BY <1>c DEF TotalInv
  <2>3. /\ HandlersInv(second') /\ second'.kind = second.kind
        /\ second'.asked = second.asked /\ second'.total = second.total
        /\ Waiting(second') = Waiting(second)
    BY <1>c, <2>1, <2>2, CheckHandlers
  <2>4. TotalInv(second)'
    BY <1>c, <2>1, <2>3 DEF TotalInv
  <2> QED BY <1>e, <2>1, <2>3, <2>4
<1> QED BY <1>1, <1>2, <1>3, <1>4


LEMMA StagesStep == StagesInv /\ [Next]_vars => StagesInv'
<1> SUFFICES ASSUME StagesInv, [Next]_vars PROVE StagesInv'
  OBVIOUS
<1>a. /\ LifecycleInv /\ ExecutionHandlers /\ CommitHandlers /\ StartInv /\ HashInv /\ ResultInv
      /\ registered \in SUBSET Executors
  BY DEF StagesInv, LifecycleInv
<1>b. LifecycleInv'
  BY <1>a, LifecycleStep
<1>1. ASSUME NEW e \in Executors, Register(e) PROVE StagesInv'
  <2>1. registered' = registered \cup {e} /\ UNCHANGED <<executionVars, commitVars>>
    BY <1>1 DEF Register, RegisterExecutor
  <2>2. Cardinality(registered) \in Nat /\ Cardinality(registered') \in Nat
        /\ Cardinality(registered) <= Cardinality(registered')
    <3>1. IsFiniteSet(registered') /\ registered \subseteq registered'
      BY <1>a, <2>1, ParticipantsFinite DEF Participants
    <3> QED BY <3>1, FS_Subset, FS_CardinalityType
  <2>3. ExecutionHandlers' /\ StartInv' /\ HashInv' /\ ResultInv'
    BY <1>a, <2>1 DEF executionVars, hashVars, dagVars, commitVars, ExecutionHandlers, StartInv,
                      Accepted, HashInv, ResultInv, HasResult, RootComplete
  <2>4. /\ prepare \in Joins({"PREPARE"}) /\ second \in Joins({"COMMIT", "ROLLBACK"})
    BY <1>a DEF LifecycleInv, CommitInv
  <2>5. prepare.total \in Nat /\ second.total \in Nat
    BY <2>4 DEF Joins
  <2>6. CommitHandlers'
    BY <1>a, <2>1, <2>2, <2>5 DEF commitVars, CommitHandlers, TotalInv
  <2> QED BY <1>b, <2>3, <2>6 DEF StagesInv
<1>2. CASE ExecutionNext /\ UNCHANGED commitVars
  <2>1. ExecutionHandlers' /\ StartInv' /\ HashInv' /\ ResultInv'
    BY <1>2, ExecutionStages
  <2>2. registered' = registered
    BY <1>2, <1>a, ExecutionKeeps
  <2>3. CommitHandlers'
    BY <1>2, <1>a, <2>2 DEF commitVars, CommitHandlers, TotalInv
  <2> QED BY <1>b, <2>1, <2>3 DEF StagesInv
<1>3. CASE ((HasResult /\ AsyncCommit) \/ CommitStep) /\ UNCHANGED executionVars
  <2>1. UNCHANGED <<mode, begun, nextBlock, dagCalls, dmt, hashes, totalHash, roots>>
    BY <1>3 DEF executionVars, hashVars, dagVars
  <2>2. registered' = registered
    BY <1>3, <1>a, CommitKeeps DEF CommitNext
  <2>3. CommitHandlers' /\ ResultInv'
    BY <1>3, <2>1, FirstPhaseStages, SecondPhaseStages DEF CommitStep
  <2>4. ExecutionHandlers' /\ StartInv' /\ HashInv'
    BY <1>a, <2>1, <2>2 DEF ExecutionHandlers, StartInv, Accepted, HashInv, HasResult, RootComplete
  <2> QED BY <1>b, <2>3, <2>4 DEF StagesInv
<1>4. CASE UNCHANGED vars
  <2>1. UNCHANGED <<registered, mode, begun, nextBlock, dagCalls, dmt, hashes, totalHash, roots,
                    prewrite, prepare, second>>
    BY <1>4 DEF vars, executionVars, commitVars, hashVars, dagVars
  <2>2. ExecutionHandlers' /\ StartInv' /\ HashInv' /\ ResultInv' /\ CommitHandlers'
    BY <1>a, <2>1 DEF ExecutionHandlers, StartInv, Accepted, HashInv, HasResult, RootComplete,
                      ResultInv, CommitHandlers, TotalInv
  <2> QED BY <1>b, <2>2 DEF StagesInv
<1> QED BY <1>1, <1>2, <1>3, <1>4 DEF Next

-----------------------------------------------------------------------------
(* The theorems.                                                           *)

\* For any number of executors, and whichever handler finds the counters
\* complete in checkAndCommit, the callback of a fan-out runs a second time
\* only if two handlers were between ++success and the comparison at once.
THEOREM JoinsDeliverOnceCorrect == Spec => []JoinsDeliverOnce
<1>1. StagesInv => JoinsDeliverOnce
  <2> SUFFICES ASSUME StagesInv, NEW join \in AllJoins, Exact(join), ~join.overlap
               PROVE  Cardinality(join.delivered) <= 1
    BY DEF JoinsDeliverOnce, DeliversOnce
  <2>1. HandlersInv(join)
    BY DEF AllJoins, StagesInv, ExecutionHandlers, CommitHandlers
  <2>2. CASE join.delivered = {}
    BY <2>2, FS_EmptySet
  <2>3. CASE join.delivered # {}
    <3>1. PICK d \in join.delivered : TRUE
      BY <2>3
    <3>2. join.delivered = {d}
      BY <2>1, <2>3, <3>1 DEF HandlersInv
    <3>3. Cardinality(join.delivered) = 1
      BY <3>2, FS_Singleton
    <3> QED BY <3>3
  <2> QED BY <2>2, <2>3
<1> QED BY <1>1, StagesInit, StagesStep, PTL DEF Spec

\* In no order of counts and checks does a fan-out leave its caller without an
\* answer: once its handlers have returned, the last has run the callback (a
\* rollback excepted, whose storage may answer last).
THEOREM JoinsDeliverCorrect == Spec => []JoinsDeliver
<1>1. StagesInv => JoinsDeliver
  BY DEF StagesInv, ExecutionHandlers, CommitHandlers, HandlersInv, JoinsDeliver, AllJoins
<1> QED BY <1>1, StagesInit, StagesStep, PTL DEF Spec

\* Although batchGetHashes counts an answer before it adds its hash, the last
\* handler to compare the counters makes a header over all hashes.
THEOREM RootCompleteCorrect == Spec => []RootComplete
<1>1. StagesInv => RootComplete
  BY DEF StagesInv, HashInv
<1> QED BY <1>1, StagesInit, StagesStep, PTL DEF Spec

\* asyncCommit tells no executor to commit a block that it was told of and has
\* not accepted, hashed and prepared, although executors register meanwhile
\* and every stage calls the ones it finds.
THEOREM CommittedWasAgreedCorrect == Spec => []CommittedWasAgreed
<1>1. StagesInv => CommittedWasAgreed
  <2> SUFFICES ASSUME StagesInv, Exact(prepare), second.kind = "COMMIT"
               PROVE  nextBlock.asked \subseteq
                         nextBlock.success \cap hashes.success \cap prepare.success
    BY DEF CommittedWasAgreed
  <2>a. /\ CommitInv /\ JoinInv(nextBlock) /\ JoinInv(hashes) /\ JoinInv(prepare)
        /\ StartInv /\ HashInv /\ ResultInv
    BY DEF StagesInv, LifecycleInv, ExecutionInv, CommitInv
  <2>1. CommitOrdered /\ prewrite = "done"
    BY <2>a, NotBegunFacts DEF CommitInv
  <2>2. prepare.failed = {} /\ Waiting(prepare) = {}
    BY <2>a, <2>1 DEF JoinInv, DeliversAll, CommitOrdered
  <2>3. prepare # NotBegun
    BY <2>1 DEF CommitOrdered, NotBegun, NewJoin
  <2>4. nextBlock.asked \subseteq prepare.success
    BY <2>a, <2>2, <2>3 DEF ResultInv, Waiting, Counted
  <2>5. hashes.kind # "NONE" /\ Waiting(hashes) = {} /\ hashes.failed = {}
    BY <2>a, <2>1 DEF HashInv, ResultInv
  <2>6. nextBlock.asked \subseteq hashes.success
    BY <2>a, <2>5 DEF HashInv, Waiting, Counted
  <2>7. Accepted
    BY <2>a, <2>5, NotBegunFacts DEF HashInv, StartInv
  <2>8. nextBlock.asked \subseteq nextBlock.success
    BY <2>7 DEF Accepted, Waiting, Counted
  <2> QED BY <2>4, <2>6, <2>8
<1> QED BY <1>1, StagesInit, StagesStep, PTL DEF Spec

-----------------------------------------------------------------------------
(* The count of DAGExecute: totalCount is the number of messages that no    *)
(* answer has given back, whatever the order of the answers.               *)

\* The messages that no answer has given back.
Outstanding == {r \in Requests : r[2] > dagCalls[r[1]].size}

StageTypeOK ==
    /\ mode \in {"CALL", "PLAIN", "DAG"} /\ begun \in BOOLEAN /\ twice \in BOOLEAN
    /\ dagCalls \in [DAGContracts ->
          [pc : {"none", "sent", "subtracted", "settled", "returned"}, error : BOOLEAN, size : Nat]]
    /\ dagStored \subseteq DAGContracts /\ dagFailed \subseteq DAGContracts
    /\ dagErrors \subseteq BOOLEAN
    /\ dmt \in DMTStates
    /\ totalHash \subseteq Executors /\ roots \subseteq SUBSET Executors

\* The calls are made together; an answer has at most the messages of its
\* call, and is stored or counted as failed before its handler checks.
CallsInv ==
    /\ \A c \in DAGContracts :
          /\ dagCalls[c].size <= DAGSize[c]
          /\ dagCalls[c].pc \in {"none", "sent"} => dagCalls[c].size = 0
          /\ dagCalls[c].pc = "none" => dagCalls[c] = NoCall
          /\ dagCalls[c].pc \in {"settled", "returned"} => c \in dagStored \cup dagFailed
    /\ mode # "DAG" => \A c \in DAGContracts : dagCalls[c].pc = "none"

\* Zero is reached only when every message is back, and only then do the
\* batches start.
CountInv ==
    /\ \/ totalCount = 0 /\ \A c \in DAGContracts : dagCalls[c].pc = "none"
       \/ /\ totalCount = Cardinality(Outstanding)
          /\ \A c \in DAGContracts : dagCalls[c].pc # "none"
    /\ mode = "DAG" /\ dmt # "none" => Outstanding = {}

DAGInv == StageTypeOK /\ CallsInv /\ CountInv

LEMMA RequestsFinite == IsFiniteSet(Requests)
<1> DEFINE Messages(c) == {c} \X (1 .. DAGSize[c])
           all == {Messages(c) : c \in DAGContracts}
           f == [c \in DAGContracts |-> Messages(c)]
<1>1. IsFiniteSet(all)
  <2>1. f \in Surjection(DAGContracts, all)
    BY DEF Surjection
  <2> HIDE DEF f, all
  <2> QED BY <2>1, DAGAssumption, FS_Surjection
<1>2. ASSUME NEW c \in DAGContracts PROVE IsFiniteSet({c} \X (1 .. DAGSize[c]))
  <2>1. DAGSize[c] \in Int /\ 1 \in Int
    BY DAGAssumption
  <2>2. IsFiniteSet(1 .. DAGSize[c])
    BY <2>1, FS_Interval
  <2>3. IsFiniteSet({c})
    BY FS_Singleton
  <2> QED BY <2>2, <2>3, FS_Product
<1>3. \A T \in all : IsFiniteSet(T)
  BY <1>2
<1>4. Requests = UNION all
  BY DEF Requests
<1> HIDE DEF all
<1> QED BY <1>1, <1>3, <1>4, FS_UNION

LEMMA IsRequest ==
  ASSUME NEW r
  PROVE  r \in Requests <=> /\ r = <<r[1], r[2]>> /\ r[1] \in DAGContracts
                            /\ r[2] \in 1 .. DAGSize[r[1]]
BY DEF Requests

\* n messages of one contract are n elements.
LEMMA MessagesCount ==
  ASSUME NEW S, IsFiniteSet(S), NEW c, NEW n \in Nat, {c} \X (1 .. n) \subseteq S
  PROVE  Cardinality(S \ ({c} \X (1 .. n))) = Cardinality(S) - n
<1>1. Cardinality(1 .. n) = n /\ IsFiniteSet(1 .. n)
  <2>1. 1 \in Int /\ n \in Int
    OBVIOUS
  <2>2. IsFiniteSet(1 .. n) /\ Cardinality(1 .. n) = IF 1 > n THEN 0 ELSE n - 1 + 1
    BY <2>1, FS_Interval
  <2> QED BY <2>2
<1>2. Cardinality({c}) = 1 /\ IsFiniteSet({c})
  BY FS_Singleton
<1>3. Cardinality({c} \X (1 .. n)) = Cardinality({c}) * Cardinality(1 .. n)
  BY <1>1, <1>2, FS_Product
<1>4. Cardinality({c} \X (1 .. n)) = n
  BY <1>1, <1>2, <1>3
<1>5. S \cap ({c} \X (1 .. n)) = {c} \X (1 .. n)
  OBVIOUS
<1>6. Cardinality(S \ ({c} \X (1 .. n))) = Cardinality(S) - Cardinality(S \cap ({c} \X (1 .. n)))
  BY FS_Difference
<1> QED BY <1>4, <1>5, <1>6

LEMMA OutstandingFinite == IsFiniteSet(Outstanding) /\ Cardinality(Outstanding) \in Nat
<1>1. Outstanding \in SUBSET Requests
  BY DEF Outstanding
<1> QED BY <1>1, RequestsFinite, FS_Subset, FS_CardinalityType

LEMMA DAGInit == Init => DAGInv
<1> SUFFICES ASSUME Init PROVE DAGInv
  OBVIOUS
<1>1. ExecutionInit
  BY DEF Init
<1>2. NoCall.pc = "none" /\ NoCall.size = 0 /\ NoCall.error = FALSE
      /\ NoCall \in [pc : {"none", "sent", "subtracted", "settled", "returned"},
                     error : BOOLEAN, size : Nat]
  BY DEF NoCall
<1>3. StageTypeOK
  BY <1>1, <1>2 DEF ExecutionInit, StageTypeOK
<1>4. \A c \in DAGContracts : dagCalls[c] = NoCall /\ DAGSize[c] \in Nat
  BY <1>1, DAGAssumption DEF ExecutionInit
<1>5. CallsInv
  BY <1>2, <1>4 DEF CallsInv
<1>6. CountInv
  BY <1>1, <1>2, <1>4 DEF ExecutionInit, CountInv
<1> QED BY <1>3, <1>5, <1>6 DEF DAGInv

\* The calls go out together, so nothing is back when they have.
LEMMA StartDAGCounts ==
  ASSUME DAGInv, mode = "DAG", ~twice, StartDAG, UNCHANGED <<mode, begun, dmt, hashVars>>
  PROVE  DAGInv'
<1>a. StageTypeOK /\ CallsInv /\ CountInv
  BY DEF DAGInv
<1>b. UNCHANGED <<mode, begun, dmt, totalHash, roots, dagStored, dagFailed, dagErrors>>
  BY DEF StartDAG, hashVars
<1>1. twice' \in BOOLEAN
  BY <1>a DEF StartDAG, StageTypeOK
<1>2. CASE twice'
  <2>1. UNCHANGED <<totalCount, dagCalls>>
    BY <1>2 DEF StartDAG
  <2> QED BY <1>a, <1>b, <1>1, <2>1
          DEF DAGInv, StageTypeOK, CallsInv, CountInv, Outstanding
<1>3. CASE ~twice'
  <2>1. /\ totalCount' = Cardinality(Requests)
        /\ dagCalls' = [c \in DAGContracts |-> [NoCall EXCEPT !.pc = "sent"]]
        /\ \A c \in DAGContracts : dagCalls[c] = NoCall
    BY <1>3 DEF StartDAG
  <2>2. \A c \in DAGContracts : dagCalls[c].size = 0
    BY <2>1 DEF NoCall
  <2>3. \A c \in DAGContracts :
           /\ dagCalls'[c] = [pc |-> "sent", error |-> FALSE, size |-> 0]
           /\ dagCalls'[c].pc = "sent" /\ dagCalls'[c].size = 0
    BY <2>1 DEF NoCall
  <2>4. StageTypeOK'
    <3>1. dagCalls' \in [DAGContracts -> [pc : {"none", "sent", "subtracted", "settled", "returned"},
                                          error : BOOLEAN, size : Nat]]
      BY <2>1 DEF NoCall
    <3> QED BY <1>a, <1>b, <1>1, <3>1 DEF StageTypeOK
  <2>5. CallsInv'
    BY <1>b, <2>3, DAGAssumption DEF CallsInv
  <2>6. Outstanding' = Requests /\ Outstanding = Requests
    <3>1. \A r \in Requests : r[1] \in DAGContracts /\ r[2] \in 1 .. DAGSize[r[1]]
      BY IsRequest
    <3>2. \A r \in Requests : r[2] > 0
      BY <3>1, DAGAssumption
    <3> QED BY <2>2, <2>3, <3>1, <3>2 DEF Outstanding
  <2>7. CountInv'
    BY <1>a, <1>b, <2>1, <2>3, <2>6 DEF CountInv
  <2> QED BY <2>4, <2>5, <2>7 DEF DAGInv
<1> QED BY <1>1, <1>2, <1>3

\* An answer with size messages takes so many from those outstanding.
LEMMA SubtractCounts ==
  ASSUME DAGInv, NEW c \in DAGContracts, NEW error \in BOOLEAN, NEW size \in 0 .. DAGSize[c],
         DAGSubtract(c, error, size)
  PROVE  DAGInv'
<1>a. StageTypeOK /\ CallsInv /\ CountInv
  BY DEF DAGInv
<1>b. DAGSize[c] \in Nat /\ size \in Nat /\ size <= DAGSize[c]
  BY DAGAssumption
<1>c. /\ UNCHANGED <<mode, begun, twice, dmt, totalHash, roots, dagStored, dagFailed, dagErrors>>
      /\ dagCalls[c].pc = "sent" /\ totalCount' = totalCount - size
      /\ dagCalls' = [dagCalls EXCEPT ![c] = [pc |-> "subtracted", error |-> error, size |-> size]]
  BY DEF DAGSubtract, hashVars
<1>1. /\ dagCalls'[c] = [pc |-> "subtracted", error |-> error, size |-> size]
      /\ \A d \in DAGContracts : d # c => dagCalls'[d] = dagCalls[d]
      /\ dagCalls' \in [DAGContracts -> [pc : {"none", "sent", "subtracted", "settled", "returned"},
                                         error : BOOLEAN, size : Nat]]
  BY <1>a, <1>b, <1>c DEF StageTypeOK
<1>2. dagCalls'[c].size = size /\ dagCalls'[c].pc = "subtracted" /\ dagCalls[c].size = 0
  BY <1>1, <1>a, <1>c DEF CallsInv
<1>3. StageTypeOK'
  BY <1>a, <1>c, <1>1 DEF StageTypeOK
<1>4. CallsInv'
  <2>1. mode = "DAG"
    BY <1>a, <1>c DEF CallsInv
  <2> QED BY <1>a, <1>b, <1>c, <1>1, <1>2, <2>1 DEF CallsInv
<1>5. {c} \X (1 .. size) \subseteq Outstanding
  <2> SUFFICES ASSUME NEW n \in 1 .. size PROVE <<c, n>> \in Outstanding
    OBVIOUS
  <2>1. n \in 1 .. DAGSize[c] /\ n > 0
    BY <1>b
  <2>2. <<c, n>> \in Requests
    BY <2>1, IsRequest
  <2> QED BY <1>2, <2>1, <2>2 DEF Outstanding
<1>6. Outstanding' = Outstanding \ ({c} \X (1 .. size))
  <2>1. ASSUME NEW r \in Requests
        PROVE  r \in Outstanding' <=> r \in Outstanding /\ r \notin {c} \X (1 .. size)
    <3>1. r = <<r[1], r[2]>> /\ r[1] \in DAGContracts /\ r[2] \in 1 .. DAGSize[r[1]]
      BY IsRequest
    <3>2. r[2] \in Nat /\ r[2] > 0
      BY <3>1, DAGAssumption
    <3>3. CASE r[1] = c
      <4>1. r[2] > size <=> r[2] \notin 1 .. size
        BY <1>b, <3>2
      <4>2. r \in {c} \X (1 .. size) <=> r[2] \in 1 .. size
        BY <3>1, <3>3
      <4> QED BY <1>2, <3>2, <3>3, <4>1, <4>2 DEF Outstanding
    <3>4. CASE r[1] # c
      BY <1>1, <3>1, <3>4 DEF Outstanding
    <3> QED BY <3>3, <3>4
  <2> QED BY <2>1 DEF Outstanding
<1>7. Cardinality(Outstanding') = Cardinality(Outstanding) - size
  BY <1>b, <1>5, <1>6, OutstandingFinite, MessagesCount
<1>8. CountInv'
  <2>1. totalCount = Cardinality(Outstanding) /\ \A d \in DAGContracts : dagCalls[d].pc # "none"
    BY <1>a, <1>c DEF CountInv
  <2>2. totalCount' = Cardinality(Outstanding')
    BY <1>c, <1>7, <2>1
  <2>3. \A d \in DAGContracts : dagCalls'[d].pc # "none"
    BY <1>1, <1>2, <2>1
  <2>4. mode' = "DAG" /\ dmt' # "none" => Outstanding' = {}
    BY <1>a, <1>c, <1>6 DEF CountInv
  <2> QED BY <2>2, <2>3, <2>4 DEF CountInv
<1> QED BY <1>3, <1>4, <1>8 DEF DAGInv

\* What the handlers do after the subtraction leaves the count alone; the one
\* that finds zero starts the batches with nothing outstanding.
LEMMA SettleCounts ==
  ASSUME DAGInv, NEW c \in DAGContracts, DAGStore(c) \/ DAGCheck(c)
  PROVE  DAGInv'
<1>a. StageTypeOK /\ CallsInv /\ CountInv
  BY DEF DAGInv
<1>b. /\ UNCHANGED <<mode, begun, totalHash, roots, totalCount>>
      /\ dagCalls[c].pc \in {"subtracted", "settled"}
      /\ \/ dagCalls' = [dagCalls EXCEPT ![c].pc = "settled"]
         \/ dagCalls' = [dagCalls EXCEPT ![c].pc = "returned"]
  BY DEF DAGStore, DAGCheck, hashVars
<1>1. /\ dagCalls'[c].pc \in {"settled", "returned"}
      /\ dagCalls'[c].size = dagCalls[c].size
      /\ \A d \in DAGContracts : d # c => dagCalls'[d] = dagCalls[d]
      /\ dagCalls' \in [DAGContracts -> [pc : {"none", "sent", "subtracted", "settled", "returned"},
                                         error : BOOLEAN, size : Nat]]
  BY <1>a, <1>b DEF StageTypeOK
<1>2. \A d \in DAGContracts : dagCalls'[d].size = dagCalls[d].size
  BY <1>1
<1>3. Outstanding' = Outstanding
  BY <1>2, IsRequest DEF Outstanding
<1>4. /\ totalCount = Cardinality(Outstanding) /\ \A d \in DAGContracts : dagCalls[d].pc # "none"
      /\ mode = "DAG"
  BY <1>a, <1>b DEF CountInv, CallsInv
<1>5. \A d \in DAGContracts : dagCalls'[d].pc # "none"
  BY <1>1, <1>4
<1>6. c \in dagStored' \cup dagFailed' /\ dagStored \subseteq dagStored' /\ dagFailed \subseteq dagFailed'
      /\ dagStored' \subseteq DAGContracts /\ dagFailed' \subseteq DAGContracts
  <2>1. CASE DAGStore(c)
    BY <1>a, <2>1 DEF DAGStore, StageTypeOK
  <2>2. CASE DAGCheck(c)
    BY <1>a, <2>2 DEF DAGCheck, CallsInv, StageTypeOK
  <2> QED BY <2>1, <2>2
<1>7. CallsInv'
  BY <1>a, <1>b, <1>1, <1>4, <1>6 DEF CallsInv
<1>8. /\ twice' \in BOOLEAN /\ dagErrors' \subseteq BOOLEAN
      /\ dmt' \in DMTStates
      /\ dmt' = dmt \/ totalCount = 0
  <2>1. CASE DAGStore(c)
    BY <1>a, <2>1 DEF DAGStore, StageTypeOK
  <2>2. CASE DAGCheck(c)
    <3>1. dagErrors' \subseteq BOOLEAN
      <4>1. (dagFailed # {}) \in BOOLEAN
        OBVIOUS
      <4>2. dagErrors' \subseteq dagErrors \cup {dagFailed # {}}
        BY <2>2 DEF DAGCheck
      <4> QED BY <1>a, <4>1, <4>2 DEF StageTypeOK
    <3>2. \/ UNCHANGED <<dmt, twice>>
          \/ StartDMT /\ totalCount = 0
      BY <2>2 DEF DAGCheck
    <3>3. CASE StartDMT /\ totalCount = 0
      <4>1. twice' \in BOOLEAN
        BY <1>a, <3>3 DEF StartDMT, StageTypeOK
      <4>2. dmt' \in DMTStates
        BY <1>a, <3>3 DEF StartDMT, StageTypeOK
      <4> QED BY <3>1, <3>3, <4>1, <4>2
    <3> QED BY <1>a, <3>1, <3>2, <3>3 DEF StageTypeOK
  <2> QED BY <2>1, <2>2
<1>9. StageTypeOK'
  BY <1>a, <1>b, <1>1, <1>6, <1>8 DEF StageTypeOK
<1>10. totalCount = 0 => Outstanding = {}
  BY <1>4, OutstandingFinite, FS_EmptySet
<1>11. CountInv'
  BY <1>a, <1>b, <1>3, <1>4, <1>5, <1>8, <1>10 DEF CountInv
<1> QED BY <1>7, <1>9, <1>11 DEF DAGInv

LEMMA DAGStep == StagesInv /\ DAGInv /\ [Next]_vars => DAGInv'
<1> SUFFICES ASSUME StagesInv, DAGInv, [Next]_vars PROVE DAGInv'
  OBVIOUS
<1>a. /\ registered \in SUBSET Executors /\ StageTypeOK /\ CallsInv /\ CountInv
      /\ hashes.success \subseteq Participants
  BY DEF StagesInv, LifecycleInv, ExecutionInv, DAGInv, Joins
<1>b. ASSUME UNCHANGED <<mode, dagCalls, totalCount, dagStored, dagFailed, dagErrors>>,
             begun' \in BOOLEAN, twice' \in BOOLEAN,
             dmt' \in DMTStates,
             mode = "DAG" /\ dmt = "none" => dmt' = "none",
             totalHash' \subseteq Executors, roots' \subseteq SUBSET Executors
      PROVE  DAGInv'
  BY <1>a, <1>b DEF DAGInv, StageTypeOK, CallsInv, CountInv, Outstanding
<1>c. ASSUME UNCHANGED executionVars PROVE DAGInv'
  BY <1>a, <1>c DEF DAGInv, StageTypeOK, CallsInv, CountInv, Outstanding,
                    executionVars, dagVars, hashVars
<1>d. ASSUME UNCHANGED <<mode, dagVars, hashVars>>, begun' \in BOOLEAN,
             StartDMT \/ UNCHANGED <<dmt, twice>>,
             mode = "DAG" => dmt' = dmt
      PROVE  DAGInv'
  <2>1. /\ twice' \in BOOLEAN /\ dmt' \in DMTStates
    BY <1>a, <1>d DEF StartDMT, StageTypeOK
  <2> QED BY <1>a, <1>b, <1>d, <2>1 DEF dagVars, hashVars, StageTypeOK
<1>1. CASE AsyncExecute
  BY <1>d, <1>1 DEF AsyncExecute
<1>2. ASSUME NEW e \in Executors, NEW ok \in BOOLEAN, NextBlockAnswer(e, ok) PROVE DAGInv'
  BY <1>a, <1>d, <1>2 DEF NextBlockAnswer, StageTypeOK
<1>3. ASSUME NEW e \in Executors, NextBlockCheck(e) PROVE DAGInv'
  <2>1. CASE StartDAG /\ mode = "DAG" /\ UNCHANGED dmt
    BY <1>3, <2>1, StartDAGCounts DEF NextBlockCheck
  <2>2. CASE ~(StartDAG /\ mode = "DAG" /\ UNCHANGED dmt)
    <3>1. /\ UNCHANGED <<mode, dagVars, hashVars, begun>>
          /\ StartDMT \/ UNCHANGED <<dmt, twice>>
          /\ mode = "DAG" => dmt' = dmt
      BY <1>3, <2>2 DEF NextBlockCheck
    <3> QED BY <1>a, <1>d, <3>1 DEF StageTypeOK
  <2> QED BY <2>1, <2>2
<1>4. ASSUME NEW c \in DAGContracts,
             \/ \E error \in BOOLEAN, size \in 0 .. DAGSize[c] : DAGSubtract(c, error, size)
             \/ DAGStore(c) \/ DAGCheck(c)
      PROVE  DAGInv'
  BY <1>4, SubtractCounts, SettleCounts
<1>5. ASSUME NEW ok \in BOOLEAN, DMTEnd(ok) PROVE DAGInv'
  BY <1>a, <1>b, <1>5 DEF DMTEnd, dagVars, StageTypeOK
<1>8. CASE DMTStops
  BY <1>a, <1>b, <1>8 DEF DMTStops, dagVars, hashVars, StageTypeOK
<1>6. ASSUME NEW e \in Executors,
             \/ HashXor(e) \/ HashCheck(e)
             \/ \E ok \in BOOLEAN : HashAnswer(e, ok)
      PROVE  DAGInv'
  <2>1. /\ UNCHANGED <<mode, dagVars, begun, twice, dmt>>
        /\ totalHash' \subseteq totalHash \cup {e}
        /\ roots' \subseteq roots \cup {totalHash}
    BY <1>6 DEF HashXor, HashCheck, HashAnswer
  <2> QED BY <1>a, <1>b, <2>1 DEF dagVars, StageTypeOK
<1>7. CASE ExecutionNext
  BY <1>7, <1>1, <1>2, <1>3, <1>4, <1>5, <1>6, <1>8 DEF ExecutionNext, ExecutionStep
<1> QED BY <1>c, <1>7 DEF Next, Register, vars

-----------------------------------------------------------------------------
(* Where the assertion, the second root and the second start come from.    *)

\* Without an overlap of their handlers the hashes have one root, and the
\* batches are started by the one callback of batchNextBlock.
RaceInv ==
    /\ ~hashes.overlap => roots \subseteq {hashes.asked}
    /\ mode = "PLAIN" /\ dmt # "none" => nextBlock.delivered # {}
    /\ mode # "DAG" /\ twice => nextBlock.overlap
    /\ prewrite \in {"none", "called", "done", "failed"}

LEMMA RaceInit == Init => RaceInv
BY DEF Init, ExecutionInit, CommitInit, RaceInv

\* A handler that runs alone finds all hashes in the XOR.
LEMMA RootAlone ==
  ASSUME StagesInv, RaceInv, NEW e \in Executors, HashCheck(e)
  PROVE  ~hashes'.overlap => roots' \subseteq {hashes'.asked}
<1>a. /\ hashes \in Joins({"HASHES"}) /\ JoinInv(hashes) /\ HandlersInv(hashes) /\ HashInv
      /\ ~hashes.overlap => roots \subseteq {hashes.asked}
  BY DEF StagesInv, LifecycleInv, ExecutionInv, ExecutionHandlers, RaceInv
<1>b. /\ e \in Checking(hashes) /\ e \in hashes.failed \cup totalHash
      /\ hashes' = Check(hashes, e)
      /\ roots' = IF Complete(hashes) /\ hashes.failed = {} THEN roots \cup {totalHash} ELSE roots
  BY DEF HashCheck
<1>1. hashes'.overlap = hashes.overlap /\ hashes'.asked = hashes.asked
  BY <1>a, <1>b DEF Check, Joins
<1> SUFFICES ASSUME ~hashes.overlap, Complete(hashes), hashes.failed = {}
             PROVE  totalHash = hashes.asked
  BY <1>a, <1>b, <1>1
<1>2. Waiting(hashes) = {}
  BY <1>a, CompleteMeansAll DEF HashInv
<1>3. hashes.asked = hashes.success
  BY <1>a, <1>2 DEF Waiting, Counted, JoinInv
<1>4. ASSUME NEW p \in hashes.success PROVE p \in totalHash
  <2>1. CASE p \in hashes.checked
    BY <1>a, <2>1 DEF HashInv
  <2>2. CASE p \notin hashes.checked
    <3>1. p \in Checking(hashes)
      BY <2>2 DEF Checking, Counted
    <3>2. p = e
      BY <1>a, <1>b, <3>1 DEF HandlersInv
    <3> QED BY <1>b, <3>2
  <2> QED BY <2>1, <2>2
<1> QED BY <1>a, <1>3, <1>4 DEF HashInv

LEMMA RaceStep == StagesInv /\ DAGInv /\ RaceInv /\ [Next]_vars => RaceInv'
<1> SUFFICES ASSUME StagesInv, DAGInv, RaceInv, [Next]_vars PROVE RaceInv'
  OBVIOUS
<1>a. /\ nextBlock \in Joins({"NEXT_BLOCK"}) /\ hashes \in Joins({"HASHES"})
      /\ HandlersInv(nextBlock) /\ StartInv /\ HashInv /\ CallsInv
      /\ mode = "PLAIN" /\ dmt # "none" => nextBlock.delivered # {}
  BY DEF StagesInv, LifecycleInv, ExecutionInv, ExecutionHandlers, DAGInv, RaceInv
<1>b. /\ ~hashes.overlap => roots \subseteq {hashes.asked}
      /\ mode # "DAG" /\ twice => nextBlock.overlap
      /\ prewrite \in {"none", "called", "done", "failed"}
  BY DEF RaceInv
<1>1. CASE AsyncExecute /\ UNCHANGED commitVars
  <2>1. /\ nextBlock = NotBegun /\ dmt = "none" /\ hashes' = hashes /\ roots' = roots
        /\ mode' = mode /\ prewrite' = prewrite
    BY <1>a, <1>1 DEF AsyncExecute, StartInv, hashVars, commitVars
  <2>2. mode # "DAG" => ~twice
    BY <1>b, <2>1 DEF NotBegun, NewJoin
  <2>3. mode # "DAG" => ~twice'
    BY <1>1, <2>1, <2>2 DEF AsyncExecute, StartDMT
  <2>4. mode = "PLAIN" => dmt' = "none"
    BY <1>1, <2>1 DEF AsyncExecute
  <2> QED BY <1>b, <2>1, <2>3, <2>4 DEF RaceInv
<1>2. ASSUME NEW e \in Executors, NEW ok \in BOOLEAN, NextBlockAnswer(e, ok), UNCHANGED commitVars
      PROVE  RaceInv'
  <2>1. /\ UNCHANGED <<mode, dmt, hashes, roots, twice, prewrite>>
        /\ nextBlock' = Count(nextBlock, e, ok)
    BY <1>2 DEF NextBlockAnswer, hashVars, commitVars
  <2>2. nextBlock'.delivered = nextBlock.delivered /\ (nextBlock.overlap => nextBlock'.overlap)
    <3> DEFINE overlap == nextBlock.overlap \/ Checking(nextBlock) # {}
               success == IF ok THEN nextBlock.success \cup {e} ELSE nextBlock.success
               failed == IF ok THEN nextBlock.failed ELSE nextBlock.failed \cup {e}
    <3>1. nextBlock' = [nextBlock EXCEPT !.success = success, !.failed = failed, !.overlap = overlap]
      BY <2>1 DEF Count
    <3>2. nextBlock.overlap => overlap
      OBVIOUS
    <3> HIDE DEF overlap, success, failed
    <3> QED BY <1>a, <3>1, <3>2 DEF Joins
  <2> QED BY <1>a, <1>b, <2>1, <2>2 DEF RaceInv
<1>3. ASSUME NEW e \in Executors, NextBlockCheck(e), UNCHANGED commitVars PROVE RaceInv'
  <2>1. /\ UNCHANGED <<mode, hashes, roots, prewrite>> /\ e \in Checking(nextBlock) /\ ~twice
        /\ nextBlock' = Check(nextBlock, e)
    BY <1>3 DEF NextBlockCheck, hashVars, commitVars
  <2>2. /\ nextBlock'.overlap = nextBlock.overlap
        /\ nextBlock.delivered \subseteq nextBlock'.delivered
        /\ Complete(nextBlock) => nextBlock'.delivered # {}
    BY <1>a, <2>1 DEF Check, Joins
  <2>3. nextBlock.delivered # {} => nextBlock.overlap
    BY <1>a, <2>1 DEF HandlersInv, StartInv
  <2>4. mode # "DAG" => \/ UNCHANGED <<dmt, twice>>
                        \/ Complete(nextBlock) /\ StartDMT /\ mode = "PLAIN"
    BY <1>3 DEF NextBlockCheck
  <2>5. CASE mode # "DAG" /\ ~UNCHANGED <<dmt, twice>>
    <3>1. twice' => dmt # "none"
      BY <2>1, <2>4, <2>5 DEF StartDMT
    <3> QED BY <1>a, <1>b, <2>1, <2>2, <2>3, <2>4, <2>5, <3>1 DEF RaceInv
  <2>6. CASE mode # "DAG" /\ UNCHANGED <<dmt, twice>>
    BY <1>a, <1>b, <2>1, <2>2, <2>6 DEF RaceInv
  <2>7. CASE mode = "DAG"
    BY <1>b, <2>1, <2>7 DEF RaceInv
  <2> QED BY <2>5, <2>6, <2>7
<1>4. ASSUME NEW c \in DAGContracts, UNCHANGED commitVars,
             \/ \E error \in BOOLEAN, size \in 0 .. DAGSize[c] : DAGSubtract(c, error, size)
             \/ DAGStore(c) \/ DAGCheck(c)
      PROVE  RaceInv'
  <2>1. /\ UNCHANGED <<mode, hashes, roots, prewrite>> /\ dagCalls[c].pc # "none"
    BY <1>4 DEF DAGSubtract, DAGStore, DAGCheck, hashVars, commitVars
  <2>2. mode = "DAG"
    BY <1>a, <2>1 DEF CallsInv
  <2> QED BY <1>b, <2>1, <2>2 DEF RaceInv
<1>5. ASSUME NEW ok \in BOOLEAN, DMTEnd(ok), UNCHANGED commitVars PROVE RaceInv'
  <2>1. UNCHANGED <<mode, nextBlock, roots, twice, prewrite>> /\ dmt = "running"
    BY <1>5 DEF DMTEnd, commitVars
  <2>2. roots = {}
    BY <1>a, <2>1, NotBegunFacts DEF HashInv, HasResult
  <2> QED BY <1>a, <1>b, <2>1, <2>2 DEF RaceInv
<1>s. ASSUME DMTStops, UNCHANGED commitVars PROVE RaceInv'
  <2>1. UNCHANGED <<mode, nextBlock, roots, twice, prewrite, hashes>> /\ dmt = "running"
    BY <1>s DEF DMTStops, hashVars, commitVars
  <2> QED BY <1>b, <2>1 DEF RaceInv
<1>6. ASSUME NEW e \in Executors, UNCHANGED commitVars,
             HashXor(e) \/ HashCheck(e) \/ \E ok \in BOOLEAN : HashAnswer(e, ok)
      PROVE  RaceInv'
  <2>1. UNCHANGED <<mode, nextBlock, twice, prewrite, dmt>>
    BY <1>6 DEF HashXor, HashCheck, HashAnswer, commitVars
  <2>2. ~hashes'.overlap => roots' \subseteq {hashes'.asked}
    <3>1. CASE HashXor(e)
      BY <1>b, <3>1 DEF HashXor
    <3>2. CASE HashCheck(e)
      BY <3>2, RootAlone
    <3>3. CASE \E ok \in BOOLEAN : HashAnswer(e, ok)
      <4>1. e \in Waiting(hashes) /\ roots' = roots
        BY <3>3 DEF HashAnswer
      <4>2. roots = {}
        BY <1>a, <4>1 DEF HashInv, HasResult
      <4> QED BY <4>1, <4>2
    <3> QED BY <1>6, <3>1, <3>2, <3>3
  <2> QED BY <1>a, <1>b, <2>1, <2>2 DEF RaceInv
<1>7. ASSUME UNCHANGED executionVars, prewrite' \in {"none", "called", "done", "failed"}
      PROVE  RaceInv'
  BY <1>a, <1>b, <1>7 DEF RaceInv, executionVars, hashVars
<1>8. CASE \/ \E e \in Executors : Register(e)
           \/ AsyncCommit /\ UNCHANGED executionVars
           \/ CommitStep /\ UNCHANGED executionVars
           \/ UNCHANGED vars
  <2>1. UNCHANGED executionVars
    BY <1>8 DEF Register, vars
  <2>2. prewrite' \in {"none", "called", "done", "failed"}
    BY <1>b, <1>8 DEF Register, vars, commitVars, AsyncCommit, CommitStep, Prewritten,
                      StoragePrepared, StorageEnded, ExecutorPrepared, ExecutorEnded,
                      PrepareCheck, SecondCheck
  <2> QED BY <1>7, <2>1, <2>2
<1>9. CASE ExecutionNext /\ UNCHANGED commitVars
  BY <1>9, <1>1, <1>2, <1>3, <1>4, <1>5, <1>s, <1>6 DEF ExecutionNext, ExecutionStep
<1> QED BY <1>8, <1>9 DEF Next

LEMMA RacesInvariant == Spec => [](StagesInv /\ DAGInv /\ RaceInv)
BY StagesInit, DAGInit, RaceInit, StagesStep, DAGStep, RaceStep, PTL DEF Spec

\* The variables of a block keep their types: the unsigned totalCount of
\* DAGExecute in particular never wraps below zero, whichever answers lack
\* messages and in whatever order they are subtracted.
THEOREM LifecycleTypeCorrect == Spec => []TypeOK
<1>1. StagesInv /\ DAGInv /\ RaceInv => TypeOK
  <2> SUFFICES ASSUME StagesInv, DAGInv, RaceInv PROVE TypeOK
    OBVIOUS
  <2>1. totalCount \in Nat
    BY OutstandingFinite DEF DAGInv, CountInv
  <2> QED BY <2>1 DEF TypeOK, StagesInv, LifecycleInv, ExecutionInv, CommitInv, DAGInv,
                      StageTypeOK, RaceInv
<1> QED BY <1>1, RacesInvariant, PTL

\* An answer of the DAG phase that lacks messages keeps totalCount above zero
\* for ever, for any contracts and sizes, so DMTExecute is never called.
THEOREM ShortDAGStopsCorrect == Spec => []ShortDAGStops
<1>1. StagesInv /\ DAGInv /\ RaceInv => ShortDAGStops
  <2> SUFFICES ASSUME DAGInv, NEW c \in DAGContracts, dagCalls[c].pc \notin {"none", "sent"},
                      dagCalls[c].size < DAGSize[c], dmt # "none"
               PROVE  FALSE
    BY DEF ShortDAGStops, DAGShort
  <2>1. Outstanding = {}
    BY DEF DAGInv, CallsInv, CountInv
  <2>2. DAGSize[c] \in 1 .. DAGSize[c] /\ DAGSize[c] \in Nat /\ dagCalls[c].size \in Nat
    BY DAGAssumption DEF DAGInv, StageTypeOK
  <2>3. <<c, DAGSize[c]>> \in Requests
    BY <2>2, IsRequest
  <2>4. <<c, DAGSize[c]>> \in Outstanding
    BY <2>2, <2>3 DEF Outstanding
  <2> QED BY <2>1, <2>4
<1> QED BY <1>1, RacesInvariant, PTL

\* assert(message) of the first batch fails only if, at that moment, another
\* handler of DAGExecute has subtracted its messages and not yet stored them.
THEOREM AssertionNeedsRace ==
  Spec => [][dmt # "asserted" /\ dmt' = "asserted" =>
                \E c \in DAGContracts : dagCalls[c].pc = "subtracted"]_vars
<1>1. ASSUME StagesInv, DAGInv, [Next]_vars, dmt # "asserted", dmt' = "asserted"
      PROVE  \E c \in DAGContracts : dagCalls[c].pc = "subtracted"
  <2>a. StageTypeOK /\ CallsInv /\ CountInv
    BY <1>1 DEF DAGInv
  <2>1. StartDMT /\ mode = "DAG" /\ dagStored # DAGContracts
    <3>1. ~UNCHANGED executionVars
      BY <1>1 DEF executionVars
    <3>2. ExecutionNext
      BY <1>1, <3>1 DEF Next, vars, Register
    <3>3. StartDMT
      BY <1>1, <3>2 DEF ExecutionNext, ExecutionStep, AsyncExecute, NextBlockAnswer, NextBlockCheck,
         DAGSubtract, DAGStore, DAGCheck, DMTEnd, DMTStops, HashAnswer, HashXor, HashCheck
    <3> QED BY <1>1, <3>3 DEF StartDMT
  <2>2. PICK c \in DAGContracts : DAGCheck(c) /\ totalCount = 0 /\ dagFailed = {}
    <3>1. ~UNCHANGED executionVars
      BY <1>1 DEF executionVars
    <3>2. ExecutionNext
      BY <1>1, <3>1 DEF Next, vars, Register
    <3>3. \E c \in DAGContracts : DAGCheck(c)
      BY <1>1, <2>1, <3>2 DEF ExecutionNext, ExecutionStep, AsyncExecute, NextBlockAnswer,
         NextBlockCheck, DAGSubtract, DAGStore, DMTEnd, DMTStops, HashAnswer, HashXor, HashCheck
    <3> QED BY <1>1, <3>3 DEF DAGCheck
  <2>3. \A d \in DAGContracts : dagCalls[d].pc # "none"
    BY <2>a, <2>2 DEF CountInv, DAGCheck
  <2>4. Outstanding = {}
    BY <2>a, <2>2, OutstandingFinite, FS_EmptySet DEF CountInv, DAGCheck
  <2>5. PICK d \in DAGContracts : d \notin dagStored
    BY <2>1, <2>a DEF StageTypeOK
  <2>6. dagCalls[d].pc # "sent"
    <3>1. DAGSize[d] \in 1 .. DAGSize[d] /\ DAGSize[d] \in Nat /\ DAGSize[d] > 0
      BY DAGAssumption
    <3>2. <<d, DAGSize[d]>> \in Requests
      BY <3>1, IsRequest
    <3>3. ~(DAGSize[d] > dagCalls[d].size)
      BY <2>4, <3>2 DEF Outstanding
    <3> QED BY <2>a, <3>1, <3>3 DEF CallsInv
  <2>7. dagCalls[d].pc \notin {"settled", "returned"}
    BY <2>a, <2>2, <2>5 DEF CallsInv
  <2>8. dagCalls[d].pc \in {"none", "sent", "subtracted", "settled", "returned"}
    BY <2>a DEF StageTypeOK
  <2> QED BY <2>3, <2>6, <2>7, <2>8
<1> QED BY <1>1, RacesInvariant, PTL DEF Spec

\* A block has a second state root only if two handlers of batchGetHashes were
\* between ++success and checkAndCommit at one time; otherwise its root is
\* over the hashes of all executors that were asked.
THEOREM OneRootWithoutOverlap ==
  Spec => [](~hashes.overlap => OneRoot /\ roots \subseteq {hashes.asked})
<1>1. StagesInv /\ DAGInv /\ RaceInv => (~hashes.overlap => OneRoot /\ roots \subseteq {hashes.asked})
  <2> SUFFICES ASSUME RaceInv, ~hashes.overlap PROVE OneRoot /\ roots \subseteq {hashes.asked}
    OBVIOUS
  <2>1. roots \subseteq {hashes.asked}
    BY DEF RaceInv
  <2>2. roots = {} \/ roots = {hashes.asked}
    BY <2>1
  <2>3. Cardinality(roots) = 0 \/ Cardinality(roots) = 1
    BY <2>2, FS_EmptySet, FS_Singleton
  <2> QED BY <2>1, <2>3 DEF OneRoot
<1> QED BY <1>1, RacesInvariant, PTL

\* Outside the DAG phase DMTExecute is called a second time only if two
\* handlers of batchNextBlock overlapped.
THEOREM StartedOnceWithoutOverlap == Spec => [](mode # "DAG" /\ ~nextBlock.overlap => ~twice)
<1>1. StagesInv /\ DAGInv /\ RaceInv => (mode # "DAG" /\ ~nextBlock.overlap => ~twice)
  BY DEF RaceInv
<1> QED BY <1>1, RacesInvariant, PTL

=============================================================================
