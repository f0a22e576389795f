----------------------- MODULE ExecutorManagerProofs -----------------------
(***************************************************************************)
(* Proofs about ExecutorManager, for any threads, contracts and executors. *)
(***************************************************************************)
EXTENDS ExecutorManager, FiniteSetTheorems, TLAPS

\* A thread inside dispatchExecutor has a contract it asks for.
AskedOK == \A t \in Threads : pc[t] # "idle" => asked[t] \in Contracts

ManagerInv == ManagerTypeOK /\ AskedOK

LEMMA TypeInit == Init => ManagerInv
BY DEF Init, ManagerInv, ManagerTypeOK, AskedOK

LEMMA TypeStep == ManagerInv /\ [Next]_vars => ManagerInv'
<1> SUFFICES ASSUME ManagerInv, [Next]_vars PROVE ManagerInv'
  OBVIOUS
<1> USE DEF ManagerInv, ManagerTypeOK, AskedOK
<1>1. ASSUME NEW n \in Names, AddExecutor(n) PROVE ManagerInv'
  BY <1>1 DEF AddExecutor
<1>2. ASSUME NEW n \in Names, RemoveExecutor(n) PROVE ManagerInv'
  BY <1>2 DEF RemoveExecutor
<1>10. ASSUME NEW n \in Names, RemoveThrows(n) PROVE ManagerInv'
  BY <1>10 DEF RemoveThrows
<1>3. ASSUME NEW t \in Threads, NEW c \in Contracts, Call(t, c) PROVE ManagerInv'
  BY <1>3 DEF Call, assignment
<1>4. ASSUME NEW t \in Threads, Find(t) PROVE ManagerInv'
  BY <1>4 DEF Find, Return, Missing, assignment
<1>5. ASSUME NEW t \in Threads, TryLock(t) PROVE ManagerInv'
  BY <1>5 DEF TryLock, assignment
<1>6. ASSUME NEW t \in Threads, NEW n \in Names, Assign(t, n) PROVE ManagerInv'
  BY <1>6 DEF Assign, Return
<1>7. ASSUME NEW t \in Threads, NEW n \in Names, AssignThrows(t, n) PROVE ManagerInv'
  BY <1>7 DEF AssignThrows
<1>8. ASSUME NEW t \in Threads, AssignFromEmpty(t) PROVE ManagerInv'
  BY <1>8 DEF AssignFromEmpty, assignment
<1>9. CASE UNCHANGED vars
  BY <1>9 DEF vars, assignment
<1> QED BY <1>1, <1>2, <1>3, <1>4, <1>5, <1>6, <1>7, <1>8, <1>9, <1>10 DEF Next

\* Type correctness of the manager's state, for any number of callers.
THEOREM ManagerTypeCorrect == Spec => []ManagerTypeOK
<1>1. ManagerInv => ManagerTypeOK
  BY DEF ManagerInv
<1> QED BY <1>1, TypeInit, TypeStep, PTL DEF Spec

-----------------------------------------------------------------------------
(* An entry of the map is taken away by a removal only.                    *)

LEMMA StickyStep == ManagerInv /\ [Next]_vars => [KeepsExecutor]_vars
<1> SUFFICES ASSUME ManagerInv, [Next]_vars, NEW c \in Contracts,
                    m_contract2ExecutorInfo[c] # None
             PROVE  \/ m_contract2ExecutorInfo'[c] = m_contract2ExecutorInfo[c]
                    \/ m_contract2ExecutorInfo'[c] = None /\ pc' = pc
  BY DEF KeepsExecutor
<1> USE DEF ManagerInv, ManagerTypeOK, AskedOK
<1>1. ASSUME NEW n \in Names, RemoveExecutor(n) \/ RemoveThrows(n)
      PROVE  /\ m_contract2ExecutorInfo'[c] \in {m_contract2ExecutorInfo[c], None}
             /\ pc' = pc
  BY <1>1 DEF RemoveExecutor, RemoveThrows
<1>2. ASSUME NEW t \in Threads, NEW n \in Names, Assign(t, n)
      PROVE  m_contract2ExecutorInfo'[c] = m_contract2ExecutorInfo[c]
  BY <1>2 DEF Assign
<1>3. ASSUME \/ \E n \in Names : AddExecutor(n)
             \/ \E t \in Threads :
                   \/ \E d \in Contracts : Call(t, d)
                   \/ Find(t) \/ TryLock(t) \/ AssignFromEmpty(t)
                   \/ \E n \in Names : AssignThrows(t, n)
      PROVE  m_contract2ExecutorInfo' = m_contract2ExecutorInfo
  BY <1>3 DEF AddExecutor, Call, Find, TryLock, AssignFromEmpty, AssignThrows, assignment
<1>4. CASE UNCHANGED vars
  BY <1>4 DEF vars, assignment
<1> QED BY <1>1, <1>2, <1>3, <1>4 DEF Next

\* However many threads dispatch a contract at once, its entry in the map is
\* never replaced, and only removeExecutor takes it away.
THEOREM StickyCorrect == Spec => Sticky
BY TypeInit, TypeStep, StickyStep, PTL DEF Spec, Sticky

-----------------------------------------------------------------------------
(* Any number of callers, executors added and removed.                     *)

\* Only registered executors are in the queue, so none is assigned a contract
\* after its removal.
RegisteredInv ==
    /\ ManagerInv
    /\ DispatchesRegistered
    /\ m_executorPriorityQueue \subseteq m_name2Executors

LEMMA RegisteredInit == Init => RegisteredInv
BY TypeInit DEF Init, RegisteredInv, DispatchesRegistered

LEMMA RegisteredStep == RegisteredInv /\ [Next]_vars => RegisteredInv'
<1> SUFFICES ASSUME RegisteredInv, [Next]_vars PROVE RegisteredInv'
  OBVIOUS
<1>0. ManagerInv'
  BY TypeStep DEF RegisteredInv
<1> USE ManagerAssumption
    DEF RegisteredInv, DispatchesRegistered, ManagerInv, ManagerTypeOK, AskedOK
<1>1. ASSUME NEW n \in Names, AddExecutor(n) PROVE RegisteredInv'
  BY <1>0, <1>1 DEF AddExecutor
<1>2. ASSUME NEW n \in Names, RemoveExecutor(n) PROVE RegisteredInv'
  BY <1>0, <1>2 DEF RemoveExecutor
<1>3. ASSUME NEW n \in Names, RemoveThrows(n) PROVE RegisteredInv'
  <2>1. PICK erased \in SUBSET contracts[n] :
          m_contract2ExecutorInfo' =
             [c \in Contracts |-> IF c \in erased THEN None ELSE m_contract2ExecutorInfo[c]]
    BY <1>3 DEF RemoveThrows
  <2>2. UNCHANGED <<m_name2Executors, contracts, m_executorPriorityQueue>>
    BY <1>3 DEF RemoveThrows
  <2> QED BY <1>0, <2>1, <2>2
<1>4. ASSUME NEW t \in Threads, NEW n \in Names, Assign(t, n) PROVE RegisteredInv'
  <2>1. n \in m_name2Executors /\ asked[t] \in Contracts
    BY <1>4 DEF Assign, IsTop
  <2>2. /\ contracts' = [contracts EXCEPT ![n] = @ \cup {asked[t]}]
        /\ m_contract2ExecutorInfo' = [m_contract2ExecutorInfo EXCEPT ![asked[t]] =
              IF m_contract2ExecutorInfo[asked[t]] = None
              THEN n ELSE m_contract2ExecutorInfo[asked[t]]]
        /\ UNCHANGED <<m_name2Executors, m_executorPriorityQueue>>
    BY <1>4 DEF Assign
  <2> QED BY <1>0, <2>1, <2>2
<1>5. ASSUME NEW t \in Threads, NEW n \in Names, AssignThrows(t, n) PROVE RegisteredInv'
  BY <1>0, <1>5 DEF AssignThrows
<1>6. ASSUME NEW t \in Threads,
             \/ \E c \in Contracts : Call(t, c)
             \/ Find(t) \/ TryLock(t) \/ AssignFromEmpty(t)
      PROVE  RegisteredInv'
  BY <1>0, <1>6 DEF Call, Find, TryLock, AssignFromEmpty, assignment
<1>7. CASE UNCHANGED vars
  BY <1>0, <1>7 DEF vars, assignment
<1> QED BY <1>1, <1>2, <1>3, <1>4, <1>5, <1>6, <1>7 DEF Next

\* Whatever dispatches and removals interleave or fail, the map never leads
\* to an executor that has been removed.
THEOREM DispatchRegisteredCorrect == Spec => []DispatchesRegistered
<1>1. RegisteredInv => DispatchesRegistered
  BY DEF RegisteredInv
<1> QED BY <1>1, RegisteredInit, RegisteredStep, PTL DEF Spec

-----------------------------------------------------------------------------
(* Until two callers miss one contract at the same time.                   *)

\* A thread that has missed a contract nobody raced for is the only one, and
\* still finds no entry for it; all answers given for such a contract agree
\* with the map.
MissInv ==
    /\ ManagerInv
    /\ \A t \in Threads : Missing(t) /\ asked[t] \notin raced =>
          /\ m_contract2ExecutorInfo[asked[t]] = None
          /\ \A s \in Threads : Missing(s) /\ asked[s] = asked[t] => s = t
    /\ \A c \in Contracts \ raced : answers[c] \subseteq {m_contract2ExecutorInfo[c]}

SerialInv == MissInv /\ (raced = {} => AssignmentExact)

LEMMA SerialInit == Init => SerialInv
<1> SUFFICES ASSUME Init PROVE SerialInv
  OBVIOUS
<1>1. ManagerInv
  BY TypeInit
<1> QED BY <1>1, ManagerAssumption DEF Init, SerialInv, MissInv, AssignmentExact, Missing

LEMMA MissStep == MissInv /\ [Next]_vars => MissInv'
<1> SUFFICES ASSUME MissInv, [Next]_vars PROVE MissInv'
  OBVIOUS
<1>0. ManagerInv'
  BY TypeStep DEF MissInv
<1> USE <1>0, ManagerAssumption DEF MissInv, ManagerInv, ManagerTypeOK, AskedOK, Missing
<1>1. ASSUME NEW n \in Names, AddExecutor(n) PROVE MissInv'
  BY <1>1 DEF AddExecutor
<1>2. ASSUME NEW n \in Names, RemoveExecutor(n) PROVE MissInv'
  BY <1>2 DEF RemoveExecutor
<1>3. ASSUME NEW n \in Names, RemoveThrows(n) PROVE MissInv'
  <2>1. PICK erased \in SUBSET contracts[n] :
          /\ m_contract2ExecutorInfo' =
                [c \in Contracts |-> IF c \in erased THEN None ELSE m_contract2ExecutorInfo[c]]
          /\ answers' = [c \in Contracts |-> IF c \in erased THEN {} ELSE answers[c]]
    BY <1>3 DEF RemoveThrows
  <2>2. (\A t \in Threads : pc[t] = "idle") /\ UNCHANGED <<pc, asked, raced>>
    BY <1>3 DEF RemoveThrows
  <2> QED BY <2>1, <2>2
<1>4. ASSUME NEW t \in Threads, NEW c \in Contracts, Call(t, c) PROVE MissInv'
  BY <1>4 DEF Call, assignment
<1>5. ASSUME NEW t \in Threads, Find(t) PROVE MissInv'
  <2>1. CASE m_contract2ExecutorInfo[asked[t]] # None
    BY <1>5, <2>1 DEF Find, Return, assignment
  <2>2. CASE m_contract2ExecutorInfo[asked[t]] = None
    <3>1. /\ raced' = raced \cup
                {asked[s] : s \in {r \in Threads : Missing(r) /\ asked[r] = asked[t]}}
          /\ pc' = [pc EXCEPT ![t] = "lock"]
          /\ UNCHANGED <<m_contract2ExecutorInfo, asked, answers>>
      BY <1>5, <2>2 DEF Find, assignment
    <3>2. ASSUME NEW s \in Threads, Missing(s), asked[s] \notin raced'
          PROVE  asked[s] # asked[t]
      BY <3>1, <3>2
    <3>3. ASSUME NEW s \in Threads, Missing(s)', asked'[s] \notin raced'
          PROVE  /\ m_contract2ExecutorInfo'[asked'[s]] = None
                 /\ \A r \in Threads : Missing(r)' /\ asked'[r] = asked'[s] => r = s
      BY <2>2, <3>1, <3>2, <3>3
    <3> QED BY <3>1, <3>3
  <2> QED BY <2>1, <2>2
<1>6. ASSUME NEW t \in Threads, TryLock(t) PROVE MissInv'
  BY <1>6 DEF TryLock, assignment
<1>7. ASSUME NEW t \in Threads, NEW n \in Names, Assign(t, n) PROVE MissInv'
  <2>1. /\ Missing(t)
        /\ asked[t] \in Contracts
        /\ m_contract2ExecutorInfo' = [m_contract2ExecutorInfo EXCEPT ![asked[t]] =
              IF m_contract2ExecutorInfo[asked[t]] = None
              THEN n ELSE m_contract2ExecutorInfo[asked[t]]]
        /\ answers' = [answers EXCEPT ![asked[t]] = @ \cup {n}]
        /\ pc' = [pc EXCEPT ![t] = "idle"]
        /\ asked' = [asked EXCEPT ![t] = None]
        /\ raced' = raced
    BY <1>7 DEF Assign, Return
  <2>2. ASSUME NEW c \in Contracts \ raced PROVE answers'[c] \subseteq {m_contract2ExecutorInfo'[c]}
    BY <2>1
  <2>3. ASSUME NEW s \in Threads, Missing(s)', asked'[s] \notin raced
        PROVE  /\ m_contract2ExecutorInfo'[asked'[s]] = None
               /\ \A r \in Threads : Missing(r)' /\ asked'[r] = asked'[s] => r = s
    <3>1. s # t /\ Missing(s) /\ asked'[s] = asked[s] /\ asked[s] # asked[t]
      BY <2>1, <2>3
    <3> QED BY <2>1, <2>3, <3>1
  <2> QED BY <2>1, <2>2, <2>3
<1>8. ASSUME NEW t \in Threads, NEW n \in Names, AssignThrows(t, n) PROVE MissInv'
  BY <1>8 DEF AssignThrows
<1>9. ASSUME NEW t \in Threads, AssignFromEmpty(t) PROVE MissInv'
  BY <1>9 DEF AssignFromEmpty, assignment
<1>10. CASE UNCHANGED vars
  BY <1>10 DEF vars, assignment
<1> QED BY <1>1, <1>2, <1>3, <1>4, <1>5, <1>6, <1>7, <1>8, <1>9, <1>10 DEF Next

LEMMA SerialStep == SerialInv /\ [Next]_vars => SerialInv'
<1> SUFFICES ASSUME SerialInv, [Next]_vars, raced' = {} PROVE AssignmentExact'
  BY MissStep DEF SerialInv
<1>0. raced = {}
  BY DEF Next, vars, AddExecutor, RemoveExecutor, RemoveThrows, Call, Find, TryLock,
         Assign, AssignThrows, AssignFromEmpty
<1> USE <1>0, ManagerAssumption
    DEF SerialInv, MissInv, AssignmentExact, ManagerInv, ManagerTypeOK, AskedOK, Missing
<1>1. ASSUME NEW n \in Names, AddExecutor(n) PROVE AssignmentExact'
  <2>1. /\ m_name2Executors' = m_name2Executors \cup {n}
        /\ contracts' = [contracts EXCEPT ![n] = {}]
        /\ n \notin m_name2Executors
        /\ m_executorPriorityQueue' = m_executorPriorityQueue \cup {n}
        /\ m_contract2ExecutorInfo' = m_contract2ExecutorInfo
    BY <1>1 DEF AddExecutor
  <2>2. ASSUME NEW c \in Contracts, NEW m \in Names
        PROVE  m_contract2ExecutorInfo'[c] = m <=> m \in m_name2Executors' /\ c \in contracts'[m]
    <3>1. CASE m = n
      BY <2>1, <3>1
    <3>2. CASE m # n
      BY <2>1, <3>2
    <3> QED BY <3>1, <3>2
  <2> QED BY <2>1, <2>2
<1>2. ASSUME NEW n \in Names, RemoveExecutor(n) PROVE AssignmentExact'
  BY <1>2 DEF RemoveExecutor
<1>3. ASSUME NEW n \in Names, RemoveThrows(n) PROVE FALSE
  BY <1>3 DEF RemoveThrows
<1>4. ASSUME NEW t \in Threads,
             \/ \E c \in Contracts : Call(t, c)
             \/ Find(t) \/ TryLock(t) \/ AssignFromEmpty(t)
      PROVE  AssignmentExact'
  BY <1>4 DEF Call, Find, TryLock, AssignFromEmpty, assignment
<1>5. ASSUME NEW t \in Threads, NEW n \in Names, Assign(t, n) PROVE AssignmentExact'
  <2>1. pc[t] = "assign" /\ n \in m_name2Executors /\ asked[t] \in Contracts
    BY <1>5 DEF Assign, IsTop
  <2>2. m_contract2ExecutorInfo[asked[t]] = None
    BY <2>1
  <2>3. /\ contracts' = [contracts EXCEPT ![n] = @ \cup {asked[t]}]
        /\ m_contract2ExecutorInfo' = [m_contract2ExecutorInfo EXCEPT ![asked[t]] = n]
        /\ UNCHANGED <<m_name2Executors, m_executorPriorityQueue>>
    BY <1>5, <2>2 DEF Assign
  <2> QED BY <2>1, <2>2, <2>3
<1>6. ASSUME NEW t \in Threads, NEW n \in Names, AssignThrows(t, n) PROVE FALSE
  BY <1>6 DEF AssignThrows, IsTop
<1>7. CASE UNCHANGED vars
  BY <1>7 DEF vars, assignment
<1> QED BY <1>1, <1>2, <1>3, <1>4, <1>5, <1>6, <1>7 DEF Next

\* Any number of callers: as long as no contract was missed by two callers at
\* the same time, the map, the executors' contract sets and the queue agree;
\* and a contract that was not raced for keeps its executor.
THEOREM SerialCorrect == Spec => []ExactUnlessRaced
<1>1. SerialInv => ExactUnlessRaced
  <2> SUFFICES ASSUME SerialInv, NEW c \in Contracts \ raced PROVE Cardinality(answers[c]) <= 1
    BY DEF SerialInv, ExactUnlessRaced
  <2>1. answers[c] = {} \/ answers[c] = {m_contract2ExecutorInfo[c]}
    BY DEF SerialInv, MissInv
  <2>2. Cardinality({}) = 0
    BY FS_EmptySet
  <2>3. Cardinality({m_contract2ExecutorInfo[c]}) = 1
    BY FS_Singleton
  <2> QED BY <2>1, <2>2, <2>3
<1> QED BY <1>1, SerialInit, SerialStep, PTL DEF Spec
=============================================================================
