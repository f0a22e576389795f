-------------------------- MODULE ExecutorManager --------------------------
(***************************************************************************)
(* Which executor runs which contract (class ExecutorManager).  A contract *)
(* is given to the executor that has the fewest contracts when it is first *)
(* asked for, and stays there.  dispatchExecutor is called by the thread   *)
(* that executes a block and, at the same time, by the threads that serve  *)
(* call and getCode; it looks into the concurrent map without the mutex    *)
(* and takes the mutex only to add a contract.                             *)
(***************************************************************************)
EXTENDS Naturals, FiniteSets

CONSTANTS Threads,    \* callers of dispatchExecutor
          Contracts,
          Names,      \* executors
          None        \* no executor, no contract, mutex not held

ASSUME ManagerAssumption == None \notin Names \cup Contracts \cup Threads

VARIABLES m_name2Executors,        \* registered executors
          contracts,               \* name -> ExecutorInfo::contracts
          m_contract2ExecutorInfo, \* contract -> executor, or None
          m_executorPriorityQueue, \* executors in the queue
          m_mutex,                 \* holder of the mutex
          pc,                      \* thread -> where it is in dispatchExecutor
          asked,                   \* thread -> the contract it asks for
          answers,                 \* contract -> executors returned since it was last unassigned
          raced                    \* history: contracts that two threads missed at the same time

assignment == <<m_name2Executors, contracts, m_contract2ExecutorInfo, m_executorPriorityQueue>>
vars == <<assignment, m_mutex, pc, asked, answers, raced>>

ManagerTypeOK ==
    /\ m_name2Executors \subseteq Names
    /\ contracts \in [Names -> SUBSET Contracts]
    /\ m_contract2ExecutorInfo \in [Contracts -> Names \cup {None}]
    /\ m_executorPriorityQueue \subseteq Names
    /\ m_mutex \in Threads \cup {None}
    /\ pc \in [Threads -> {"idle", "find", "lock", "assign", "crashed"}]
    /\ asked \in [Threads -> Contracts \cup {None}]
    /\ answers \in [Contracts -> SUBSET Names]
    /\ raced \subseteq Contracts

Init ==
    /\ m_name2Executors = {}
    /\ contracts = [n \in Names |-> {}]
    /\ m_contract2ExecutorInfo = [c \in Contracts |-> None]
    /\ m_executorPriorityQueue = {}
    /\ m_mutex = None
    /\ pc = [t \in Threads |-> "idle"]
    /\ asked = [t \in Threads |-> None]
    /\ answers = [c \in Contracts |-> {}]
    /\ raced = {}

\* A second executor of the same name is refused (an exception, no change).
AddExecutor(n) ==
    /\ m_mutex = None
    /\ n \notin m_name2Executors
    /\ m_name2Executors' = m_name2Executors \cup {n}
    /\ contracts' = [contracts EXCEPT ![n] = {}]
    /\ m_executorPriorityQueue' = m_executorPriorityQueue \cup {n}
    /\ UNCHANGED <<m_contract2ExecutorInfo, m_mutex, pc, asked, answers, raced>>

\* Mutant: the contracts stay in the map.
RemoveKeepsContracts(n) ==
    /\ \A t \in Threads : pc[t] = "idle"
    /\ n \in m_name2Executors
    /\ m_name2Executors' = m_name2Executors \ {n}
    /\ contracts' = [contracts EXCEPT ![n] = {}]
    /\ m_executorPriorityQueue' = m_name2Executors'
    /\ UNCHANGED <<m_contract2ExecutorInfo, m_mutex, pc, asked, answers, raced>>

\* Nothing is dispatched while an executor is removed: unsafe_erase must not
\* run beside a lookup.  Each of the executor's contracts is erased from the
\* map, whatever executor it leads to, and the queue is rebuilt.
RemoveExecutor(n) ==
    /\ \A t \in Threads : pc[t] = "idle"
    /\ n \in m_name2Executors
    /\ \A c \in contracts[n] : m_contract2ExecutorInfo[c] # None
    /\ m_contract2ExecutorInfo' =
          [c \in Contracts |-> IF c \in contracts[n] THEN None ELSE m_contract2ExecutorInfo[c]]
    /\ answers' = [c \in Contracts |-> IF c \in contracts[n] THEN {} ELSE answers[c]]
    /\ m_name2Executors' = m_name2Executors \ {n}
    /\ contracts' = [contracts EXCEPT ![n] = {}]
    /\ m_executorPriorityQueue' = m_name2Executors'
    /\ UNCHANGED <<m_mutex, pc, asked, raced>>

\* "Can't find contract in container": the exception comes after some of the
\* contracts have been erased, and the executor stays.
RemoveThrows(n) ==
    /\ \A t \in Threads : pc[t] = "idle"
    /\ n \in m_name2Executors
    /\ \E c \in contracts[n] : m_contract2ExecutorInfo[c] = None
    /\ \E erased \in SUBSET contracts[n] :
          /\ m_contract2ExecutorInfo' =
                [c \in Contracts |-> IF c \in erased THEN None ELSE m_contract2ExecutorInfo[c]]
          /\ answers' = [c \in Contracts |-> IF c \in erased THEN {} ELSE answers[c]]
    /\ UNCHANGED <<m_name2Executors, contracts, m_executorPriorityQueue, m_mutex, pc, asked, raced>>

(* dispatchExecutor                                                        *)

\* Without executors it returns nullptr at once.
Call(t, c) ==
    /\ pc[t] = "idle"
    /\ m_name2Executors # {}
    /\ pc' = [pc EXCEPT ![t] = "find"]
    /\ asked' = [asked EXCEPT ![t] = c]
    /\ UNCHANGED <<assignment, m_mutex, answers, raced>>

Return(t, n) ==
    /\ pc' = [pc EXCEPT ![t] = "idle"]
    /\ asked' = [asked EXCEPT ![t] = None]
    /\ answers' = [answers EXCEPT ![asked[t]] = @ \cup {n}]

\* Mutant: the entry is used without asking whether there is one.
FindUnchecked(t) ==
    /\ pc[t] = "find"
    /\ Return(t, m_contract2ExecutorInfo[asked[t]])
    /\ UNCHANGED <<assignment, m_mutex, raced>>

\* Mutant: the contract is not looked up.
FindNothing(t) ==
    /\ pc[t] = "find"
    /\ pc' = [pc EXCEPT ![t] = "lock"]
    /\ UNCHANGED <<assignment, m_mutex, asked, answers, raced>>

Missing(t) == pc[t] \in {"lock", "assign"}

Find(t) ==
    /\ pc[t] = "find"
    /\ LET n == m_contract2ExecutorInfo[asked[t]]
       IN  \/ /\ n # None
              /\ Return(t, n)
              /\ UNCHANGED raced
           \/ /\ n = None
              /\ pc' = [pc EXCEPT ![t] = "lock"]
              /\ raced' = raced \cup {asked[s] : s \in {r \in Threads : Missing(r) /\ asked[r] = asked[t]}}
              /\ UNCHANGED <<asked, answers>>
    /\ UNCHANGED <<assignment, m_mutex>>

\* try_to_lock: a thread that fails looks the contract up again, one that
\* succeeds does not.
TryLock(t) ==
    /\ pc[t] = "lock"
    /\ \/ /\ m_mutex = None
          /\ m_mutex' = t
          /\ pc' = [pc EXCEPT ![t] = "assign"]
       \/ /\ m_mutex # None
          /\ pc' = [pc EXCEPT ![t] = "find"]
          /\ UNCHANGED m_mutex
    /\ UNCHANGED <<assignment, asked, answers, raced>>

\* The top of the queue: any executor with the fewest contracts.
IsTop(n) ==
    /\ n \in m_executorPriorityQueue
    /\ \A other \in m_executorPriorityQueue :
          Cardinality(contracts[n]) <= Cardinality(contracts[other])

\* Mutant: the entry is overwritten.
AssignOverwrites(t, n) ==
    /\ pc[t] = "assign"
    /\ IsTop(n)
    /\ asked[t] \notin contracts[n]
    /\ contracts' = [contracts EXCEPT ![n] = @ \cup {asked[t]}]
    /\ m_contract2ExecutorInfo' = [m_contract2ExecutorInfo EXCEPT ![asked[t]] = n]
    /\ m_mutex' = None
    /\ Return(t, n)
    /\ UNCHANGED <<m_name2Executors, m_executorPriorityQueue, raced>>

\* emplace leaves an entry that is there already as it is.
Assign(t, n) ==
    /\ pc[t] = "assign"
    /\ IsTop(n)
    /\ asked[t] \notin contracts[n]
    /\ contracts' = [contracts EXCEPT ![n] = @ \cup {asked[t]}]
    /\ m_contract2ExecutorInfo' =
          [m_contract2ExecutorInfo EXCEPT ![asked[t]] = IF @ = None THEN n ELSE @]
    /\ m_mutex' = None
    /\ Return(t, n)
    /\ UNCHANGED <<m_name2Executors, m_executorPriorityQueue, raced>>

\* "Insert into contracts fail!": the exception leaves the executor popped.
AssignThrows(t, n) ==
    /\ pc[t] = "assign"
    /\ IsTop(n)
    /\ asked[t] \in contracts[n]
    /\ m_executorPriorityQueue' = m_executorPriorityQueue \ {n}
    /\ m_mutex' = None
    /\ pc' = [pc EXCEPT ![t] = "idle"]
    /\ asked' = [asked EXCEPT ![t] = None]
    /\ UNCHANGED <<m_name2Executors, contracts, m_contract2ExecutorInfo, answers, raced>>

\* top() of an empty queue is undefined: the thread does not come back.
AssignFromEmpty(t) ==
    /\ pc[t] = "assign"
    /\ m_executorPriorityQueue = {}
    /\ pc' = [pc EXCEPT ![t] = "crashed"]
    /\ UNCHANGED <<assignment, m_mutex, asked, answers, raced>>

Next ==
    \/ \E n \in Names : AddExecutor(n) \/ RemoveExecutor(n) \/ RemoveThrows(n)
    \/ \E t \in Threads :
          \/ \E c \in Contracts : Call(t, c)
          \/ Find(t)
          \/ TryLock(t)
          \/ \E n \in Names : Assign(t, n) \/ AssignThrows(t, n)
          \/ AssignFromEmpty(t)

Spec == Init /\ [][Next]_vars

-----------------------------------------------------------------------------
(* Properties.                                                             *)

\* The map and the executors' own contract sets agree, and every registered
\* executor is in the queue.
AssignmentExact ==
    /\ \A c \in Contracts, n \in Names :
          m_contract2ExecutorInfo[c] = n <=> n \in m_name2Executors /\ c \in contracts[n]
    /\ m_executorPriorityQueue = m_name2Executors

\* The map leads only to registered executors that know the contract, so no
\* contract is dispatched to an executor that is gone: also when dispatches
\* raced before the removal, or a removal stopped half-way.
DispatchesRegistered ==
    \A c \in Contracts :
       m_contract2ExecutorInfo[c] # None =>
          /\ m_contract2ExecutorInfo[c] \in m_name2Executors
          /\ c \in contracts[m_contract2ExecutorInfo[c]]

KeepsExecutor ==
    \A c \in Contracts : m_contract2ExecutorInfo[c] # None =>
       \/ m_contract2ExecutorInfo'[c] = m_contract2ExecutorInfo[c]
       \/ m_contract2ExecutorInfo'[c] = None /\ pc' = pc

\* A contract that has an executor keeps it, also when several threads
\* dispatch the contract at once: no step replaces its executor by another
\* one, and no step of dispatchExecutor takes it away.
Sticky == [][KeepsExecutor]_vars

\* Dispatching a contract again returns the same executor: otherwise two
\* executors run, and keep state for, one contract.
SameExecutor == \A c \in Contracts : Cardinality(answers[c]) <= 1

\* However dispatches, registrations and removals interleave: as long as no
\* two callers have missed one contract at the same time, removeExecutor finds
\* all it has to erase and no executor is lost to dispatching; and a contract
\* that was not raced for is always dispatched to the same executor, also when
\* others were.
ExactUnlessRaced ==
    /\ raced = {} => AssignmentExact
    /\ \A c \in Contracts \ raced : Cardinality(answers[c]) <= 1
=============================================================================
