--------------------------- MODULE DMTLockProofs ---------------------------
(***************************************************************************)
(* Proofs about the key locks of DMTExecute: the list of locked keys that  *)
(* an executor works with stays exact, and, for a block whose contextIDs   *)
(* start at 0, no lock outlives its call frame and a batch that can send   *)
(* nothing finds a transaction to abort.                                   *)
(***************************************************************************)
EXTENDS DMTExecuteProofs

-----------------------------------------------------------------------------
(* What the steps do, variable by variable.                                *)

OnStack(c, seq) == \E n \in DOMAIN c : c[n] = seq

\* A walk sends message m of transaction i, whose state becomes s.
SendEffect(i, s, m) ==
    /\ phase = "send" /\ phase' = "send" /\ Current(i) /\ ~Skipped(i)
    /\ OnlyState(i, s) /\ s.message = NoMessage
    /\ s.key = m_executiveStates[i].key /\ s.skip = m_executiveStates[i].skip
    /\ DOMAIN atExecutor' = DOMAIN atExecutor \cup {i} /\ atExecutor'[i] = m
    /\ \A j \in DOMAIN atExecutor : j # i => atExecutor'[j] = atExecutor[j]
    /\ todo' = todo \ {i}
    /\ calledContract' = calledContract \cup {m.to}
    /\ batchStatus'.total = batchStatus.total + 1
    /\ m.keyLocks = LockedKeys(i, m)

\* The frames stay on the stack, but for the one that returns.  An abort goes
\* to the frame that waits, and only a key lock message changes the locks.
SendKinds(i, s, m) ==
    LET old == m_executiveStates[i]
    IN  /\ \A seq : OnStack(old.callStack, seq) => \/ OnStack(s.callStack, seq)
                                                   \/ /\ old.message.type \in ReturnType
                                                      /\ old.message.seq = seq
        /\ old.message.type = "REVERT_KEY_LOCK" => Aborted(m) /\ m.seq = old.message.seq
        /\ \/ /\ old.message.type # "KEY_LOCK" /\ lockVars' = lockVars
           \/ /\ old.message.type = "KEY_LOCK" /\ m.to = old.message.from
              /\ s.callStack = old.callStack
              /\ m_keyLocks!AcquireOwns(old.message.from, old.message.keyLockAcquired,
                                        i, old.message.seq)

LEMMA DispatchEffect ==
  ASSUME Inv, NEW i, Visiting(i), ~Skipped(i), NEW s1, NEW m1,
         Sendable(m_executiveStates[i], s1, m1, frames[i]), Dispatch(i, s1, m1),
         NEW s, s = [s1 EXCEPT !.message = NoMessage],
         NEW m, m = [m1 EXCEPT !.keyLocks = LockedKeys(i, m1)]
  PROVE  /\ SendEffect(i, s, m) /\ s \in ExecutiveState /\ m \in Message
         /\ s.callStack = s1.callStack /\ s.currentSeq = s1.currentSeq
         /\ m.type = m1.type /\ m.to = m1.to /\ m.seq = m1.seq
         /\ m.from = m1.from /\ m.keyLockAcquired = m1.keyLockAcquired
<1>1. phase = "send" /\ i \in todo /\ Current(i)
  BY DEF Visiting, Current
<1>2. i \in Live
  BY <1>1, Visited
<1>3. /\ s \in ExecutiveState /\ s.key = m_executiveStates[i].key
      /\ s.skip = m_executiveStates[i].skip /\ s.message = NoMessage
      /\ s.callStack = s1.callStack /\ s.currentSeq = s1.currentSeq
  BY DEF Sendable, ExecutiveState
<1>4. LockedKeys(i, m1) \in SUBSET Keys
  BY DEF LockedKeys, m_keyLocks!GetKeyLocksNotHoldingByContext
<1>5. /\ m \in Message /\ m.type = m1.type /\ m.to = m1.to /\ m.seq = m1.seq
      /\ m.from = m1.from /\ m.keyLockAcquired = m1.keyLockAcquired
      /\ m.keyLocks = LockedKeys(i, m1)
  BY <1>4 DEF Sendable, Message
<1>6. m.keyLocks = LockedKeys(i, m)
  BY <1>5 DEF LockedKeys
<1>7. /\ m_executiveStates' = [m_executiveStates EXCEPT ![i] = s]
      /\ atExecutor' = With(atExecutor, i, m)
      /\ calledContract' = calledContract \cup {m.to}
      /\ batchStatus' = [batchStatus EXCEPT !.total = @ + 1]
      /\ todo' = todo \ {i} /\ phase' = phase
  BY <1>5 DEF Dispatch
<1>8. OnlyState(i, s)
  BY <1>2, <1>7, OneState DEF Live, OnlyState
<1>9. /\ DOMAIN atExecutor' = DOMAIN atExecutor \cup {i} /\ atExecutor'[i] = m
      /\ \A j \in DOMAIN atExecutor : j # i => atExecutor'[j] = atExecutor[j]
  BY <1>7 DEF With
<1>10. batchStatus'.total = batchStatus.total + 1
  BY <1>7, BatchTypes DEF BatchStatus
<1>11. SendEffect(i, s, m)
  BY <1>1, <1>3, <1>6, <1>7, <1>8, <1>9, <1>10 DEF SendEffect
<1> QED BY <1>3, <1>5, <1>11

LEMMA AppendKeeps ==
  ASSUME NEW S, NEW c \in Seq(S), NEW x \in S, NEW seq, OnStack(c, seq)
  PROVE  OnStack(Append(c, x), seq)
<1>1. PICK n \in 1 .. Len(c) : c[n] = seq
  BY LenProperties DEF OnStack
<1>2. Append(c, x)[n] = seq /\ n \in DOMAIN Append(c, x)
  BY <1>1, AppendFacts, LenProperties
<1> QED BY <1>2 DEF OnStack

LEMMA FrontKeeps ==
  ASSUME NEW S, NEW c \in Seq(S), c # <<>>, NEW seq, OnStack(c, seq), seq # c[Len(c)]
  PROVE  OnStack(Front(c), seq)
<1>1. PICK n \in 1 .. Len(c) : c[n] = seq
  BY LenProperties DEF OnStack
<1>2. /\ Len(c) \in Nat /\ Front(c) \in Seq(S) /\ Len(Front(c)) = Len(c) - 1
      /\ \A k \in 1 .. Len(c) - 1 : Front(c)[k] = c[k]
  BY FrontFacts
<1>3. n \in 1 .. Len(c) - 1
  BY <1>1, <1>2
<1>4. Front(c)[n] = seq /\ n \in DOMAIN Front(c)
  BY <1>1, <1>2, <1>3, LenProperties
<1> QED BY <1>4 DEF OnStack

Sends(i) ==
    \/ VisitRequest(i) \/ VisitReturn(i) \/ VisitRevertKeyLock(i)
    \/ VisitAcquire(i) \/ VisitSendBack(i)

LEMMA SendFacts ==
  ASSUME Inv, NEW i, Sends(i)
  PROVE  \E s \in ExecutiveState, m \in Message : SendEffect(i, s, m) /\ SendKinds(i, s, m)
<1> DEFINE old == m_executiveStates[i]
<1>1. Visiting(i) /\ ~Skipped(i)
  BY DEF Sends, VisitRequest, VisitReturn, VisitRevertKeyLock, VisitAcquire, VisitSendBack
<1>2. /\ i \in TxIDs /\ old \in ExecutiveState /\ old.message \in Message
      /\ MsgOK(old, frames[i]) /\ FramesOK(frames[i])
  BY <1>1, Visited DEF Visiting, Current
<1>3. old.callStack \in Seq(Seqs)
  BY <1>2 DEF ExecutiveState
<1>4. CASE VisitRequest(i)
  <2> DEFINE s1 == [old EXCEPT !.currentSeq = @ + 1, !.callStack = Append(@, NewSeq(old))]
             m1 == [old.message EXCEPT !.seq = NewSeq(old),
                                       !.to = ResolveTo(i, old.message, NewSeq(old))]
  <2>1. old.message.type \in RequestType /\ Dispatch(i, s1, m1) /\ lockVars' = lockVars
    BY <1>4 DEF VisitRequest
  <2>2. Sendable(old, s1, m1, frames[i])
    BY <1>2, <2>1, RequestSent
  <2>3. s1.callStack = Append(old.callStack, NewSeq(old)) /\ NewSeq(old) \in Seqs
    BY <1>2, <2>1, ConstantsAssumption DEF ExecutiveState, MsgOK, NewSeq, Seqs
  <2> HIDE DEF s1, m1
  <2>4. PICK s, m : s = [s1 EXCEPT !.message = NoMessage]
                      /\ m = [m1 EXCEPT !.keyLocks = LockedKeys(i, m1)]
    OBVIOUS
  <2>5. SendEffect(i, s, m) /\ s \in ExecutiveState /\ m \in Message /\ s.callStack = s1.callStack
    BY <1>1, <2>1, <2>2, <2>4, DispatchEffect
  <2>6. \A seq : OnStack(old.callStack, seq) => OnStack(s.callStack, seq)
    BY <1>3, <2>3, <2>5, AppendKeeps
  <2>7. SendKinds(i, s, m)
    BY <2>1, <2>6 DEF SendKinds, RequestType
  <2> QED BY <2>5, <2>7
<1>5. CASE VisitReturn(i)
  <2> DEFINE s1 == [old EXCEPT !.callStack = Front(@)]
             m1 == [old.message EXCEPT !.seq = CallerSeq(old.callStack)]
  <2>1. /\ old.message.type \in ReturnType /\ Dispatch(i, s1, m1) /\ lockVars' = lockVars
        /\ Len(old.callStack) # 1
    BY <1>5 DEF VisitReturn, IsLastFrame
  <2>2. Sendable(old, s1, m1, frames[i])
    BY <1>2, <2>1, ReturnSent
  <2>3. s1.callStack = Front(old.callStack)
    BY <1>2 DEF ExecutiveState
  <2>4. old.callStack # <<>> /\ old.callStack[Len(old.callStack)] = old.message.seq
    <3>1. /\ Len(old.callStack) = Len(frames[i]) + 1
          /\ old.callStack[Len(frames[i]) + 1] = old.message.seq
          /\ Len(frames[i]) \in Nat
      BY <1>2, <2>1, LenProperties DEF MsgOK, FramesOK
    <3> QED BY <3>1, EmptySeq
  <2> HIDE DEF s1, m1
  <2>5. PICK s, m : s = [s1 EXCEPT !.message = NoMessage]
                      /\ m = [m1 EXCEPT !.keyLocks = LockedKeys(i, m1)]
    OBVIOUS
  <2>6. SendEffect(i, s, m) /\ s \in ExecutiveState /\ m \in Message /\ s.callStack = s1.callStack
    BY <1>1, <2>1, <2>2, <2>5, DispatchEffect
  <2>7. \A seq : OnStack(old.callStack, seq) => OnStack(s.callStack, seq) \/ seq = old.message.seq
    BY <1>3, <2>3, <2>4, <2>6, FrontKeeps
  <2>8. SendKinds(i, s, m)
    BY <2>1, <2>7 DEF SendKinds, ReturnType
  <2> QED BY <2>6, <2>8
<1>6. ASSUME NEW m1, Sendable(old, old, m1, frames[i]), Dispatch(i, old, m1)
      PROVE  \E s \in ExecutiveState, m \in Message :
                /\ SendEffect(i, s, m) /\ s.callStack = old.callStack
                /\ m.type = m1.type /\ m.to = m1.to /\ m.seq = m1.seq
                /\ m.keyLockAcquired = m1.keyLockAcquired
  <2>1. PICK s1 : s1 = old
    OBVIOUS
  <2>2. PICK s, m : s = [s1 EXCEPT !.message = NoMessage]
                      /\ m = [m1 EXCEPT !.keyLocks = LockedKeys(i, m1)]
    OBVIOUS
  <2> QED BY <1>1, <1>6, <2>1, <2>2, DispatchEffect
<1>7. CASE VisitRevertKeyLock(i)
  <2> DEFINE m1 == [old.message EXCEPT !.type = "REVERT"]
  <2>1. old.message.type = "REVERT_KEY_LOCK" /\ Dispatch(i, old, m1) /\ lockVars' = lockVars
    BY <1>7 DEF VisitRevertKeyLock
  <2>2. /\ m1 \in Message /\ m1.type = "REVERT" /\ m1.seq = old.message.seq
        /\ m1.to = old.message.to /\ m1.keyLockAcquired = old.message.keyLockAcquired
    BY <1>2 DEF Message, MessageType, ReturnType
  <2> HIDE DEF m1
  <2>3. Sendable(old, old, m1, frames[i])
    BY <1>2, <2>1, <2>2, WaitingSent
  <2>4. PICK s \in ExecutiveState, m \in Message :
                /\ SendEffect(i, s, m) /\ s.callStack = old.callStack
                /\ m.type = m1.type /\ m.to = m1.to /\ m.seq = m1.seq
                /\ m.keyLockAcquired = m1.keyLockAcquired
    BY <1>6, <2>1, <2>3
  <2>5. Aborted(m) /\ m.seq = old.message.seq
    BY <1>2, <2>1, <2>2, <2>4, ConstantsAssumption DEF Aborted, MsgOK
  <2>6. SendKinds(i, s, m)
    BY <2>1, <2>4, <2>5 DEF SendKinds
  <2> QED BY <2>4, <2>6
<1>8. CASE VisitAcquire(i)
  <2>1. /\ old.message.type = "KEY_LOCK" /\ Dispatch(i, old, old.message)
        /\ m_keyLocks!AcquireOwns(old.message.from, old.message.keyLockAcquired,
                                  i, old.message.seq)
    BY <1>8 DEF VisitAcquire
  <2>2. Sendable(old, old, old.message, frames[i])
    BY <1>2, <2>1, WaitingSent
  <2>3. PICK m1 : m1 = old.message
    OBVIOUS
  <2>4. PICK s \in ExecutiveState, m \in Message :
                /\ SendEffect(i, s, m) /\ s.callStack = old.callStack
                /\ m.type = m1.type /\ m.to = m1.to /\ m.seq = m1.seq
                /\ m.keyLockAcquired = m1.keyLockAcquired
    BY <1>6, <2>1, <2>2, <2>3
  <2>5. m.to = old.message.from
    BY <1>2, <2>1, <2>3, <2>4 DEF MsgOK
  <2>6. SendKinds(i, s, m)
    BY <2>1, <2>4, <2>5 DEF SendKinds
  <2> QED BY <2>4, <2>6
<1>9. CASE VisitSendBack(i)
  <2> DEFINE m1 == [old.message EXCEPT !.type = TopType,
                                       !.to = ResolveTo(i, old.message, old.message.seq)]
  <2>1. old.message.type = "SEND_BACK" /\ Dispatch(i, old, m1) /\ lockVars' = lockVars
    BY <1>9 DEF VisitSendBack
  <2>2. Sendable(old, old, m1, frames[i])
    BY <1>2, <2>1, SendBackSent
  <2> HIDE DEF m1
  <2>3. PICK s \in ExecutiveState, m \in Message :
                SendEffect(i, s, m) /\ s.callStack = old.callStack
    BY <1>6, <2>1, <2>2
  <2>4. SendKinds(i, s, m)
    BY <2>1, <2>3 DEF SendKinds
  <2> QED BY <2>3, <2>4
<1> QED BY <1>4, <1>5, <1>7, <1>8, <1>9 DEF Sends

\* An executor answers r (NoMessage: an error) to the message of transaction
\* i, whose state becomes s.
AnswerEffect(i, s, r) ==
    /\ i \in DOMAIN atExecutor /\ phase \in {"send", "wait"} /\ phase' = phase
    /\ OnlyState(i, s) /\ s.message = r
    /\ s.key = m_executiveStates[i].key /\ s.skip = m_executiveStates[i].skip
    /\ s.callStack = m_executiveStates[i].callStack
    /\ s.currentSeq = m_executiveStates[i].currentSeq
    /\ DOMAIN atExecutor' = DOMAIN atExecutor \ {i}
    /\ \A j \in DOMAIN atExecutor : j # i => atExecutor'[j] = atExecutor[j]
    /\ todo' = todo /\ calledContract' = calledContract /\ lockVars' = lockVars
    /\ batchStatus'.total = batchStatus.total /\ batchStatus.total # 0

\* An aborted frame only reverts; the other frames call, return or ask for a
\* key that was listed to them.
AnswerKinds(r, m) ==
    \/ r = NoMessage
    \/ /\ r \in Message /\ r.seq = m.seq /\ r.from = m.to
       /\ Aborted(m) => r.type = "REVERT"
       /\ \/ r.type \in ReturnType
          \/ r.type \in {"MESSAGE", "KEY_LOCK"} /\ r.keyLocks \in Touched(m)

LEMMA AnswerFacts ==
  ASSUME Inv, NEW i, Respond(i)
  PROVE  \E s \in ExecutiveState, r \in Message \cup {NoMessage} :
            AnswerEffect(i, s, r) /\ AnswerKinds(r, atExecutor[i])
<1> DEFINE m == atExecutor[i]
           old == m_executiveStates[i]
<1>1. i \in DOMAIN atExecutor
  BY DEF Respond, RespondCall, RespondReturn, RespondKeyLock, RespondError
<1>2. /\ i \in Live /\ old \in ExecutiveState /\ m \in Message /\ phase \in {"send", "wait"}
      /\ m.to \in Addresses
  BY <1>1 DEF Inv, TypeOK, BatchInv, Live, Message
<1>3. batchStatus.total # 0
  <2>1. batchStatus.received + Cardinality(DOMAIN atExecutor) = batchStatus.total
    BY DEF Inv, BatchInv
  <2>2. Cardinality(DOMAIN atExecutor) # 0
    BY <1>1, BatchTypes, CardinalityFacts
  <2>3. /\ batchStatus.received \in Nat /\ batchStatus.total \in Nat
        /\ Cardinality(DOMAIN atExecutor) \in Nat
    BY BatchTypes
  <2> QED BY <2>1, <2>2, <2>3
<1>4. ASSUME NEW r \in Message \cup {NoMessage}, NEW errors, ExecuteCallback(i, r, errors)
      PROVE  \E s \in ExecutiveState : AnswerEffect(i, s, r)
  <2> DEFINE s == [old EXCEPT !.message = r]
  <2>1. /\ m_executiveStates' = [m_executiveStates EXCEPT ![i] = s]
        /\ atExecutor' = Without(atExecutor, i)
        /\ batchStatus' = [batchStatus EXCEPT !.received = @ + 1, !.error = @ + errors]
        /\ todo' = todo /\ calledContract' = calledContract /\ phase' = phase
        /\ lockVars' = lockVars
    BY <1>2, <1>4 DEF ExecuteCallback, ExecutiveState
  <2>2. /\ s \in ExecutiveState /\ s.message = r /\ s.key = old.key /\ s.skip = old.skip
        /\ s.callStack = old.callStack /\ s.currentSeq = old.currentSeq
    BY <1>2, <1>4 DEF ExecutiveState
  <2> HIDE DEF s
  <2>3. OnlyState(i, s)
    BY <1>2, <2>1, OneState DEF Live, OnlyState
  <2>4. /\ DOMAIN atExecutor' = DOMAIN atExecutor \ {i}
        /\ \A j \in DOMAIN atExecutor : j # i => atExecutor'[j] = atExecutor[j]
    BY <2>1 DEF Without, Restrict
  <2>5. batchStatus'.total = batchStatus.total
    BY <2>1, BatchTypes DEF BatchStatus
  <2>6. AnswerEffect(i, s, r)
    BY <1>1, <1>2, <1>3, <2>1, <2>2, <2>3, <2>4, <2>5 DEF AnswerEffect
  <2> QED BY <2>2, <2>6
<1>5. \E r \in Message \cup {NoMessage} : \E errors :
         ExecuteCallback(i, r, errors) /\ AnswerKinds(r, m)
  <2>1. CASE RespondCall(i)
    <3>1. PICK callee \in Callees(m), locks \in Touched(m) :
             ExecuteCallback(i, Response(m, "MESSAGE", callee[1], callee[2], locks, NoKey), 0)
      BY <2>1 DEF RespondCall
    <3> DEFINE r == Response(m, "MESSAGE", callee[1], callee[2], locks, NoKey)
    <3>2. r.type = "MESSAGE" /\ r.seq = m.seq /\ r.from = m.to /\ r.keyLocks = locks
      BY DEF Response
    <3>3. r \in Message
      <4>1. callee[1] \in Addresses /\ callee[2] \in BOOLEAN
        BY CalleeTypes
      <4>2. locks \in SUBSET Keys
        BY DEF Touched
      <4> QED BY <1>2, <4>1, <4>2 DEF Response, Message, MessageType, RequestType
    <3>4. ~Aborted(m)
      BY <2>1 DEF RespondCall
    <3> HIDE DEF r
    <3>5. AnswerKinds(r, m)
      BY <3>2, <3>3, <3>4 DEF AnswerKinds
    <3> QED BY <3>1, <3>3, <3>5 DEF r
  <2>2. CASE RespondReturn(i)
    <3> DEFINE G == Front(Opened(i, m))
               to == IF G = <<>> THEN m.to ELSE Last(G).contract
               types == IF Aborted(m) THEN {"REVERT"} ELSE {"FINISHED"} \cup (Replies \cap {"REVERT"})
    <3>1. PICK type \in types : ExecuteCallback(i, Response(m, type, to, FALSE, {}, NoKey), 0)
      BY <2>2 DEF RespondReturn
    <3> DEFINE r == Response(m, type, to, FALSE, {}, NoKey)
    <3>2. type \in ReturnType /\ (Aborted(m) => type = "REVERT")
      BY DEF ReturnType
    <3>3. r.type = type /\ r.seq = m.seq /\ r.from = m.to
      BY DEF Response
    <3>4. r \in Message
      <4>1. SentOK(old, m, frames[i]) /\ FramesOK(frames[i])
        BY <1>1, <1>2 DEF Inv, FramesInv, TypeOK, Live
      <4>2. G = Front(OpenedOn(frames[i], m))
        BY DEF Opened, OpenedOn
      <4>3. Answerable(old, Response(m, type, to, FALSE, {}, NoKey), G)
        BY <1>2, <3>2, <4>1, <4>2, ReturnAnswer
      <4> QED BY <4>3 DEF Answerable
    <3> HIDE DEF r
    <3>5. AnswerKinds(r, m)
      BY <3>2, <3>3, <3>4 DEF AnswerKinds
    <3> QED BY <3>1, <3>4, <3>5 DEF r
  <2>3. CASE RespondKeyLock(i)
    <3>1. PICK key \in m.keyLocks, locks \in Touched(m) :
             ExecuteCallback(i, Response(m, "KEY_LOCK", m.to, FALSE, locks, key), 0)
      BY <2>3 DEF RespondKeyLock
    <3> DEFINE r == Response(m, "KEY_LOCK", m.to, FALSE, locks, key)
    <3>2. r.type = "KEY_LOCK" /\ r.seq = m.seq /\ r.from = m.to /\ r.keyLocks = locks
      BY DEF Response
    <3>3. r \in Message
      <4>1. locks \in SUBSET Keys /\ key \in Keys
        BY <1>2 DEF Touched, Message
      <4> QED BY <1>2, <4>1 DEF Response, Message, MessageType
    <3>4. ~Aborted(m)
      BY <2>3 DEF RespondKeyLock
    <3> HIDE DEF r
    <3>5. AnswerKinds(r, m)
      BY <3>2, <3>3, <3>4 DEF AnswerKinds
    <3> QED BY <3>1, <3>3, <3>5 DEF r
  <2>4. CASE RespondError(i)
    <3>1. ExecuteCallback(i, NoMessage, 1) /\ AnswerKinds(NoMessage, m)
      BY <2>4 DEF RespondError, AnswerKinds
    <3> QED BY <3>1
  <2> QED BY <2>1, <2>2, <2>3, <2>4 DEF Respond
<1> QED BY <1>4, <1>5

-----------------------------------------------------------------------------
(* The order of a walk.                                                    *)

\* A state that the walk passes over together with a marked one.
Covered(j) ==
    \E k \in Live : /\ m_executiveStates[k].skip
                    /\ m_executiveStates[k].key = m_executiveStates[j].key
                    /\ k <= j

\* The walk has passed the states before the ones it has still to visit, and
\* those it skipped; it sends none of the latter.
WalkInv ==
    /\ phase = "send" =>
          \A j \in Live \ todo : Covered(j) \/ \A k \in todo : Before(j, k)
    /\ \A j \in DOMAIN atExecutor : j \notin todo /\ ~Covered(j)

SameMarks ==
    /\ DOMAIN m_executiveStates' = Live
    /\ \A j \in Live : /\ m_executiveStates'[j].key = m_executiveStates[j].key
                       /\ m_executiveStates'[j].skip = m_executiveStates[j].skip

LEMMA MarksFacts ==
  ASSUME SameMarks
  PROVE  /\ \A j \in Live : Covered(j)' <=> Covered(j)
         /\ \A j, k \in Live : Before(j, k)' <=> Before(j, k)
<1>1. \A j \in Live : Covered(j)' <=> Covered(j)
  BY DEF SameMarks, Covered, Live
<1>2. \A j, k \in Live : Before(j, k)' <=> Before(j, k)
  BY DEF SameMarks, Before, Live
<1> QED BY <1>1, <1>2

LEMMA OnlyStateMarks ==
  ASSUME NEW i \in Live, NEW s, OnlyState(i, s),
         s.key = m_executiveStates[i].key, s.skip = m_executiveStates[i].skip
  PROVE  SameMarks
BY DEF OnlyState, SameMarks

LEMMA WalkDomains ==
  ASSUME Inv
  PROVE  /\ todo \in SUBSET Live /\ DOMAIN atExecutor \in SUBSET Live /\ Live \in SUBSET Nat
         /\ phase \notin {"send", "wait"} => DOMAIN atExecutor = {}
         /\ \A i \in Live : m_executiveStates[i] \in ExecutiveState
         /\ \A i \in Live : m_executiveStates[i].key \in Nat
<1>1. \A i \in Live : m_executiveStates[i] \in ExecutiveState
  BY DEF Inv, TypeOK, Live
<1>2. Addresses \in SUBSET Nat /\ TxIDs \in SUBSET Nat
  BY ConstantsAssumption DEF Addresses, NoAddress, TxIDs
<1> QED BY <1>1, <1>2 DEF Inv, TypeOK, Live, BatchInv, ExecutiveState

LEMMA WalkSend ==
  ASSUME Inv, WalkInv, NEW i, NEW s, NEW m, SendEffect(i, s, m)
  PROVE  WalkInv' /\ SameMarks /\ ~Covered(i)
<1>1. i \in todo /\ i \in Live /\ \A k \in todo : Before(i, k)
  BY WalkDomains DEF SendEffect, Current
<1>2. SameMarks
  BY <1>1, OnlyStateMarks DEF SendEffect
<1>3. ~Covered(i)
  BY <1>1 DEF Inv, SkipInv, Covered, SendEffect
<1>4. /\ todo' = todo \ {i} /\ phase = "send" /\ DOMAIN atExecutor' = DOMAIN atExecutor \cup {i}
      /\ DOMAIN m_executiveStates' = Live
  BY DEF SendEffect, OnlyState
<1>5. \A j \in Live \ todo' : Covered(j)' \/ \A k \in todo' : Before(j, k)'
  BY <1>1, <1>2, <1>4, MarksFacts, WalkDomains DEF WalkInv
<1>6. \A j \in DOMAIN atExecutor' : j \notin todo' /\ ~Covered(j)'
  BY <1>1, <1>2, <1>3, <1>4, MarksFacts, WalkDomains DEF WalkInv
<1> QED BY <1>2, <1>3, <1>4, <1>5, <1>6 DEF WalkInv, Live

LEMMA WalkAnswer ==
  ASSUME Inv, WalkInv, NEW i, NEW s, NEW r, AnswerEffect(i, s, r)
  PROVE  WalkInv' /\ SameMarks
<1>1. i \in Live
  BY WalkDomains DEF AnswerEffect
<1>2. SameMarks
  BY <1>1, OnlyStateMarks DEF AnswerEffect
<1>3. /\ todo' = todo /\ phase' = phase /\ DOMAIN atExecutor' = DOMAIN atExecutor \ {i}
      /\ DOMAIN m_executiveStates' = Live
  BY DEF AnswerEffect, OnlyState
<1>4. phase' = "send" => \A j \in Live \ todo' : Covered(j)' \/ \A k \in todo' : Before(j, k)'
  BY <1>2, <1>3, MarksFacts, WalkDomains DEF WalkInv
<1>5. \A j \in DOMAIN atExecutor' : j \notin todo' /\ ~Covered(j)'
  BY <1>2, <1>3, MarksFacts, WalkDomains DEF WalkInv
<1> QED BY <1>2, <1>3, <1>4, <1>5 DEF WalkInv, Live

\* A state the walk has passed is not covered by a state it skips now.
LEMMA SkipMarks ==
  ASSUME Inv, WalkInv, NEW i, VisitSkip(i)
  PROVE  /\ phase = "send" /\ phase' = "send" /\ i \in todo /\ i \in Live
         /\ DOMAIN m_executiveStates' = Live /\ todo' = todo \ SameKey(i)
         /\ \A j \in Live : /\ m_executiveStates'[j].message = m_executiveStates[j].message
                            /\ m_executiveStates'[j].callStack = m_executiveStates[j].callStack
                            /\ m_executiveStates'[j].key = m_executiveStates[j].key
                            /\ m_executiveStates'[j].currentSeq = m_executiveStates[j].currentSeq
         /\ \A j \in Live : Covered(j) => Covered(j)'
         /\ \A j \in todo \ todo' : Covered(j)'
         /\ \A j \in Live \ todo : Covered(j)' => Covered(j)
<1>1. /\ phase = "send" /\ i \in todo /\ \A k \in todo : Before(i, k)
      /\ todo' = todo \ SameKey(i) /\ phase' = phase
  BY DEF VisitSkip, Visiting, Current
<1>2. i \in Live /\ m_executiveStates[i] \in ExecutiveState
  BY <1>1, WalkDomains
<1>3. PICK s \in ExecutiveState :
            /\ OnlyState(i, s) /\ s.skip = TRUE /\ s.key = m_executiveStates[i].key
            /\ s.message = m_executiveStates[i].message
            /\ s.callStack = m_executiveStates[i].callStack
            /\ s.currentSeq = m_executiveStates[i].currentSeq
  BY <1>2, SetSkip DEF VisitSkip
<1>4. /\ DOMAIN m_executiveStates' = Live /\ m_executiveStates'[i] = s
      /\ \A j \in Live : j # i => m_executiveStates'[j] = m_executiveStates[j]
  BY <1>3 DEF OnlyState
<1>5. \A j \in Live : /\ m_executiveStates'[j].message = m_executiveStates[j].message
                      /\ m_executiveStates'[j].callStack = m_executiveStates[j].callStack
                      /\ m_executiveStates'[j].key = m_executiveStates[j].key
                      /\ m_executiveStates'[j].currentSeq = m_executiveStates[j].currentSeq
                      /\ m_executiveStates[j].skip => m_executiveStates'[j].skip
                      /\ m_executiveStates'[j].skip => m_executiveStates[j].skip \/ j = i
  BY <1>3, <1>4
<1>6. \A j \in Live : Covered(j) => Covered(j)'
  BY <1>4, <1>5 DEF Covered, Live
<1>7. ASSUME NEW j \in todo \ todo' PROVE Covered(j)'
  <2>1. m_executiveStates[j].key = m_executiveStates[i].key /\ j \in Live
    BY <1>1, WalkDomains DEF SameKey
  <2>2. i <= j
    BY <1>1, <1>2, <2>1, WalkDomains DEF Before
  <2> QED BY <1>2, <1>3, <1>4, <1>5, <2>1, <2>2 DEF Covered, Live
<1>8. ASSUME NEW j \in Live \ todo, Covered(j)' PROVE Covered(j)
  <2>1. SUFFICES ASSUME ~Covered(j) PROVE FALSE
    OBVIOUS
  <2>2. Before(j, i)
    BY <1>1, <2>1 DEF WalkInv
  <2>3. i <= j /\ m_executiveStates[i].key = m_executiveStates[j].key
    BY <1>2, <1>4, <1>5, <1>8, <2>1 DEF Covered, Live
  <2> QED BY <1>1, <1>2, <2>2, <2>3, WalkDomains DEF Before
<1> QED BY <1>1, <1>2, <1>4, <1>5, <1>6, <1>7, <1>8

LEMMA WalkSkip ==
  ASSUME Inv, WalkInv, NEW i, VisitSkip(i)
  PROVE  WalkInv'
<1>1. atExecutor' = atExecutor /\ todo' \in SUBSET todo
  BY DEF VisitSkip, executorVars
<1>2. \A j, k \in Live : Before(j, k)' <=> Before(j, k)
  BY SkipMarks DEF Before
<1>3. \A j \in Live \ todo' : Covered(j)' \/ \A k \in todo' : Before(j, k)'
  BY <1>1, <1>2, SkipMarks, WalkDomains DEF WalkInv
<1>4. \A j \in DOMAIN atExecutor' : j \notin todo' /\ ~Covered(j)'
  BY <1>1, SkipMarks, WalkDomains DEF WalkInv
<1> QED BY <1>3, <1>4, SkipMarks DEF WalkInv, Live

\* A transaction that finishes covers no other one.
LEMMA FinishMarks ==
  ASSUME Inv, NEW i, VisitFinish(i)
  PROVE  /\ phase = "send" /\ phase' = "send" /\ i \in todo /\ i \in Live
         /\ DOMAIN m_executiveStates' = Live \ {i} /\ todo' = todo \ {i}
         /\ \A j \in Live : j # i => m_executiveStates'[j] = m_executiveStates[j]
         /\ \A j \in Live \ {i} : Covered(j)' <=> Covered(j)
         /\ \A j, k \in Live \ {i} : Before(j, k)' <=> Before(j, k)
<1>1. phase = "send" /\ i \in todo /\ todo' = todo \ {i} /\ phase' = phase
  BY DEF VisitFinish, Visiting, Current
<1>2. i \in Live /\ ~m_executiveStates[i].skip
  BY <1>1, WalkDomains, NoMarks
<1>3. /\ DOMAIN m_executiveStates' = Live \ {i}
      /\ \A j \in Live : j # i => m_executiveStates'[j] = m_executiveStates[j]
  BY DEF VisitFinish, Without, Restrict, Live
<1>4. \A j \in Live \ {i} : Covered(j)' <=> Covered(j)
  BY <1>2, <1>3 DEF Covered, Live
<1>5. \A j, k \in Live \ {i} : Before(j, k)' <=> Before(j, k)
  BY <1>3 DEF Before
<1> QED BY <1>1, <1>2, <1>3, <1>4, <1>5

LEMMA WalkFinish ==
  ASSUME Inv, WalkInv, NEW i, VisitFinish(i)
  PROVE  WalkInv'
<1>1. atExecutor' = atExecutor
  BY DEF VisitFinish, executorVars
<1>2. i \notin DOMAIN atExecutor
  BY FinishMarks DEF WalkInv
<1>3. \A j \in (Live \ {i}) \ todo' : Covered(j)' \/ \A k \in todo' : Before(j, k)'
  BY FinishMarks, WalkDomains DEF WalkInv
<1>4. \A j \in DOMAIN atExecutor' : j \notin todo' /\ ~Covered(j)'
  BY <1>1, <1>2, FinishMarks, WalkDomains DEF WalkInv
<1> QED BY <1>3, <1>4, FinishMarks DEF WalkInv, Live

LEMMA WalkWait ==
  ASSUME Inv, WalkInv, NEW i, VisitWait(i)
  PROVE  WalkInv'
<1>1. /\ phase = "send" /\ phase' = "send" /\ i \in todo /\ \A k \in todo : Before(i, k)
      /\ todo' = todo \ {i} /\ m_executiveStates' = m_executiveStates
      /\ atExecutor' = atExecutor
  BY DEF VisitWait, Visiting, Current, executorVars
<1>2. SameMarks
  BY <1>1 DEF SameMarks, Live
<1>3. \A j \in Live \ todo' : Covered(j)' \/ \A k \in todo' : Before(j, k)'
  BY <1>1, <1>2, MarksFacts, WalkDomains DEF WalkInv
<1>4. \A j \in DOMAIN atExecutor' : j \notin todo' /\ ~Covered(j)'
  BY <1>1, <1>2, MarksFacts, WalkDomains DEF WalkInv
<1> QED BY <1>1, <1>3, <1>4 DEF WalkInv, Live

LEMMA WalkStepInv ==
  ASSUME Inv, WalkInv, Inv', Next \/ UNCHANGED vars
  PROVE  WalkInv'
<1>1. ASSUME NEW i, Sends(i) PROVE WalkInv'
  BY <1>1, SendFacts, WalkSend
<1>2. ASSUME NEW i, Respond(i) PROVE WalkInv'
  BY <1>2, AnswerFacts, WalkAnswer
<1>3. ASSUME phase' \notin {"send", "wait"} PROVE WalkInv'
  <2>1. DOMAIN atExecutor' = {}
    BY <1>3 DEF Inv, BatchInv
  <2> QED BY <1>3, <2>1 DEF WalkInv
<1>4. ASSUME NEW i, \/ VisitVictim(i) \/ VisitNoVictim(i) \/ UpdateSkipped(i) \/ UpdateAcquire(i)
                    \/ UpdateThrows(i) \/ UpdateRelease(i)
      PROVE  phase' \notin {"send", "wait"}
  BY <1>4 DEF VisitVictim, VisitNoVictim, UpdateSkipped, UpdateAcquire, UpdateThrows,
              UpdateRelease, Updating
<1>5. ASSUME NEW i, Visit(i) PROVE WalkInv'
  BY <1>1, <1>3, <1>4, <1>5, WalkSkip, WalkFinish, WalkWait DEF Visit, Sends
<1>6. ASSUME m_executiveStates' = m_executiveStates, atExecutor' = atExecutor, todo' = todo,
             phase' = phase \/ phase' # "send"
      PROVE  WalkInv'
  <2>1. SameMarks
    BY <1>6 DEF SameMarks, Live
  <2>2. phase' = "send" => \A j \in Live \ todo' : Covered(j)' \/ \A k \in todo' : Before(j, k)'
    BY <1>6, <2>1, MarksFacts, WalkDomains DEF WalkInv
  <2>3. \A j \in DOMAIN atExecutor' : j \notin todo' /\ ~Covered(j)'
    BY <1>6, <2>1, MarksFacts, WalkDomains DEF WalkInv
  <2> QED BY <1>6, <2>2, <2>3 DEF WalkInv, Live
<1>7. CASE EndSend
  BY <1>6, <1>7 DEF EndSend, executorVars
<1>8. CASE CheckNotReady
  BY <1>6, <1>8 DEF CheckNotReady, executorVars
<1>9. CASE CheckBatch
  BY <1>3, <1>9 DEF CheckBatch, AfterBatch
<1>10. CASE BatchCallback
  <2>1. phase' \in {"done", "send"} /\ DOMAIN atExecutor' = {} /\ (phase' = "send" => todo' = Live')
    BY <1>10, WalkDomains DEF BatchCallback, executorVars, Live
  <2> QED BY <2>1 DEF WalkInv
<1>11. CASE UNCHANGED vars
  BY <1>6, <1>11 DEF vars, executorVars
<1> QED BY <1>2, <1>5, <1>7, <1>8, <1>9, <1>10, <1>11 DEF Next, Scheduler, Ended

-----------------------------------------------------------------------------
(* The list of locked keys.                                                *)

\* The list of the message at an executor is exact, and its contract was called
\* in this batch: a lock of the contract is then acquired by no other transaction.
FreshInv ==
    \A j \in DOMAIN atExecutor :
       /\ atExecutor[j].to \in calledContract
       /\ \A key \in Keys : key \in atExecutor[j].keyLocks
                              <=> m_keyLocks!HeldByOther(<<atExecutor[j].to, key>>, j)

LEMMA ListFacts ==
  \A contract, j : \A key \in Keys :
     key \in m_keyLocks!GetKeyLocksNotHoldingByContext(contract, j)
       <=> m_keyLocks!HeldByOther(<<contract, key>>, j)
BY DEF m_keyLocks!GetKeyLocksNotHoldingByContext

LEMMA FreshSame ==
  ASSUME FreshInv, own' = own, atExecutor' = atExecutor, calledContract' = calledContract
  PROVE  FreshInv'
BY DEF FreshInv, m_keyLocks!HeldByOther

LEMMA FreshSend ==
  ASSUME Inv, FreshInv, NEW i, NEW s, NEW m \in Message, SendEffect(i, s, m), SendKinds(i, s, m)
  PROVE  FreshInv'
<1> DEFINE old == m_executiveStates[i].message
<1>1. i \in todo /\ i \notin DOMAIN atExecutor /\ old \in Message
        /\ MsgOK(m_executiveStates[i], frames[i]) /\ FramesOK(frames[i])
  BY Visited DEF SendEffect, Current
<1>2. /\ DOMAIN atExecutor' = DOMAIN atExecutor \cup {i} /\ atExecutor'[i] = m
      /\ \A j \in DOMAIN atExecutor : atExecutor'[j] = atExecutor[j]
      /\ calledContract' = calledContract \cup {m.to}
      /\ m.keyLocks = m_keyLocks!GetKeyLocksNotHoldingByContext(m.to, i)
  BY <1>1 DEF SendEffect, LockedKeys
<1>3. \A j \in DOMAIN atExecutor' : atExecutor'[j].to \in calledContract'
  BY <1>2 DEF FreshInv
<1>4. ASSUME NEW j \in DOMAIN atExecutor', NEW to, to = atExecutor'[j].to, NEW key
      PROVE  m_keyLocks!HeldByOther(<<to, key>>, j)' <=> m_keyLocks!HeldByOther(<<to, key>>, j)
  <2>1. CASE lockVars' = lockVars
    BY <2>1 DEF lockVars, m_keyLocks!HeldByOther
  <2>2. CASE /\ old.type = "KEY_LOCK"
             /\ m_keyLocks!AcquireOwns(old.from, old.keyLockAcquired, i, old.seq)
    <3>1. PICK edge : /\ own' = own \cup {edge} /\ edge.ctx = i
                      /\ edge.lock = <<old.from, old.keyLockAcquired>>
      <4> DEFINE e == m_keyLocks!EdgeOf(<<old.from, old.keyLockAcquired>>, i, old.seq)
      <4>1. own' = own \cup {e}
        BY <2>2 DEF m_keyLocks!AcquireOwns
      <4>2. e.ctx = i /\ e.lock = <<old.from, old.keyLockAcquired>>
        BY DEF m_keyLocks!EdgeOf
      <4> HIDE DEF e
      <4> QED BY <4>1, <4>2
    <3>2. j # i => to # old.from
      <4>1. old.to = old.from /\ old.to # NoAddress
        BY <1>1, <2>2, EmptySeq, LenProperties DEF MsgOK, IsTop, FramesOK
      <4>2. old.to \notin calledContract
        BY <4>1 DEF SendEffect, Skipped
      <4> QED BY <1>2, <1>4, <4>1, <4>2 DEF FreshInv
    <3>3. j = i \/ edge.lock # <<to, key>>
      BY <3>1, <3>2
    <3> QED BY <3>1, <3>3 DEF m_keyLocks!HeldByOther
  <2> QED BY <2>1, <2>2 DEF SendKinds
<1>5. ASSUME NEW j \in DOMAIN atExecutor', NEW to, to = atExecutor'[j].to, NEW key \in Keys
      PROVE  key \in atExecutor'[j].keyLocks <=> m_keyLocks!HeldByOther(<<to, key>>, j)'
  <2>1. key \in atExecutor'[j].keyLocks <=> m_keyLocks!HeldByOther(<<to, key>>, j)
    <3>1. CASE j = i
      BY <1>2, <1>5, <3>1, ListFacts
    <3>2. CASE j # i
      BY <1>2, <1>5, <3>2 DEF FreshInv
    <3> QED BY <3>1, <3>2
  <2> QED BY <1>4, <1>5, <2>1
<1> QED BY <1>3, <1>5 DEF FreshInv, m_keyLocks!HeldByOther

LEMMA FreshAnswer ==
  ASSUME FreshInv, NEW i, NEW s, NEW r, AnswerEffect(i, s, r)
  PROVE  FreshInv'
<1>1. /\ DOMAIN atExecutor' = DOMAIN atExecutor \ {i}
      /\ \A j \in DOMAIN atExecutor : j # i => atExecutor'[j] = atExecutor[j]
      /\ calledContract' = calledContract /\ own' = own
  BY DEF AnswerEffect, lockVars
<1> QED BY <1>1 DEF FreshInv, m_keyLocks!HeldByOther

LEMMA FreshStepInv ==
  ASSUME Inv, FreshInv, Inv', Next \/ UNCHANGED vars
  PROVE  FreshInv'
<1>1. ASSUME NEW i, Sends(i) PROVE FreshInv'
  BY <1>1, SendFacts, FreshSend
<1>2. ASSUME NEW i, Respond(i) PROVE FreshInv'
  BY <1>2, AnswerFacts, FreshAnswer
<1>3. ASSUME phase' \notin {"send", "wait"} PROVE FreshInv'
  <2>1. DOMAIN atExecutor' = {}
    BY <1>3 DEF Inv, BatchInv
  <2> QED BY <2>1 DEF FreshInv
<1>4. ASSUME NEW i, \/ VisitVictim(i) \/ VisitNoVictim(i) \/ UpdateSkipped(i) \/ UpdateAcquire(i)
                    \/ UpdateThrows(i) \/ UpdateRelease(i)
      PROVE  phase' \notin {"send", "wait"}
  BY <1>4 DEF VisitVictim, VisitNoVictim, UpdateSkipped, UpdateAcquire, UpdateThrows,
              UpdateRelease, Updating
<1>5. ASSUME NEW i, VisitSkip(i) \/ VisitFinish(i) \/ VisitWait(i) PROVE FreshInv'
  BY <1>5, FreshSame DEF VisitSkip, VisitFinish, VisitWait, batchVars, executorVars, lockVars,
                         m_keyLocks!AcquireWaits
<1>6. ASSUME NEW i, Visit(i) PROVE FreshInv'
  BY <1>1, <1>3, <1>4, <1>5, <1>6 DEF Visit, Sends
<1>7. CASE EndSend
  BY <1>7, FreshSame DEF EndSend, executorVars, lockVars
<1>8. CASE CheckNotReady
  BY <1>8, FreshSame DEF CheckNotReady, executorVars, lockVars
<1>9. CASE CheckBatch
  BY <1>3, <1>9 DEF CheckBatch, AfterBatch
<1>10. CASE BatchCallback
  <2>1. DOMAIN atExecutor' = {}
    BY <1>10, WalkDomains DEF BatchCallback, executorVars
  <2> QED BY <2>1 DEF FreshInv
<1>11. CASE UNCHANGED vars
  BY <1>11, FreshSame DEF vars, batchVars, executorVars, lockVars
<1> QED BY <1>2, <1>6, <1>7, <1>8, <1>9, <1>10, <1>11 DEF Next, Scheduler, Ended

LEMMA FreshInvHolds == Spec => []FreshInv
<1>1. Init => FreshInv
  <2>1. Init => DOMAIN atExecutor = {}
    BY DEF Init
  <2> QED BY <2>1 DEF FreshInv
<1>2. Inv /\ FreshInv /\ Inv' /\ [Next]_vars => FreshInv'
  BY FreshStepInv
<1> QED BY <1>1, <1>2, InvHolds, PTL DEF Spec

\* The list of locked keys an executor got when its message was sent is exact
\* as long as it works: what calledContract stops a second message for is also
\* what would change the locks of the contract.
THEOREM LockListsExact == Spec => []LocksFresh
<1>1. Inv /\ FreshInv => LocksFresh
  <2>1. SUFFICES ASSUME Inv, FreshInv, NEW j \in DOMAIN atExecutor
                 PROVE  atExecutor[j].keyLocks
                          = m_keyLocks!GetKeyLocksNotHoldingByContext(atExecutor[j].to, j)
    BY DEF LocksFresh
  <2>2. atExecutor[j].keyLocks \in SUBSET Keys
    BY <2>1 DEF Inv, TypeOK, Message
  <2> QED BY <2>1, <2>2 DEF FreshInv, m_keyLocks!GetKeyLocksNotHoldingByContext
<1> QED BY <1>1, InvHolds, FreshInvHolds, PTL

-----------------------------------------------------------------------------
(* The locks of call frames.  A frame's locks are released by the walk     *)
(* that follows the batch in which it returned; between the two the        *)
(* returned frame still owns them.                                         *)

\* The answer of transaction j came in this batch, and the walk that updates
\* the key locks has still to come to it.
Fresh(j) ==
    \/ phase \in {"send", "wait"} /\ j \notin todo /\ ~Covered(j) /\ batchStatus.total # 0
    \/ phase = "locks" /\ j \in todo /\ ~Covered(j)
    \/ phase \in {"failed", "thrown", "done"}

\* The frame that a message of transaction j is about has no lock and no request.
Released(j) ==
    \A e \in own \cup request : e.ctx = j => e.seq # m_executiveStates[j].message.seq

ReleasedInv ==
    \A j \in Live : m_executiveStates[j].message.type \in ReturnType => Released(j) \/ Fresh(j)

\* A request is for the key lock that the transaction waits for, or was, and
\* the frame has been told to revert, has reverted, or answered an error.
RequestOK(r) ==
    LET m == m_executiveStates[r.ctx].message
    IN  \/ /\ m.type \in {"KEY_LOCK", "REVERT_KEY_LOCK"}
           /\ r.lock = <<m.from, m.keyLockAcquired>> /\ r.seq = m.seq
        \/ /\ r.ctx \in DOMAIN atExecutor
           /\ Aborted(atExecutor[r.ctx]) /\ r.seq = atExecutor[r.ctx].seq
        \/ m.type = "REVERT" /\ r.seq = m.seq
        \/ m = NoMessage /\ r.ctx \notin DOMAIN atExecutor

HoldersInv ==
    \A e \in own : e.ctx \in Live /\ OnStack(m_executiveStates[e.ctx].callStack, e.seq)

RequestInv == phase # "thrown" => \A r \in request : r.ctx \in Live /\ RequestOK(r)

LockInv == HoldersInv /\ ReleasedInv /\ RequestInv

\* A message waiting for its lock, or one that calls and reports locks, is of
\* the frame on top of the stack.
LEMMA TopOnStack ==
  ASSUME NEW s, s.callStack \in Seq(Seqs), NEW F, FramesOK(F), Mirrors(s.callStack, F),
         NEW seq, NEW contract, IsTop(F, seq, contract)
  PROVE  OnStack(s.callStack, seq)
<1>1. Len(F) \in Nat /\ Len(F) # 0
  BY EmptySeq, LenProperties DEF FramesOK, IsTop
<1>2. s.callStack[Len(F)] = seq /\ Len(s.callStack) = Len(F)
  BY <1>1 DEF Mirrors, IsTop
<1>3. Len(F) \in DOMAIN s.callStack
  BY <1>1, <1>2, LenProperties
<1> QED BY <1>2, <1>3 DEF OnStack

\* Steps that leave the messages and the stacks alone: transaction i may get
\* locks for frames on its stack and ask for the lock it waits for.
SameWork ==
    /\ DOMAIN m_executiveStates' = Live
    /\ \A j \in Live : /\ m_executiveStates'[j].message = m_executiveStates[j].message
                       /\ m_executiveStates'[j].callStack = m_executiveStates[j].callStack

LEMMA SameWorkLocks ==
  ASSUME LockInv, SameWork, atExecutor' = atExecutor, phase = "thrown" => phase' = "thrown",
         NEW i \in Live,
         \A e \in own' : e \in own \/ /\ e.ctx = i /\ m_executiveStates[i].message.type \notin ReturnType
                                      /\ OnStack(m_executiveStates[i].callStack, e.seq),
         \A r \in request' : r \in request \/ /\ r.ctx = i
                                              /\ m_executiveStates[i].message.type \notin ReturnType
                                              /\ phase' = "thrown" \/ RequestOK(r),
         \A j \in Live : Fresh(j) => Fresh(j)' \/ Released(j)'
  PROVE  LockInv'
<1>1. HoldersInv'
  BY DEF LockInv, HoldersInv, SameWork, Live
<1>2. ReleasedInv'
  <2>1. SUFFICES ASSUME NEW j \in Live, m_executiveStates[j].message.type \in ReturnType
                 PROVE  Released(j)' \/ Fresh(j)'
    BY DEF ReleasedInv, SameWork, Live
  <2>2. Released(j) => Released(j)'
    BY <2>1 DEF Released, SameWork
  <2> QED BY <2>1, <2>2 DEF LockInv, ReleasedInv
<1>3. RequestInv'
  <2>1. SUFFICES ASSUME phase' # "thrown", NEW r \in request'
                 PROVE  r.ctx \in Live /\ RequestOK(r)'
    BY DEF RequestInv, SameWork, Live
  <2>2. r.ctx \in Live /\ RequestOK(r)
    BY <2>1 DEF LockInv, RequestInv
  <2> QED BY <2>2 DEF RequestOK, SameWork
<1> QED BY <1>1, <1>2, <1>3 DEF LockInv


\* A frame that a walk visits after its return has been released.
LEMMA VisitedReleased ==
  ASSUME LockInv, NEW i \in Live, i \in todo, phase = "send",
         m_executiveStates[i].message.type \in ReturnType
  PROVE  Released(i)
BY DEF LockInv, ReleasedInv, Fresh

\* An answer that has come stays unprocessed while others are sent and come.
LEMMA SendFresh ==
  ASSUME Inv, WalkInv, NEW i, NEW s, NEW m, SendEffect(i, s, m)
  PROVE  Fresh(i)' /\ \A j \in Live : Fresh(j) => Fresh(j)'
<1>1. /\ phase = "send" /\ phase' = "send" /\ i \in Live /\ todo' = todo \ {i}
      /\ batchStatus'.total # 0
  BY WalkDomains, BatchTypes DEF SendEffect, Current
<1>2. \A j \in Live : Covered(j)' <=> Covered(j)
  BY WalkSend, MarksFacts
<1> QED BY <1>1, <1>2, WalkSend DEF Fresh

LEMMA AnswerFresh ==
  ASSUME Inv, WalkInv, NEW i, NEW s, NEW r, AnswerEffect(i, s, r)
  PROVE  Fresh(i)' /\ \A j \in Live : Fresh(j) => Fresh(j)'
<1>1. /\ phase \in {"send", "wait"} /\ phase' = phase /\ i \in DOMAIN atExecutor /\ todo' = todo
      /\ batchStatus'.total # 0 /\ batchStatus.total # 0
  BY DEF AnswerEffect
<1>2. \A j \in Live : Covered(j)' <=> Covered(j)
  BY WalkAnswer, MarksFacts
<1> QED BY <1>1, <1>2, WalkDomains DEF Fresh, WalkInv

LEMMA LockSend ==
  ASSUME Inv, WalkInv, LockInv, NEW i, NEW s, NEW m, SendEffect(i, s, m), SendKinds(i, s, m)
  PROVE  LockInv'
<1> DEFINE old == m_executiveStates[i]
<1>1. /\ phase = "send" /\ phase' = "send" /\ i \in todo /\ todo' = todo \ {i}
      /\ batchStatus'.total = batchStatus.total + 1
      /\ DOMAIN m_executiveStates' = Live /\ m_executiveStates'[i] = s
      /\ \A j \in Live : j # i => m_executiveStates'[j] = m_executiveStates[j]
      /\ s.message = NoMessage /\ DOMAIN atExecutor' = DOMAIN atExecutor \cup {i}
      /\ atExecutor'[i] = m
      /\ \A j \in DOMAIN atExecutor : j # i => atExecutor'[j] = atExecutor[j]
  BY DEF SendEffect, Current, OnlyState
<1>2. /\ i \in Live /\ i \notin DOMAIN atExecutor /\ old \in ExecutiveState /\ old.message \in Message
      /\ MsgOK(old, frames[i]) /\ FramesOK(frames[i])
  BY <1>1, Visited
<1>3. /\ \A seq : OnStack(old.callStack, seq) => \/ OnStack(s.callStack, seq)
                                                 \/ /\ old.message.type \in ReturnType
                                                    /\ old.message.seq = seq
      /\ old.message.type = "REVERT_KEY_LOCK" => Aborted(m) /\ m.seq = old.message.seq
  BY DEF SendKinds
<1>4. /\ \A e \in own' : e \in own \/ (e.ctx = i /\ OnStack(s.callStack, e.seq))
      /\ \A r \in request' : r \in request
      /\ old.message.type = "KEY_LOCK" =>
            \A r \in request' : ~(r.lock = <<old.message.from, old.message.keyLockAcquired>>
                                   /\ r.ctx = i)
  <2>1. CASE old.message.type # "KEY_LOCK" /\ lockVars' = lockVars
    BY <2>1 DEF lockVars
  <2>2. CASE /\ old.message.type = "KEY_LOCK" /\ s.callStack = old.callStack
             /\ m_keyLocks!AcquireOwns(old.message.from, old.message.keyLockAcquired,
                                       i, old.message.seq)
    <3>1. PICK edge : own' = own \cup {edge} /\ edge.ctx = i /\ edge.seq = old.message.seq
      <4> DEFINE e == m_keyLocks!EdgeOf(<<old.message.from, old.message.keyLockAcquired>>,
                                        i, old.message.seq)
      <4>1. own' = own \cup {e}
        BY <2>2 DEF m_keyLocks!AcquireOwns
      <4>2. e.ctx = i /\ e.seq = old.message.seq
        BY DEF m_keyLocks!EdgeOf
      <4> HIDE DEF e
      <4> QED BY <4>1, <4>2
    <3>2. OnStack(s.callStack, old.message.seq)
      BY <1>2, <2>2, TopOnStack DEF MsgOK, ExecutiveState
    <3>3. request' = {r \in request : ~(r.lock = <<old.message.from, old.message.keyLockAcquired>>
                                          /\ r.ctx = i)}
      BY <2>2 DEF m_keyLocks!AcquireOwns
    <3> QED BY <3>1, <3>2, <3>3
  <2> QED BY <2>1, <2>2 DEF SendKinds
<1>5. HoldersInv'
  <2>1. ASSUME NEW e \in own, e.ctx = i PROVE OnStack(s.callStack, e.seq)
    BY <1>1, <1>2, <1>3, <2>1, VisitedReleased DEF LockInv, HoldersInv, Released
  <2> QED BY <1>1, <1>2, <1>4, <2>1 DEF LockInv, HoldersInv, Live
<1>6. ReleasedInv'
  <2>1. ASSUME NEW j \in Live, j # i, Released(j) PROVE Released(j)'
    BY <1>1, <1>4, <2>1 DEF Released
  <2>2. s.message.type \notin ReturnType
    BY <1>1, NoMessageIsNone DEF ReturnType
  <2> QED BY <1>1, <2>1, <2>2, SendFresh DEF LockInv, ReleasedInv, Live
<1>7. RequestInv'
  <2>1. SUFFICES ASSUME NEW r \in request' PROVE r.ctx \in Live /\ RequestOK(r)'
    BY <1>1 DEF RequestInv, Live
  <2>2. r \in request /\ r.ctx \in Live /\ RequestOK(r)
    BY <1>1, <1>4 DEF LockInv, RequestInv
  <2>3. CASE r.ctx # i
    BY <1>1, <2>2, <2>3 DEF RequestOK
  <2>4. CASE r.ctx = i
    <3>1. old.message.type = "REVERT" => old.message.seq # r.seq
      BY <1>1, <1>2, <2>2, <2>4, VisitedReleased DEF Released, ReturnType
    <3>2. /\ old.message.type \in {"KEY_LOCK", "REVERT_KEY_LOCK"}
          /\ r.lock = <<old.message.from, old.message.keyLockAcquired>>
          /\ r.seq = old.message.seq
      BY <1>2, <2>2, <2>4, <3>1, NoMessageIsNone DEF RequestOK
    <3>3. Aborted(m) /\ r.seq = m.seq
      BY <1>3, <1>4, <2>1, <2>4, <3>2
    <3> QED BY <1>1, <2>2, <2>4, <3>3 DEF RequestOK, Aborted
  <2> QED BY <2>2, <2>3, <2>4
<1> QED BY <1>5, <1>6, <1>7 DEF LockInv

LEMMA LockAnswer ==
  ASSUME Inv, WalkInv, LockInv, NEW i, NEW s, NEW r \in Message \cup {NoMessage},
         AnswerEffect(i, s, r), AnswerKinds(r, atExecutor[i])
  PROVE  LockInv'
<1>1. /\ i \in DOMAIN atExecutor /\ phase \in {"send", "wait"} /\ phase' = phase
      /\ DOMAIN m_executiveStates' = Live /\ m_executiveStates'[i] = s
      /\ \A j \in Live : j # i => m_executiveStates'[j] = m_executiveStates[j]
      /\ s.message = r /\ s.callStack = m_executiveStates[i].callStack
      /\ DOMAIN atExecutor' = DOMAIN atExecutor \ {i}
      /\ \A j \in DOMAIN atExecutor : j # i => atExecutor'[j] = atExecutor[j]
      /\ todo' = todo /\ own' = own /\ request' = request
      /\ batchStatus'.total = batchStatus.total /\ batchStatus.total # 0
  BY DEF AnswerEffect, OnlyState, lockVars
<1>2. i \in Live /\ m_executiveStates[i].message = NoMessage
  BY <1>1, WalkDomains DEF Inv, FramesInv, SentOK
<1>3. HoldersInv'
  BY <1>1, <1>2 DEF LockInv, HoldersInv, Live
<1>4. ReleasedInv'
  <2>1. ASSUME NEW j \in Live, j # i, Released(j) PROVE Released(j)'
    BY <1>1, <2>1 DEF Released
  <2> QED BY <1>1, <2>1, AnswerFresh DEF LockInv, ReleasedInv, Live
<1>5. RequestInv'
  <2>1. SUFFICES ASSUME NEW e \in request PROVE e.ctx \in Live /\ RequestOK(e)'
    BY <1>1 DEF RequestInv, Live
  <2>2. e.ctx \in Live /\ RequestOK(e)
    BY <1>1 DEF LockInv, RequestInv
  <2>3. CASE e.ctx # i
    BY <1>1, <2>2, <2>3 DEF RequestOK
  <2>4. CASE e.ctx = i
    <3>1. Aborted(atExecutor[i]) /\ e.seq = atExecutor[i].seq
      BY <1>1, <1>2, <2>2, <2>4, NoMessageIsNone DEF RequestOK
    <3>2. r = NoMessage \/ (r.type = "REVERT" /\ r.seq = e.seq)
      BY <3>1 DEF AnswerKinds
    <3> QED BY <1>1, <2>2, <2>4, <3>2 DEF RequestOK
  <2> QED BY <2>2, <2>3, <2>4
<1> QED BY <1>3, <1>4, <1>5 DEF LockInv

LEMMA LockFinish ==
  ASSUME Inv, LockInv, NEW i, VisitFinish(i)
  PROVE  LockInv'
<1> DEFINE old == m_executiveStates[i]
<1>1. /\ phase = "send" /\ phase' = "send" /\ i \in todo /\ i \in Live
      /\ DOMAIN m_executiveStates' = Live \ {i} /\ todo' = todo \ {i}
      /\ \A j \in Live : j # i => m_executiveStates'[j] = m_executiveStates[j]
      /\ \A j \in Live \ {i} : Covered(j)' <=> Covered(j)
  BY FinishMarks
<1>2. /\ atExecutor' = atExecutor /\ own' = own /\ request' = request
      /\ batchStatus' = batchStatus /\ old.message.type \in ReturnType /\ Len(old.callStack) = 1
  BY DEF VisitFinish, executorVars, lockVars, batchVars, IsLastFrame
<1>3. Released(i)
  BY <1>1, <1>2, VisitedReleased
<1>4. /\ i \notin DOMAIN atExecutor /\ old \in ExecutiveState /\ old.message \in Message
      /\ MsgOK(old, frames[i]) /\ FramesOK(frames[i])
  BY <1>1, Visited
<1>5. ASSUME NEW e \in own PROVE e.ctx # i
  <2>1. Len(frames[i]) = 0 /\ old.callStack[1] = old.message.seq
    BY <1>2, <1>4, LenProperties DEF MsgOK, FramesOK
  <2>2. \A seq : OnStack(old.callStack, seq) => seq = old.message.seq
    BY <1>2, <1>4, <2>1, LenProperties DEF OnStack, ExecutiveState
  <2> QED BY <1>3, <2>2 DEF LockInv, HoldersInv, Released
<1>6. ASSUME NEW r \in request PROVE r.ctx # i
  <2>1. old.message.type \notin {"KEY_LOCK", "REVERT_KEY_LOCK"} /\ old.message # NoMessage
    BY <1>2, <1>4, NoMessageIsNone DEF ReturnType
  <2> QED BY <1>1, <1>3, <1>4, <2>1 DEF LockInv, RequestInv, RequestOK, Released
<1>7. HoldersInv'
  BY <1>1, <1>2, <1>5 DEF LockInv, HoldersInv, Live
<1>8. ReleasedInv'
  <2>1. ASSUME NEW j \in Live \ {i}, Fresh(j) PROVE Fresh(j)'
    BY <1>1, <1>2, <2>1 DEF Fresh
  <2>2. ASSUME NEW j \in Live \ {i}, Released(j) PROVE Released(j)'
    BY <1>1, <1>2, <2>2 DEF Released
  <2> QED BY <1>1, <2>1, <2>2 DEF LockInv, ReleasedInv, Live
<1>9. RequestInv'
  BY <1>1, <1>2, <1>6 DEF LockInv, RequestInv, RequestOK, Live
<1> QED BY <1>7, <1>8, <1>9 DEF LockInv


LEMMA LockSkip ==
  ASSUME Inv, WalkInv, LockInv, NEW i, VisitSkip(i)
  PROVE  LockInv'
<1>1. /\ atExecutor' = atExecutor /\ own' = own /\ request' = request
      /\ batchStatus' = batchStatus /\ todo' \in SUBSET todo
  BY DEF VisitSkip, executorVars, lockVars, batchVars
<1>2. SameWork /\ i \in Live /\ phase = "send" /\ phase' = "send"
  BY SkipMarks DEF SameWork
<1>3. \A j \in Live : Fresh(j) => Fresh(j)'
  BY <1>1, <1>2, SkipMarks DEF Fresh
<1> QED BY <1>1, <1>2, <1>3, SameWorkLocks

LEMMA LockWait ==
  ASSUME Inv, LockInv, NEW i, VisitWait(i)
  PROVE  LockInv'
<1> DEFINE m == m_executiveStates[i].message
           edge == m_keyLocks!EdgeOf(<<m.from, m.keyLockAcquired>>, i, m.seq)
<1>1. /\ phase = "send" /\ phase' = "send" /\ i \in todo /\ todo' = todo \ {i}
      /\ m_executiveStates' = m_executiveStates /\ atExecutor' = atExecutor
      /\ batchStatus' = batchStatus /\ own' = own /\ m.type = "KEY_LOCK"
      /\ request' = request \cup {edge}
  BY DEF VisitWait, Visiting, Current, executorVars, batchVars, m_keyLocks!AcquireWaits
<1>2. i \in Live /\ SameWork /\ SameMarks
  BY <1>1, WalkDomains DEF SameWork, SameMarks, Live
<1>3. edge.ctx = i /\ edge.lock = <<m.from, m.keyLockAcquired>> /\ edge.seq = m.seq
  BY DEF m_keyLocks!EdgeOf
<1> HIDE DEF edge
<1>4. \A r \in request' : \/ r \in request
                          \/ r.ctx = i /\ m.type \notin ReturnType /\ RequestOK(r)
  <2>1. ASSUME NEW r \in request', r \notin request
        PROVE  r.ctx = i /\ m.type \notin ReturnType /\ RequestOK(r)
    <3>1. r = edge
      BY <1>1, <2>1
    <3> QED BY <1>1, <1>3, <3>1 DEF ReturnType, RequestOK
  <2> QED BY <2>1
<1>5. \A j \in Live : Fresh(j) => Fresh(j)'
  BY <1>1, <1>2, MarksFacts DEF Fresh
<1> QED BY <1>1, <1>2, <1>4, <1>5, SameWorkLocks

LEMMA LockVictim ==
  ASSUME Inv, LockInv, NEW i, VisitVictim(i)
  PROVE  LockInv'
<1> DEFINE old == m_executiveStates[i].message
<1>1. /\ phase = "deadlock" /\ phase' = "deadlock" /\ i \in todo
      /\ atExecutor' = atExecutor /\ own' = own /\ request' = request
  BY DEF VisitVictim, Current, executorVars, lockVars
<1>2. /\ i \in Live /\ i \notin DOMAIN atExecutor /\ m_executiveStates[i] \in ExecutiveState
      /\ old \in Message
  BY <1>1, Visited
<1>3. "REVERT_KEY_LOCK" \in MessageType
  BY DEF MessageType
<1>4. PICK s \in ExecutiveState, m \in Message :
            /\ OnlyState(i, s) /\ s.callStack = m_executiveStates[i].callStack
            /\ s.message = m /\ m = [m_executiveStates[i].message EXCEPT !.type = "REVERT_KEY_LOCK"]
  BY <1>2, <1>3, SetType DEF VisitVictim
<1>5. /\ m.type = "REVERT_KEY_LOCK" /\ m.seq = old.seq /\ m.from = old.from
      /\ m.keyLockAcquired = old.keyLockAcquired
  BY <1>2, <1>4 DEF Message
<1>6. /\ DOMAIN m_executiveStates' = Live /\ m_executiveStates'[i] = s
      /\ \A j \in Live : j # i => m_executiveStates'[j] = m_executiveStates[j]
  BY <1>4 DEF OnlyState
<1>7. old.type \in {"KEY_LOCK", "REVERT_KEY_LOCK"}
  BY <1>1, <1>2 DEF Inv, NothingSent
<1>8. HoldersInv'
  BY <1>1, <1>2, <1>4, <1>6 DEF LockInv, HoldersInv, Live
<1>9. ReleasedInv'
  <2>1. ASSUME NEW j \in Live, j # i, m_executiveStates[j].message.type \in ReturnType
        PROVE  Released(j)'
    BY <1>1, <1>6, <2>1 DEF LockInv, ReleasedInv, Fresh, Released
  <2> QED BY <1>4, <1>5, <1>6, <2>1 DEF ReleasedInv, Live, ReturnType
<1>10. RequestInv'
  <2>1. SUFFICES ASSUME NEW r \in request PROVE r.ctx \in Live /\ RequestOK(r)'
    BY <1>1, <1>6 DEF RequestInv, Live
  <2>2. r.ctx \in Live /\ RequestOK(r)
    BY <1>1 DEF LockInv, RequestInv
  <2>3. CASE r.ctx # i
    BY <1>1, <1>6, <2>2, <2>3 DEF RequestOK
  <2>4. CASE r.ctx = i
    <3>1. r.lock = <<old.from, old.keyLockAcquired>> /\ r.seq = old.seq
      BY <1>2, <1>7, <2>2, <2>4, NoMessageIsNone DEF RequestOK
    <3> QED BY <1>4, <1>5, <1>6, <2>4, <2>2, <3>1 DEF RequestOK
  <2> QED BY <2>2, <2>3, <2>4
<1> QED BY <1>8, <1>9, <1>10 DEF LockInv

LEMMA LockNoVictim ==
  ASSUME Inv, LockInv, NEW i, VisitNoVictim(i)
  PROVE  LockInv'
<1>1. /\ phase = "deadlock" /\ phase' = "deadlock" /\ i \in todo
      /\ m_executiveStates' = m_executiveStates /\ atExecutor' = atExecutor
      /\ own' = own /\ request' = request
  BY DEF VisitNoVictim, Current, executorVars, lockVars
<1>2. i \in Live /\ SameWork
  BY <1>1, WalkDomains DEF SameWork, Live
<1>3. \A j \in Live : ~Fresh(j)
  BY <1>1 DEF Fresh
<1> QED BY <1>1, <1>2, <1>3, SameWorkLocks

LEMMA SkippedFresh ==
  ASSUME Inv, NEW i, UpdateSkipped(i)
  PROVE  /\ phase = "locks" /\ phase' = "locks" /\ i \in Live /\ SameWork
         /\ \A j \in Live : Fresh(j) => Fresh(j)'
<1>1. /\ phase = "locks" /\ phase' = "locks" /\ i \in todo /\ \A j \in todo : Before(i, j)
      /\ todo' = todo \ SameKey(i) /\ m_executiveStates[i].skip
  BY NoMarks DEF UpdateSkipped, Current
<1>2. i \in Live /\ m_executiveStates[i] \in ExecutiveState
  BY <1>1, Visited
<1>3. PICK s \in ExecutiveState :
            /\ OnlyState(i, s) /\ s.skip = FALSE /\ s.key = m_executiveStates[i].key
            /\ s.message = m_executiveStates[i].message
            /\ s.callStack = m_executiveStates[i].callStack
  BY <1>2, SetSkip DEF UpdateSkipped
<1>4. /\ DOMAIN m_executiveStates' = Live /\ m_executiveStates'[i] = s
      /\ \A j \in Live : j # i => m_executiveStates'[j] = m_executiveStates[j]
  BY <1>3 DEF OnlyState
<1>5. SameWork
  BY <1>3, <1>4 DEF SameWork
<1>6. ASSUME NEW j \in Live, Fresh(j) PROVE Fresh(j)'
  <2>1. j \in todo /\ ~Covered(j)
    BY <1>1, <1>6 DEF Fresh
  <2>2. j \notin SameKey(i)
    <3>1. SUFFICES ASSUME m_executiveStates[j].key = m_executiveStates[i].key PROVE FALSE
      BY DEF SameKey
    <3>2. i <= j
      BY <1>1, <1>2, <2>1, <3>1, WalkDomains DEF Before
    <3> QED BY <1>1, <1>2, <2>1, <3>1, <3>2 DEF Covered
  <2>3. ~Covered(j)'
    BY <1>3, <1>4, <2>1 DEF Covered, Live
  <2> QED BY <1>1, <2>1, <2>2, <2>3 DEF Fresh
<1> QED BY <1>1, <1>2, <1>5, <1>6

LEMMA LockUpdateSkipped ==
  ASSUME Inv, LockInv, NEW i, UpdateSkipped(i)
  PROVE  LockInv'
<1>1. atExecutor' = atExecutor /\ own' = own /\ request' = request
  BY DEF UpdateSkipped, executorVars, lockVars
<1> QED BY <1>1, SkippedFresh, SameWorkLocks

\* Locks that the walk takes for a frame on the stack of transaction i.
LEMMA FrameEdges ==
  ASSUME Inv, NEW i, Updating(i), m_executiveStates[i].message.type \in {"MESSAGE", "KEY_LOCK"},
         m_startContextID = 0, NEW keys, keys \in SUBSET m_executiveStates[i].message.keyLocks,
         NEW contract,
         NEW e \in {m_keyLocks!EdgeOf(lock, MessageContextID(i), m_executiveStates[i].message.seq) :
                      lock \in m_keyLocks!LocksOf(contract, keys)}
  PROVE  e.ctx = i /\ OnStack(m_executiveStates[i].callStack, e.seq)
<1> DEFINE old == m_executiveStates[i]
<1>1. /\ i \in TxIDs /\ old \in ExecutiveState /\ old.message \in Message
      /\ MsgOK(old, frames[i]) /\ FramesOK(frames[i])
  BY Visited DEF Updating, Current
<1>2. MessageContextID(i) = i
  BY <1>1, ConstantsAssumption DEF MessageContextID, TxIDs
<1>3. e.ctx = i /\ e.seq = old.message.seq
  BY <1>2 DEF m_keyLocks!EdgeOf
<1>4. old.message.keyLocks # {}
  BY DEF m_keyLocks!LocksOf
<1>5. OnStack(old.callStack, old.message.seq)
  BY <1>1, <1>4, TopOnStack DEF MsgOK, ExecutiveState, RequestType
<1> QED BY <1>3, <1>5

LEMMA UpdateMarks ==
  ASSUME Inv, NEW i, Updating(i), Update(i) \/ UNCHANGED m_executiveStates
  PROVE  /\ phase = "locks" /\ i \in todo /\ i \in Live /\ SameWork
         /\ \A j \in Live : j # i /\ Covered(j)' => Covered(j)
<1>1. phase = "locks" /\ i \in todo /\ ~m_executiveStates[i].skip
  BY DEF Updating, Current
<1>2. /\ i \in Live /\ m_executiveStates[i] \in ExecutiveState
      /\ m_executiveStates[i].message \in Message
  BY <1>1, Visited
<1>3. m_executiveStates[i].message.to \in Addresses
  BY <1>2 DEF Message
<1>4. CASE Update(i)
  <2>1. PICK s \in ExecutiveState :
            /\ OnlyState(i, s) /\ s.skip = m_executiveStates[i].skip
            /\ s.message = m_executiveStates[i].message
            /\ s.callStack = m_executiveStates[i].callStack
    BY <1>2, <1>3, <1>4, SetKey DEF Update
  <2>2. /\ DOMAIN m_executiveStates' = Live /\ m_executiveStates'[i] = s
        /\ \A j \in Live : j # i => m_executiveStates'[j] = m_executiveStates[j]
    BY <2>1 DEF OnlyState
  <2>3. SameWork
    BY <2>1, <2>2 DEF SameWork
  <2>4. ASSUME NEW j \in Live, j # i, Covered(j)' PROVE Covered(j)
    BY <1>1, <2>1, <2>2, <2>4 DEF Covered, Live
  <2> QED BY <1>1, <1>2, <2>3, <2>4
<1>5. CASE UNCHANGED m_executiveStates
  BY <1>1, <1>2, <1>5 DEF SameWork, Live, Covered
<1> QED BY <1>4, <1>5

LEMMA LockUpdateAcquire ==
  ASSUME Inv, LockInv, m_startContextID = 0, NEW i, UpdateAcquire(i)
  PROVE  LockInv'
<1> DEFINE m == m_executiveStates[i].message
           edges == {m_keyLocks!EdgeOf(lock, MessageContextID(i), m.seq) :
                       lock \in m_keyLocks!LocksOf(m.from, m.keyLocks)}
<1>1. /\ Updating(i) /\ m.type \in {"MESSAGE", "KEY_LOCK"} /\ todo' = todo \ {i}
      /\ Update(i) \/ UNCHANGED m_executiveStates
      /\ m_keyLocks!BatchAcquireOwns(m.from, m.keyLocks, MessageContextID(i), m.seq)
      /\ atExecutor' = atExecutor /\ phase' = phase
  BY DEF UpdateAcquire, executorVars
<1>2. own' = own \cup edges /\ request' \in SUBSET request
  BY <1>1 DEF m_keyLocks!BatchAcquireOwns
<1>3. \A e \in edges : e.ctx = i /\ OnStack(m_executiveStates[i].callStack, e.seq)
  <2>1. PICK keys : keys = m.keyLocks
    OBVIOUS
  <2>2. PICK contract : contract = m.from
    OBVIOUS
  <2> QED BY <1>1, <2>1, <2>2, FrameEdges
<1> HIDE DEF edges
<1>4. /\ phase = "locks" /\ i \in Live /\ SameWork
      /\ \A j \in Live : j # i /\ Covered(j)' => Covered(j)
  BY <1>1, UpdateMarks
<1>5. ASSUME NEW j \in Live, j # i, Fresh(j) PROVE Fresh(j)'
  BY <1>1, <1>4, <1>5 DEF Fresh
<1>6. m.type \notin ReturnType
  BY <1>1 DEF ReturnType
<1>7. HoldersInv'
  BY <1>2, <1>3, <1>4 DEF LockInv, HoldersInv, SameWork, Live
<1>8. ReleasedInv'
  <2>1. ASSUME NEW j \in Live, j # i, Released(j) PROVE Released(j)'
    BY <1>2, <1>3, <1>4, <2>1 DEF Released, SameWork
  <2> QED BY <1>4, <1>5, <1>6, <2>1 DEF LockInv, ReleasedInv, SameWork, Live
<1>9. RequestInv'
  BY <1>1, <1>2, <1>4 DEF LockInv, RequestInv, RequestOK, SameWork, Live
<1> QED BY <1>7, <1>8, <1>9 DEF LockInv

LEMMA LockUpdateThrows ==
  ASSUME Inv, LockInv, m_startContextID = 0, NEW i, UpdateThrows(i)
  PROVE  LockInv'
<1> DEFINE m == m_executiveStates[i].message
           edges(keys) == {m_keyLocks!EdgeOf(lock, MessageContextID(i), m.seq) :
                             lock \in m_keyLocks!LocksOf(m.from, keys)}
<1>1. /\ Updating(i) /\ m.type \in {"MESSAGE", "KEY_LOCK"} /\ phase' = "thrown"
      /\ m_executiveStates' = m_executiveStates
      /\ m_keyLocks!BatchAcquireThrows(m.from, m.keyLocks, MessageContextID(i), m.seq)
  BY DEF UpdateThrows
<1>2. PICK keys \in SUBSET m.keyLocks : own' = own \cup edges(keys)
  BY <1>1 DEF m_keyLocks!BatchAcquireThrows
<1>3. i \in Live
  BY <1>1, WalkDomains DEF Updating, Current
<1>4. \A e \in edges(keys) : e.ctx = i /\ OnStack(m_executiveStates[i].callStack, e.seq)
  <2>1. PICK contract : contract = m.from
    OBVIOUS
  <2> QED BY <1>1, <2>1, FrameEdges
<1> HIDE DEF edges
<1>5. HoldersInv'
  BY <1>1, <1>2, <1>3, <1>4 DEF LockInv, HoldersInv, Live
<1>6. ReleasedInv' /\ RequestInv'
  BY <1>1 DEF ReleasedInv, RequestInv, Fresh
<1> QED BY <1>5, <1>6 DEF LockInv

LEMMA LockUpdateRelease ==
  ASSUME Inv, LockInv, m_startContextID = 0, NEW i, UpdateRelease(i)
  PROVE  LockInv'
<1> DEFINE m == m_executiveStates[i].message
<1>1. /\ Updating(i) /\ m.type \in ReturnType /\ todo' = todo \ {i} /\ Update(i)
      /\ m_keyLocks!ReleaseKeyLocks(MessageContextID(i), m.seq)
      /\ atExecutor' = atExecutor /\ phase' = phase
  BY DEF UpdateRelease, ReleaseFrame, executorVars
<1>2. MessageContextID(i) = i
  <2>1. i \in TxIDs
    BY <1>1, Visited DEF Updating, Current
  <2> QED BY <2>1, ConstantsAssumption DEF MessageContextID, TxIDs
<1>3. /\ own' \in SUBSET own /\ request' \in SUBSET request
      /\ \A e \in own' \cup request' : e.ctx = i => e.seq # m.seq
  BY <1>1, <1>2 DEF m_keyLocks!ReleaseKeyLocks, m_keyLocks!EdgesLeft
<1>4. /\ phase = "locks" /\ i \in Live /\ SameWork
      /\ \A j \in Live : j # i /\ Covered(j)' => Covered(j)
  BY <1>1, UpdateMarks
<1>5. Released(i)'
  BY <1>3, <1>4 DEF Released, SameWork
<1>6. \A j \in Live : Fresh(j) => Fresh(j)' \/ Released(j)'
  BY <1>1, <1>4, <1>5 DEF Fresh
<1> QED BY <1>1, <1>3, <1>4, <1>6, SameWorkLocks


\* The steps between the walks.
LEMMA BetweenFresh ==
  ASSUME Inv, EndSend \/ CheckNotReady \/ CheckBatch \/ BatchCallback \/ UNCHANGED vars,
         NEW j \in Live, Fresh(j)
  PROVE  Fresh(j)'
<1>1. Covered(j)' <=> Covered(j)
  BY DEF EndSend, CheckNotReady, CheckBatch, BatchCallback, vars, Covered, Live
<1>2. CASE EndSend
  <2>1. batchStatus'.total = batchStatus.total
    BY <1>2, BatchTypes DEF EndSend, BatchStatus
  <2> QED BY <1>1, <1>2, <2>1 DEF EndSend, Fresh
<1>3. CASE CheckNotReady \/ UNCHANGED vars
  BY <1>1, <1>3 DEF CheckNotReady, vars, batchVars, Fresh
<1>4. CASE CheckBatch
  <2>1. phase = "wait"
    BY <1>4 DEF CheckBatch, BatchReady, Inv, BatchInv, TypeOK, Phases
  <2>2. todo' = Live /\ phase' = AfterBatch /\ ~Covered(j) /\ batchStatus.total # 0
    BY <1>4, <2>1 DEF CheckBatch, Fresh, Live
  <2>3. phase' \in {"failed", "locks"}
    BY <2>2 DEF AfterBatch
  <2> QED BY <1>1, <2>2, <2>3 DEF Fresh
<1>5. CASE BatchCallback
  BY <1>5 DEF BatchCallback, Fresh
<1> QED BY <1>2, <1>3, <1>4, <1>5

LEMMA LockBetween ==
  ASSUME Inv, LockInv, EndSend \/ CheckNotReady \/ CheckBatch \/ BatchCallback \/ UNCHANGED vars
  PROVE  LockInv'
<1>1. /\ m_executiveStates' = m_executiveStates /\ atExecutor' = atExecutor
      /\ own' = own /\ request' = request
  BY DEF EndSend, CheckNotReady, CheckBatch, BatchCallback, vars, executorVars, lockVars
<1>2. phase = "thrown" => phase' = "thrown"
  BY DEF EndSend, CheckNotReady, CheckBatch, BatchCallback, vars, Inv, BatchInv, BatchReady
<1>3. HoldersInv'
  BY <1>1 DEF LockInv, HoldersInv, Live
<1>4. ReleasedInv'
  <2>1. ASSUME NEW j \in Live, Released(j) PROVE Released(j)'
    BY <1>1, <2>1 DEF Released
  <2> QED BY <1>1, <2>1, BetweenFresh DEF LockInv, ReleasedInv, Live
<1>5. RequestInv'
  BY <1>1, <1>2 DEF LockInv, RequestInv, RequestOK, Live
<1> QED BY <1>3, <1>4, <1>5 DEF LockInv

LEMMA LockStepInv ==
  ASSUME Inv, WalkInv, LockInv, m_startContextID = 0, Next \/ UNCHANGED vars
  PROVE  LockInv'
<1>1. ASSUME NEW i, Sends(i) PROVE LockInv'
  BY <1>1, SendFacts, LockSend
<1>2. ASSUME NEW i, Respond(i) PROVE LockInv'
  BY <1>2, AnswerFacts, LockAnswer
<1>3. ASSUME NEW i, Visit(i) PROVE LockInv'
  BY <1>1, <1>3, LockSkip, LockFinish, LockWait, LockVictim, LockNoVictim, LockUpdateSkipped,
     LockUpdateAcquire, LockUpdateThrows, LockUpdateRelease DEF Visit, Sends
<1>4. CASE EndSend \/ CheckNotReady \/ CheckBatch \/ BatchCallback \/ UNCHANGED vars
  BY <1>4, LockBetween
<1> QED BY <1>2, <1>3, <1>4 DEF Next, Scheduler, Ended

LEMMA WalkInvHolds == Spec => []WalkInv
<1>1. Init => WalkInv
  <2>1. Init => DOMAIN atExecutor = {} /\ todo = Live
    BY DEF Init, Live
  <2> QED BY <2>1 DEF WalkInv
<1>2. Inv /\ WalkInv /\ Inv' /\ [Next]_vars => WalkInv'
  BY WalkStepInv
<1> QED BY <1>1, <1>2, InvHolds, PTL DEF Spec

\* In a block (contextIDs start at 0) the locks are those of open frames.
LEMMA LockInvHolds == m_startContextID = 0 => (Spec => []LockInv)
<1>1. Init => LockInv
  <2>1. ASSUME Init PROVE own = {} /\ request = {}
    BY <2>1 DEF Init, m_keyLocks!KeyLockInit
  <2> QED BY <2>1 DEF LockInv, HoldersInv, ReleasedInv, RequestInv, Released
<1>2. SUFFICES ASSUME m_startContextID = 0 PROVE Spec => []LockInv
  OBVIOUS
<1>3. Inv /\ WalkInv /\ LockInv /\ [Next]_vars => LockInv'
  BY <1>2, LockStepInv
<1> QED BY <1>1, <1>3, InvHolds, WalkInvHolds, PTL DEF Spec

\* In a block, whose contextIDs start at 0, every lock belongs to a call frame
\* on the stack of an unfinished transaction: releaseKeyLocks is called for
\* each frame that returns, reverts or is aborted before the frame is popped.
THEOREM NoLockOutlivesItsFrame == m_startContextID = 0 => (Spec => []HoldersLive)
<1>1. LockInv => HoldersLive
  BY DEF LockInv, HoldersInv, HoldersLive, OnStack, Live
<1>2. SUFFICES ASSUME m_startContextID = 0 PROVE Spec => []HoldersLive
  OBVIOUS
<1> QED BY <1>1, <1>2, LockInvHolds, PTL

\* In a block, the deadlock search finds no stale edge: each request is for the
\* key lock that its transaction waits for, of the frame that waits.
THEOREM NoStaleRequest == m_startContextID = 0 => (Spec => []RequestsCurrent)
<1>1. Inv /\ LockInv => RequestsCurrent
  <2>1. SUFFICES ASSUME Inv, LockInv, phase = "deadlock", NEW r \in request
                 PROVE  LET m == m_executiveStates[r.ctx].message
                        IN  /\ r.ctx \in Live
                            /\ m.type \in {"KEY_LOCK", "REVERT_KEY_LOCK"}
                            /\ <<m.from, m.keyLockAcquired>> = r.lock
                            /\ m.seq = r.seq
    BY DEF RequestsCurrent, Live
  <2>2. r.ctx \in Live /\ RequestOK(r)
    BY <2>1 DEF LockInv, RequestInv
  <2>3. m_executiveStates[r.ctx].message.type \in {"KEY_LOCK", "REVERT_KEY_LOCK"}
    BY <2>1, <2>2 DEF Inv, NothingSent
  <2>4. DOMAIN atExecutor = {}
    BY <2>1, WalkDomains
  <2> QED BY <2>2, <2>3, <2>4, NoMessageIsNone DEF RequestOK
<1>2. SUFFICES ASSUME m_startContextID = 0 PROVE Spec => []RequestsCurrent
  OBVIOUS
<1> QED BY <1>1, <1>2, InvHolds, LockInvHolds, PTL


-----------------------------------------------------------------------------
(* A batch in which nothing could be sent.                                 *)

\* Transaction j waits for a lock that another one holds.
Waits(j) == \E r \in request, o \in own : r.ctx = j /\ o.lock = r.lock /\ o.ctx # j

\* As long as nothing was sent, every state the walk has passed waits.  The
\* search for a deadlock has not passed a context that is in one.
StallInv ==
    /\ phase \in {"send", "wait"} /\ batchStatus.total = 0 => \A j \in Live \ todo : Waits(j)
    /\ phase = "deadlock" =>
          /\ Live # {}
          /\ \A j \in Live : Waits(j)
          /\ \/ \E j \in Live : m_executiveStates[j].message.type = "REVERT_KEY_LOCK"
             \/ \A j \in Live \ todo : ~m_keyLocks!DetectDeadLock(j)

LEMMA SameLockFacts ==
  ASSUME lockVars' = lockVars
  PROVE  /\ \A j : Waits(j)' <=> Waits(j)
         /\ \A j : m_keyLocks!DetectDeadLock(j)' <=> m_keyLocks!DetectDeadLock(j)
<1>1. own' = own /\ request' = request /\ m_vertexes' = m_vertexes
  BY DEF lockVars
<1>2. \A j : Waits(j)' <=> Waits(j)
  BY <1>1 DEF Waits
<1>3. \A c, d : m_keyLocks!WaitsFor(c, d)' <=> m_keyLocks!WaitsFor(c, d)
  BY <1>1 DEF m_keyLocks!WaitsFor
<1>4. \A j : m_keyLocks!DetectDeadLock(j)' <=> m_keyLocks!DetectDeadLock(j)
  BY <1>1, <1>3 DEF m_keyLocks!DetectDeadLock
<1> QED BY <1>2, <1>4

LEMMA StallWait ==
  ASSUME Inv, StallInv, NEW i, VisitWait(i)
  PROVE  StallInv'
<1> DEFINE m == m_executiveStates[i].message
           edge == m_keyLocks!EdgeOf(<<m.from, m.keyLockAcquired>>, i, m.seq)
<1>1. /\ phase = "send" /\ phase' = "send" /\ todo' = todo \ {i}
      /\ m_executiveStates' = m_executiveStates /\ batchStatus' = batchStatus
      /\ m_keyLocks!HeldByOther(<<m.from, m.keyLockAcquired>>, i)
      /\ own' = own /\ request' = request \cup {edge}
  BY DEF VisitWait, Visiting, Current, batchVars, m_keyLocks!AcquireWaits
<1>2. edge.ctx = i /\ edge.lock = <<m.from, m.keyLockAcquired>>
  BY DEF m_keyLocks!EdgeOf
<1> HIDE DEF edge
<1>3. PICK o \in own : o.lock = <<m.from, m.keyLockAcquired>> /\ o.ctx # i
  BY <1>1 DEF m_keyLocks!HeldByOther
<1>4. Waits(i)'
  BY <1>1, <1>2, <1>3 DEF Waits
<1>5. \A j : Waits(j) => Waits(j)'
  BY <1>1 DEF Waits
<1> QED BY <1>1, <1>4, <1>5 DEF StallInv, Live

LEMMA StallVictim ==
  ASSUME Inv, StallInv, NEW i, VisitVictim(i)
  PROVE  StallInv'
<1>1. phase = "deadlock" /\ phase' = "deadlock" /\ i \in todo /\ lockVars' = lockVars
  BY DEF VisitVictim, Current
<1>2. /\ i \in Live /\ m_executiveStates[i] \in ExecutiveState
      /\ m_executiveStates[i].message \in Message
  BY <1>1, Visited
<1>3. "REVERT_KEY_LOCK" \in MessageType
  BY DEF MessageType
<1>4. PICK s \in ExecutiveState, m \in Message :
            /\ OnlyState(i, s) /\ s.message = m
            /\ m = [m_executiveStates[i].message EXCEPT !.type = "REVERT_KEY_LOCK"]
  BY <1>2, <1>3, SetType DEF VisitVictim
<1>5. m.type = "REVERT_KEY_LOCK"
  BY <1>2, <1>4 DEF Message
<1>6. DOMAIN m_executiveStates' = Live /\ m_executiveStates'[i] = s
  BY <1>4 DEF OnlyState
<1> QED BY <1>1, <1>2, <1>4, <1>5, <1>6, SameLockFacts DEF StallInv, Live

LEMMA StallStepInv ==
  ASSUME Inv, StallInv, Next \/ UNCHANGED vars
  PROVE  StallInv'
<1>1. ASSUME phase' \notin {"send", "wait", "deadlock"} PROVE StallInv'
  BY <1>1 DEF StallInv
<1>2. ASSUME NEW i, Sends(i) PROVE StallInv'
  <2>1. PICK s, m : SendEffect(i, s, m)
    BY <1>2, SendFacts
  <2>2. phase' = "send" /\ batchStatus'.total # 0
    BY <2>1, BatchTypes DEF SendEffect
  <2> QED BY <2>2 DEF StallInv
<1>3. ASSUME NEW i, Respond(i) PROVE StallInv'
  <2>1. PICK s, r : AnswerEffect(i, s, r)
    BY <1>3, AnswerFacts
  <2>2. phase' \in {"send", "wait"} /\ batchStatus'.total # 0
    BY <2>1 DEF AnswerEffect
  <2> QED BY <2>2 DEF StallInv
<1>4. ASSUME NEW i, VisitSkip(i) PROVE StallInv'
  <2>1. phase' = "send" /\ batchStatus' = batchStatus /\ calledContract # {}
    BY <1>4 DEF VisitSkip, Visiting, Skipped, batchVars
  <2>2. batchStatus'.total # 0
    BY <2>1 DEF Inv, BatchInv
  <2> QED BY <2>1, <2>2 DEF StallInv
<1>5. ASSUME NEW i, VisitFinish(i) PROVE StallInv'
  <2>1. batchStatus' = batchStatus /\ lockVars' = lockVars
    BY <1>5 DEF VisitFinish, batchVars
  <2> QED BY <1>5, <2>1, FinishMarks, SameLockFacts DEF StallInv, Live
<1>6. ASSUME NEW i, VisitNoVictim(i) PROVE StallInv'
  <2>1. /\ phase = "deadlock" /\ phase' = "deadlock" /\ todo' = todo \ {i}
        /\ lockVars' = lockVars /\ m_executiveStates' = m_executiveStates
        /\ ~m_keyLocks!DetectDeadLock(i)
    BY <1>6 DEF VisitNoVictim
  <2> QED BY <2>1, SameLockFacts DEF StallInv, Live
<1>7. ASSUME NEW i, UpdateSkipped(i) \/ UpdateAcquire(i) \/ UpdateThrows(i) \/ UpdateRelease(i)
      PROVE  phase' \in {"locks", "thrown"}
  BY <1>7, NoMarks DEF UpdateSkipped, UpdateAcquire, UpdateThrows, UpdateRelease, Updating, Current
<1>8. ASSUME NEW i, Visit(i) PROVE StallInv'
  BY <1>1, <1>2, <1>4, <1>5, <1>6, <1>7, <1>8, StallWait, StallVictim DEF Visit, Sends
<1>9. CASE EndSend
  <2>1. /\ phase = "send" /\ phase' = "wait" /\ todo' = todo /\ lockVars' = lockVars
        /\ m_executiveStates' = m_executiveStates
    BY <1>9 DEF EndSend
  <2>2. batchStatus'.total = batchStatus.total
    BY <1>9, BatchTypes DEF EndSend, BatchStatus
  <2> QED BY <2>1, <2>2, SameLockFacts DEF StallInv, Live
<1>10. CASE CheckNotReady \/ UNCHANGED vars
  <2>1. /\ phase' = phase /\ todo' = todo /\ lockVars' = lockVars
        /\ m_executiveStates' = m_executiveStates /\ batchStatus' = batchStatus
    BY <1>10 DEF CheckNotReady, vars, batchVars, lockVars
  <2> QED BY <2>1, SameLockFacts DEF StallInv, Live
<1>11. CASE CheckBatch
  <2>1. /\ phase = "wait" /\ todo' = Live /\ lockVars' = lockVars
        /\ m_executiveStates' = m_executiveStates /\ phase' = AfterBatch
    BY <1>11 DEF CheckBatch, BatchReady, Inv, BatchInv, TypeOK, Phases, Live
  <2>2. todo = {}
    BY <2>1 DEF Inv, BatchInv
  <2>3. phase' = "deadlock" => Live # {} /\ batchStatus.total = 0
    BY <2>1 DEF AfterBatch, Live
  <2>4. phase' \notin {"send", "wait"}
    BY <2>1 DEF AfterBatch
  <2> QED BY <2>1, <2>2, <2>3, <2>4, SameLockFacts DEF StallInv, Live
<1>12. CASE BatchCallback
  <2>1. phase' \in {"done", "send"} /\ (phase' = "send" => todo' = Live')
    BY <1>12 DEF BatchCallback, Live
  <2> QED BY <2>1 DEF StallInv
<1> QED BY <1>3, <1>8, <1>9, <1>10, <1>11, <1>12 DEF Next, Scheduler, Ended

\* In a block, a batch in which nothing could be sent ends with a transaction
\* to abort: all unfinished transactions wait for each other's locks, and
\* detectDeadLock, asked for one after the other, reports one of the holders.
THEOREM StallsFindVictim == m_startContextID = 0 => (Spec => []StallFindsVictim)
<1>1. Init => StallInv
  BY DEF Init, StallInv, Live
<1>2. Inv /\ StallInv /\ [Next]_vars => StallInv'
  BY StallStepInv
<1>3. Inv /\ LockInv /\ StallInv => StallFindsVictim
  <2>1. SUFFICES ASSUME Inv, LockInv, StallInv, phase = "deadlock",
                        \A j \in Live \ todo : ~m_keyLocks!DetectDeadLock(j)
                 PROVE  \E i \in Live : i \in todo /\ m_keyLocks!DetectDeadLock(i)
    BY DEF StallFindsVictim, StallInv, Live
  <2>2. \A j \in Live : \E d \in Live : m_keyLocks!WaitsFor(j, d)
    BY <2>1 DEF StallInv, Waits, LockInv, HoldersInv, m_keyLocks!WaitsFor
  <2>3. PICK j \in Live, d \in Live : m_keyLocks!WaitsFor(j, d)
    BY <2>1, <2>2 DEF StallInv
  <2>4. PICK o \in own : o.ctx = d
    BY <2>3 DEF m_keyLocks!WaitsFor
  <2>5. d \in m_vertexes
    BY <2>1, <2>4 DEF Inv, m_keyLocks!KeyLockInv, m_keyLocks!VertexHasEdge
  <2>6. Live \in SUBSET LockContexts
    BY <2>1, BatchTypes, ConstantsAssumption DEF TxIDs, LockContexts
  <2>7. m_keyLocks!DetectDeadLock(d)
    BY <2>2, <2>4, <2>5, <2>6 DEF m_keyLocks!DetectDeadLock, LockContexts
  <2> QED BY <2>1, <2>7
<1>4. SUFFICES ASSUME m_startContextID = 0 PROVE Spec => []StallFindsVictim
  OBVIOUS
<1> QED BY <1>1, <1>2, <1>3, <1>4, InvHolds, LockInvHolds, PTL DEF Spec

-----------------------------------------------------------------------------
(* The victim of a deadlock.                                               *)

\* A search begins without a victim and ends with the first it finds.
VictimInv ==
    /\ phase = "deadlock" /\ todo # {} => Marked = {}
    /\ \A i, j \in Marked : i = j

\* Only a search marks a transaction, and a mark goes only with the message
\* that tells the waiting frame to revert.
LEMMA MarkStep ==
  ASSUME Inv, Next \/ UNCHANGED vars
  PROVE  /\ Marked' \subseteq Marked \/ \E i : VisitVictim(i) /\ Marked' \subseteq Marked \cup {i}
         /\ \A i \in Marked \ Marked' : i \in DOMAIN atExecutor' /\ Aborted(atExecutor'[i])
<1> DEFINE Kept == Marked' = Marked
           type(i) == m_executiveStates[i].message.type
<1>1. ASSUME m_executiveStates' = m_executiveStates PROVE Kept
  BY <1>1 DEF Marked, Live
<1>2. ASSUME NEW i, NEW s, OnlyState(i, s), s.message = m_executiveStates[i].message, i \in Live
      PROVE  Kept
  BY <1>2 DEF Marked, OnlyState, Live
<1>3. ASSUME NEW i, Sends(i)
      PROVE  /\ Marked' \subseteq Marked
             /\ \A j \in Marked \ Marked' : j \in DOMAIN atExecutor' /\ Aborted(atExecutor'[j])
  <2>1. PICK s \in ExecutiveState, m \in Message : SendEffect(i, s, m) /\ SendKinds(i, s, m)
    BY <1>3, SendFacts
  <2>2. /\ OnlyState(i, s) /\ s.message = NoMessage
        /\ i \in DOMAIN atExecutor' /\ atExecutor'[i] = m
        /\ type(i) = "REVERT_KEY_LOCK" => Aborted(m)
    BY <2>1 DEF SendEffect, SendKinds
  <2>3. NoMessage.type # "REVERT_KEY_LOCK"
    BY DEF NoMessage
  <2>4. Marked' = Marked \ {i}
    BY <2>2, <2>3 DEF Marked, OnlyState, Live
  <2>5. i \in Marked => Aborted(m)
    BY <2>2 DEF Marked
  <2> QED BY <2>2, <2>4, <2>5
<1>4. ASSUME NEW i, Respond(i) PROVE Kept
  <2>1. PICK s \in ExecutiveState, r \in Message \cup {NoMessage} :
           AnswerEffect(i, s, r) /\ AnswerKinds(r, atExecutor[i])
    BY <1>4, AnswerFacts
  <2>2. i \in DOMAIN atExecutor /\ OnlyState(i, s) /\ s.message = r
    BY <2>1 DEF AnswerEffect
  <2>3. r.type # "REVERT_KEY_LOCK"
    BY <2>1 DEF AnswerKinds, NoMessage, ReturnType
  <2>4. type(i) # "REVERT_KEY_LOCK"
    BY <2>2 DEF Inv, FramesInv, SentOK, NoMessage
  <2> QED BY <2>2, <2>3, <2>4 DEF Marked, OnlyState, Live
<1>5. ASSUME NEW i, VisitFinish(i) PROVE Kept
  <2>1. type(i) # "REVERT_KEY_LOCK"
    BY <1>5 DEF VisitFinish, ReturnType
  <2> QED BY <1>5, <2>1, FinishMarks DEF Marked, Live
<1>6. ASSUME NEW i, VisitSkip(i) \/ UpdateSkipped(i) PROVE Kept
  <2>1. i \in Live /\ m_executiveStates[i] \in ExecutiveState
    BY <1>6, WalkDomains DEF VisitSkip, UpdateSkipped, Visiting, Current
  <2>2. PICK b \in BOOLEAN : m_executiveStates' = [m_executiveStates EXCEPT ![i].skip = b]
    BY <1>6 DEF VisitSkip, UpdateSkipped
  <2>3. PICK s \in ExecutiveState : OnlyState(i, s) /\ s.message = m_executiveStates[i].message
    BY <2>1, <2>2, SetSkip
  <2> QED BY <1>2, <2>1, <2>3
<1>7. ASSUME NEW i, UpdateAcquire(i) \/ UpdateRelease(i) PROVE Kept
  <2>1. i \in todo /\ phase = "locks"
    BY <1>7 DEF UpdateAcquire, UpdateRelease, Updating, Current
  <2>2. i \in Live /\ m_executiveStates[i] \in ExecutiveState /\ m_executiveStates[i].message.to \in Addresses
    BY <2>1, Visited DEF Message
  <2>3. m_executiveStates' = m_executiveStates \/ Update(i)
    BY <1>7 DEF UpdateAcquire, UpdateRelease
  <2>4. CASE Update(i)
    <3>1. PICK s \in ExecutiveState : OnlyState(i, s) /\ s.message = m_executiveStates[i].message
      BY <2>2, <2>4, SetKey DEF Update
    <3> QED BY <1>2, <2>2, <3>1
  <2> QED BY <1>1, <2>3, <2>4
<1>8. ASSUME NEW i, VisitVictim(i) PROVE Marked' = Marked \cup {i}
  <2>1. phase = "deadlock" /\ i \in todo
    BY <1>8 DEF VisitVictim, Current
  <2>2. /\ i \in Live /\ m_executiveStates[i] \in ExecutiveState
        /\ m_executiveStates[i].message \in Message
    BY <2>1, Visited
  <2>3. "REVERT_KEY_LOCK" \in MessageType
    BY DEF MessageType
  <2>4. PICK s \in ExecutiveState, m \in Message :
            /\ OnlyState(i, s) /\ s.message = m
            /\ m = [m_executiveStates[i].message EXCEPT !.type = "REVERT_KEY_LOCK"]
    BY <1>8, <2>2, <2>3, SetType DEF VisitVictim
  <2>5. m.type = "REVERT_KEY_LOCK"
    BY <2>2, <2>4 DEF Message
  <2> QED BY <2>2, <2>4, <2>5 DEF Marked, OnlyState, Live
<1>9. ASSUME NEW i, VisitWait(i) \/ VisitNoVictim(i) \/ UpdateThrows(i) PROVE Kept
  BY <1>1, <1>9 DEF VisitWait, VisitNoVictim, UpdateThrows
<1>10. ASSUME EndSend \/ CheckNotReady \/ CheckBatch \/ BatchCallback \/ Ended \/ UNCHANGED vars
       PROVE  Kept
  BY <1>1, <1>10 DEF EndSend, CheckNotReady, CheckBatch, BatchCallback, Ended, vars
<1>11. CASE \E i : Sends(i)
  BY <1>3, <1>11
<1>12. CASE \E i : VisitVictim(i)
  BY <1>8, <1>12
<1>13. ASSUME Kept
       PROVE  Marked' \subseteq Marked /\ Marked \ Marked' = {}
  BY <1>13
<1> QED BY <1>4, <1>5, <1>6, <1>7, <1>9, <1>10, <1>11, <1>12, <1>13
        DEF Next, Scheduler, Visit, Sends

\* A search visits a state once.
LEMMA SearchShrinks ==
  ASSUME Inv, Next \/ UNCHANGED vars, phase = "deadlock", phase' = "deadlock"
  PROVE  todo' \subseteq todo
<1>1. DOMAIN atExecutor = {} /\ batchStatus.callbackExecuted
  BY DEF Inv, BatchInv
<1>2. ASSUME NEW i, Visit(i) PROVE todo' \subseteq todo
  BY <1>2 DEF Visit, VisitSkip, VisitRequest, VisitFinish, VisitReturn, VisitRevertKeyLock,
       VisitAcquire, VisitWait, VisitSendBack, VisitVictim, VisitNoVictim, UpdateSkipped,
       UpdateAcquire, UpdateThrows, UpdateRelease, Visiting
<1>3. ASSUME NEW i, Respond(i) PROVE FALSE
  BY <1>1, <1>3 DEF Respond, RespondCall, RespondReturn, RespondKeyLock, RespondError
<1>4. ~CheckBatch /\ ~BatchCallback /\ ~EndSend
  BY <1>1 DEF CheckBatch, BatchReady, BatchCallback, EndSend
<1>5. CASE CheckNotReady \/ Ended \/ UNCHANGED vars
  BY <1>5 DEF CheckNotReady, Ended, vars
<1> QED BY <1>2, <1>3, <1>4, <1>5 DEF Next, Scheduler

\* When a search begins, every transaction waits for a key lock.
LEMMA StallBegins ==
  ASSUME Inv, Next \/ UNCHANGED vars, phase # "deadlock", phase' = "deadlock"
  PROVE  Marked = {}
<1>1. ASSUME NEW i, Visit(i) PROVE FALSE
  BY <1>1 DEF Visit, VisitSkip, VisitRequest, VisitFinish, VisitReturn, VisitRevertKeyLock,
       VisitAcquire, VisitWait, VisitSendBack, VisitVictim, VisitNoVictim, UpdateSkipped,
       UpdateAcquire, UpdateThrows, UpdateRelease, Visiting, Updating, Dispatch
<1>2. ASSUME NEW i, Respond(i) PROVE FALSE
  BY <1>2 DEF Respond, RespondCall, RespondReturn, RespondKeyLock, RespondError, ExecuteCallback
<1>3. ~EndSend /\ ~CheckNotReady /\ ~BatchCallback /\ ~Ended /\ ~UNCHANGED vars
  BY DEF EndSend, CheckNotReady, BatchCallback, Ended, vars
<1>4. CheckBatch
  BY <1>1, <1>2, <1>3 DEF Next, Scheduler
<1>5. phase = "wait" /\ batchStatus.total = 0
  BY <1>4 DEF CheckBatch, BatchReady, AfterBatch, Inv, BatchInv, TypeOK, Phases
<1>6. todo = {}
  BY <1>5 DEF Inv, BatchInv
<1>7. \A j \in Live : m_executiveStates[j].message.type = "KEY_LOCK"
  BY <1>5, <1>6 DEF Inv, NothingSent
<1> QED BY <1>7 DEF Marked, Live

LEMMA VictimStep ==
  ASSUME Inv, VictimInv, Next \/ UNCHANGED vars
  PROVE  VictimInv'
<1>1. CASE \E i : VisitVictim(i)
  <2>1. PICK i : VisitVictim(i) /\ Marked' \subseteq Marked \cup {i}
    <3>1. ASSUME NEW i, NEW j, VisitVictim(i), VisitVictim(j) PROVE i = j
      BY <3>1, WalkDomains DEF VisitVictim, Current, Before
    <3> QED BY <1>1, <3>1, MarkStep
  <2>2. phase = "deadlock" /\ todo # {} /\ todo' = {}
    BY <2>1 DEF VisitVictim, Current
  <2> QED BY <2>1, <2>2 DEF VictimInv
<1>2. CASE ~\E i : VisitVictim(i)
  <2>1. Marked' \subseteq Marked
    BY <1>2, MarkStep
  <2>2. ASSUME phase' = "deadlock", todo' # {} PROVE Marked = {}
    <3>1. CASE phase = "deadlock"
      <4>1. todo' \subseteq todo
        BY <2>2, <3>1, SearchShrinks
      <4> QED BY <2>2, <3>1, <4>1 DEF VictimInv
    <3>2. CASE phase # "deadlock"
      BY <2>2, <3>2, StallBegins
    <3> QED BY <3>1, <3>2
  <2> QED BY <2>1, <2>2 DEF VictimInv
<1> QED BY <1>1, <1>2


\* Only the callback of the batch ends a search.
LEMMA SearchEnds ==
  ASSUME Inv, Next, phase = "deadlock", phase' # "deadlock"
  PROVE  BatchCallback
<1>1. DOMAIN atExecutor = {} /\ batchStatus.callbackExecuted
  BY DEF Inv, BatchInv
<1>2. ASSUME NEW i, Visit(i) PROVE FALSE
  BY <1>2 DEF Visit, VisitSkip, VisitRequest, VisitFinish, VisitReturn, VisitRevertKeyLock,
       VisitAcquire, VisitWait, VisitSendBack, VisitVictim, VisitNoVictim, UpdateSkipped,
       UpdateAcquire, UpdateThrows, UpdateRelease, Visiting, Updating
<1>3. ASSUME NEW i, Respond(i) PROVE FALSE
  BY <1>1, <1>3 DEF Respond, RespondCall, RespondReturn, RespondKeyLock, RespondError
<1>4. ~CheckBatch /\ ~EndSend /\ ~CheckNotReady /\ ~Ended
  BY <1>1 DEF CheckBatch, BatchReady, EndSend, CheckNotReady, Ended
<1> QED BY <1>2, <1>3, <1>4 DEF Next, Scheduler

\* At most one transaction at a time is to be aborted, although a transaction
\* may be passed over by the walk that should abort it: no search runs before
\* it was told to revert.
THEOREM OneVictim == Spec => [](\A i, j \in Marked : i = j)
<1>1. Init => VictimInv
  <2> SUFFICES ASSUME Init PROVE Marked = {}
    BY DEF VictimInv
  <2>1. PICK to \in [TxIDs -> Contracts \cup {NoAddress}], dag \in [TxIDs -> DAGResults] :
           m_executiveStates = [i \in TxIDs |-> FirstState(dag[i], to[i])]
    BY DEF Init
  <2>2. ASSUME NEW d \in DAGResults, NEW a
        PROVE  FirstState(d, a).message.type # "REVERT_KEY_LOCK"
    BY ConstantsAssumption DEF FirstState, FirstMessage
  <2> QED BY <2>1, <2>2 DEF Marked, Live
<1>2. Inv /\ VictimInv /\ [Next]_vars => VictimInv'
  BY VictimStep
<1>3. VictimInv => \A i, j \in Marked : i = j
  BY DEF VictimInv
<1> QED BY <1>1, <1>2, <1>3, InvHolds, PTL DEF Spec

\* startBatch and checkBatch resolve every stall of a block (StallsResolved), for
\* any number of transactions and any shape of the cycles.
THEOREM StallsAreResolved == m_startContextID = 0 => (Spec => StallsResolved)
<1> SUFFICES ASSUME m_startContextID = 0 PROVE Spec => StallsResolved
  OBVIOUS
<1> DEFINE A == /\ phase = "deadlock" /\ phase' # "deadlock" => Marked # {} /\ phase' = "send"
                /\ \A i \in Marked \ Marked' : i \in DOMAIN atExecutor' /\ Aborted(atExecutor'[i])
                /\ phase # "deadlock" /\ phase' = "deadlock" => Marked = {}
<1>1. ASSUME Inv, StallFindsVictim, [Next]_vars PROVE [A]_vars
  <2> SUFFICES ASSUME Next PROVE A
    BY <1>1
  <2>1. ASSUME phase = "deadlock", phase' # "deadlock" PROVE Marked # {} /\ phase' = "send"
    <3>1. BatchCallback
      BY <1>1, <2>1, SearchEnds
    <3>2. todo = {}
      BY <3>1 DEF BatchCallback
    <3>3. Marked # {}
      BY <1>1, <2>1, <3>2 DEF StallFindsVictim, Marked, Live
    <3> QED BY <3>1, <3>3 DEF BatchCallback, Marked, Live
  <2> QED BY <1>1, <2>1, MarkStep, StallBegins
<1>2. Spec => []StallFindsVictim
  BY StallsFindVictim
<1> QED BY <1>1, <1>2, InvHolds, PTL DEF Spec, StallsResolved

=============================================================================
