------------------------- MODULE DMTContractProofs -------------------------
(***************************************************************************)
(* Proofs about the contracts that the transactions of a batch are at.     *)
(* Without CREATE2 two transactions are never at the same contract, and    *)
(* when, in a block, the executors respect the locked keys they are given, *)
(* batchAcquireKeyLock never throws.                                       *)
(***************************************************************************)
EXTENDS DMTLockProofs

-----------------------------------------------------------------------------
(* The addresses of new contracts.                                         *)

\* An address that transaction j may name: a deployed contract (or none), or
\* one that j created.
OwnAddress(j, a) == a <= NumContracts \/ \E seq \in Seqs : a = NewAddress(j, seq)

LEMMA Multiples ==
  ASSUME NEW a \in Nat, NEW b \in Nat, NEW k \in Nat, a < b
  PROVE  a * k + k <= b * k
<1>1. PICK d \in Nat : b = a + 1 + d
  <2>1. b - a - 1 \in Nat /\ b = a + 1 + (b - a - 1)
    OBVIOUS
  <2> QED BY <2>1
<1>2. b * k = a * k + k + d * k /\ d * k \in Nat /\ a * k \in Nat
  BY <1>1
<1> QED BY <1>2

\* Two transactions create no contract with the same address.
LEMMA NewAddressInjective ==
  ASSUME NEW i \in TxIDs, NEW j \in TxIDs, NEW s \in Seqs, NEW t \in Seqs,
         NewAddress(i, s) = NewAddress(j, t)
  PROVE  i = j
<1>1. i \in Nat /\ j \in Nat /\ s \in Nat /\ t \in Nat /\ MaxSeq \in Nat /\ NumContracts \in Nat
        /\ s < MaxSeq + 1 /\ t < MaxSeq + 1
  BY ConstantsAssumption DEF TxIDs, Seqs
<1>2. PICK k \in Nat : k = MaxSeq + 1
  BY <1>1
<1>3. i * k + s = j * k + t
  <2>1. NumContracts + 1 + i * k + s = NumContracts + 1 + j * k + t
    BY <1>2 DEF NewAddress
  <2>2. i * k \in Nat /\ j * k \in Nat
    BY <1>1, <1>2
  <2> QED BY <1>1, <2>1, <2>2
<1>4. i * k \in Nat /\ j * k \in Nat
  BY <1>1, <1>2
<1>5. ~(i < j)
  <2>1. SUFFICES ASSUME i < j PROVE FALSE
    OBVIOUS
  <2>2. i * k + k <= j * k
    BY <1>1, <1>2, <2>1, Multiples
  <2> QED BY <1>1, <1>2, <1>3, <1>4, <2>2
<1>6. ~(j < i)
  <2>1. SUFFICES ASSUME j < i PROVE FALSE
    OBVIOUS
  <2>2. j * k + k <= i * k
    BY <1>1, <1>2, <2>1, Multiples
  <2> QED BY <1>1, <1>2, <1>3, <1>4, <2>2
<1> QED BY <1>1, <1>5, <1>6

\* Another transaction cannot name the contract that i creates.
LEMMA CreatedIsNotOthers ==
  ASSUME NEW i \in TxIDs, NEW j \in TxIDs, j # i, NEW s \in Seqs
  PROVE  ~OwnAddress(j, NewAddress(i, s))
<1>1. NewAddress(i, s) \in Nat /\ NewAddress(i, s) > NumContracts /\ NumContracts \in Nat
  BY AddressTypes, ConstantsAssumption DEF Addresses, NoAddress
<1> QED BY <1>1, NewAddressInjective DEF OwnAddress

LEMMA DeployedIsOwn ==
  ASSUME NEW j, NEW a \in Contracts \cup {NoAddress}
  PROVE  OwnAddress(j, a)
BY ConstantsAssumption DEF Contracts, NoAddress, OwnAddress

FramesOwn(j, F) == \A n \in 1 .. Len(F) : OwnAddress(j, F[n].contract)

LEMMA OpenedOwn ==
  ASSUME NEW j, NEW F, FramesOK(F), FramesOwn(j, F), NEW m \in Message, OwnAddress(j, m.to)
  PROVE  FramesOwn(j, OpenedOn(F, m))
<1> DEFINE f == [seq |-> m.seq, contract |-> m.to]
<1>1. f \in Frame /\ f.contract = m.to
  BY DEF Message, Frame
<1> HIDE DEF f
<1>2. F \in Seq(Frame)
  BY DEF FramesOK
<1>3. FramesOwn(j, Append(F, f))
  <2>1. /\ Len(Append(F, f)) = Len(F) + 1 /\ Len(F) \in Nat
        /\ \A n \in 1 .. Len(F) : Append(F, f)[n] = F[n]
        /\ Append(F, f)[Len(F) + 1] = f
    BY <1>1, <1>2, AppendFacts
  <2>2. \A n \in 1 .. Len(F) + 1 : n \in 1 .. Len(F) \/ n = Len(F) + 1
    BY <2>1
  <2> QED BY <1>1, <2>1, <2>2 DEF FramesOwn
<1> QED BY <1>3 DEF OpenedOn, f

LEMMA FrontOwn ==
  ASSUME NEW j, NEW F \in Seq(Frame), F # <<>>, FramesOwn(j, F)
  PROVE  /\ FramesOwn(j, Front(F))
         /\ Front(F) # <<>> => OwnAddress(j, Last(Front(F)).contract)
<1>1. /\ Front(F) \in Seq(Frame) /\ Len(Front(F)) = Len(F) - 1 /\ Len(F) \in Nat \ {0}
      /\ \A n \in 1 .. Len(F) - 1 : Front(F)[n] = F[n]
  BY FrontFacts
<1>2. FramesOwn(j, Front(F))
  BY <1>1 DEF FramesOwn
<1>3. ASSUME Front(F) # <<>> PROVE OwnAddress(j, Last(Front(F)).contract)
  <2>1. PICK G : G = Front(F)
    OBVIOUS
  <2>2. Len(G) \in Nat \ {0} /\ Last(G) = G[Len(G)]
    BY <1>1, <1>3, <2>1, FrontFacts
  <2> QED BY <1>2, <2>1, <2>2 DEF FramesOwn
<1> QED BY <1>2, <1>3

-----------------------------------------------------------------------------
(* One transaction per contract.                                           *)

\* A transaction names only deployed contracts and those it created.
AddressInv ==
    /\ \A j \in Live : m_executiveStates[j].message # NoMessage =>
          /\ OwnAddress(j, m_executiveStates[j].message.to)
          /\ OwnAddress(j, m_executiveStates[j].message.from)
          /\ ~m_executiveStates[j].message.createSalt
    /\ \A j \in DOMAIN atExecutor : OwnAddress(j, atExecutor[j].to)
    /\ \A j \in TxIDs : FramesOwn(j, frames[j])
    /\ OneContextPerContract

\* What is sent goes to the address in the message, or to the contract that it creates.
LEMMA SendTarget ==
  ASSUME Inv, Inv', NEW i, Sends(i)
  PROVE  /\ i \in TxIDs /\ frames' = frames
         /\ atExecutor'[i].to = ResolveTo(i, m_executiveStates[i].message, atExecutor'[i].seq)
         /\ atExecutor'[i].seq \in Seqs
<1> DEFINE old == m_executiveStates[i]
<1>1. Visiting(i)
  BY DEF Sends, VisitRequest, VisitReturn, VisitRevertKeyLock, VisitAcquire, VisitSendBack
<1>2. i \in TxIDs /\ old \in ExecutiveState /\ old.message \in Message
  BY <1>1, Visited DEF Visiting, Current
<1>3. ASSUME NEW s1, NEW m1, Dispatch(i, s1, m1)
      PROVE  /\ frames' = frames /\ i \in DOMAIN atExecutor'
             /\ atExecutor'[i] = [m1 EXCEPT !.keyLocks = LockedKeys(i, m1)]
  BY <1>3 DEF Dispatch, With
<1>4. ASSUME i \in DOMAIN atExecutor'
      PROVE  atExecutor'[i].to # NoAddress /\ atExecutor'[i].seq \in Seqs
  BY <1>4 DEF Inv, FramesInv, SentOK, TypeOK, Message
<1>5. ASSUME NEW s1, NEW seq \in Seqs, NEW m1 \in Message, m1.seq = seq,
             m1.to = old.message.to \/ m1.to = ResolveTo(i, old.message, seq),
             Dispatch(i, s1, m1)
      PROVE  /\ frames' = frames
             /\ atExecutor'[i].to = ResolveTo(i, old.message, atExecutor'[i].seq)
             /\ atExecutor'[i].seq \in Seqs
  <2>1. /\ frames' = frames /\ i \in DOMAIN atExecutor'
        /\ atExecutor'[i] = [m1 EXCEPT !.keyLocks = LockedKeys(i, m1)]
    BY <1>3, <1>5
  <2>2. atExecutor'[i].to = m1.to /\ atExecutor'[i].seq = seq
    BY <1>5, <2>1 DEF Message
  <2>3. m1.to # NoAddress
    BY <1>4, <2>1, <2>2
  <2> QED BY <1>5, <2>1, <2>2, <2>3 DEF ResolveTo
<1>6. MsgOK(old, frames[i]) /\ FramesOK(frames[i])
  BY <1>1, Visited DEF Visiting, Current
<1>7. CASE VisitRequest(i)
  <2> DEFINE s1 == [old EXCEPT !.currentSeq = @ + 1, !.callStack = Append(@, NewSeq(old))]
             m1 == [old.message EXCEPT !.seq = NewSeq(old),
                                       !.to = ResolveTo(i, old.message, NewSeq(old))]
  <2>1. old.message.type \in RequestType /\ Dispatch(i, s1, m1)
    BY <1>7 DEF VisitRequest
  <2>2. m1 \in Message
    BY <1>2, <1>6, <2>1, RequestSent DEF Sendable
  <2>3. m1.seq = NewSeq(old) /\ m1.to = ResolveTo(i, old.message, NewSeq(old))
    BY <1>2 DEF Message
  <2> HIDE DEF s1, m1
  <2>4. PICK seq \in Seqs : seq = NewSeq(old)
    BY <2>2, <2>3 DEF Message
  <2> QED BY <1>2, <1>5, <2>1, <2>2, <2>3, <2>4
<1>8. CASE VisitReturn(i)
  <2> DEFINE s1 == [old EXCEPT !.callStack = Front(@)]
             m1 == [old.message EXCEPT !.seq = CallerSeq(old.callStack)]
  <2>1. /\ old.message.type \in ReturnType /\ Dispatch(i, s1, m1)
        /\ Len(old.callStack) # 1
    BY <1>8 DEF VisitReturn, IsLastFrame
  <2>2. m1 \in Message
    BY <1>2, <1>6, <2>1, ReturnSent DEF Sendable
  <2>3. m1.to = old.message.to
    BY <1>2 DEF Message
  <2> HIDE DEF s1, m1
  <2>4. m1.seq \in Seqs
    BY <2>2 DEF Message
  <2> QED BY <1>2, <1>5, <2>1, <2>2, <2>3, <2>4
<1>9. CASE VisitRevertKeyLock(i)
  <2> DEFINE m1 == [old.message EXCEPT !.type = "REVERT"]
  <2>1. Dispatch(i, old, m1)
    BY <1>9 DEF VisitRevertKeyLock
  <2>2. m1 \in Message /\ m1.to = old.message.to /\ m1.seq \in Seqs
    BY <1>2 DEF Message, MessageType, ReturnType
  <2> HIDE DEF m1
  <2> QED BY <1>2, <1>5, <2>1, <2>2
<1>10. CASE VisitAcquire(i)
  <2>1. Dispatch(i, old, old.message) /\ old.message.seq \in Seqs
    BY <1>2, <1>10 DEF VisitAcquire, Message
  <2> QED BY <1>2, <1>5, <2>1
<1>11. CASE VisitSendBack(i)
  <2> DEFINE m1 == [old.message EXCEPT !.type = TopType,
                                       !.to = ResolveTo(i, old.message, old.message.seq)]
  <2>1. old.message.type = "SEND_BACK" /\ Dispatch(i, old, m1) /\ old.message.seq \in Seqs
    BY <1>2, <1>11 DEF VisitSendBack, Message
  <2>2. m1 \in Message
    BY <1>2, <1>6, <2>1, SendBackSent DEF Sendable
  <2>3. m1.seq = old.message.seq /\ m1.to = ResolveTo(i, old.message, old.message.seq)
    BY <1>2 DEF Message
  <2> HIDE DEF m1
  <2> QED BY <1>2, <1>5, <2>1, <2>2, <2>3
<1> QED BY <1>2, <1>7, <1>8, <1>9, <1>10, <1>11 DEF Sends

LEMMA AddressSend ==
  ASSUME Inv, Inv', FreshInv, AddressInv, NEW i, Sends(i)
  PROVE  AddressInv'
<1>1. PICK s \in ExecutiveState, m \in Message : SendEffect(i, s, m)
  BY SendFacts
<1>2. /\ i \in todo /\ DOMAIN m_executiveStates' = Live /\ m_executiveStates'[i].message = NoMessage
      /\ \A j \in Live : j # i => m_executiveStates'[j] = m_executiveStates[j]
      /\ DOMAIN atExecutor' = DOMAIN atExecutor \cup {i} /\ atExecutor'[i] = m
      /\ \A j \in DOMAIN atExecutor : j # i => atExecutor'[j] = atExecutor[j]
      /\ phase = "send" /\ ~Skipped(i)
  BY <1>1 DEF SendEffect, OnlyState, Current
<1>3. /\ i \in Live /\ i \in TxIDs /\ m_executiveStates[i].message # NoMessage
      /\ i \notin DOMAIN atExecutor
  BY <1>2, Visited, NoMessageIsNone
<1> DEFINE old == m_executiveStates[i].message
<1>4. PICK seq \in Seqs : m.to = ResolveTo(i, old, seq)
  BY <1>2, SendTarget
<1>5. \/ m.to = old.to /\ old.to # NoAddress
      \/ m.to = NewAddress(i, seq)
  BY <1>3, <1>4 DEF ResolveTo, AddressInv
<1>6. OwnAddress(i, m.to)
  BY <1>3, <1>5 DEF AddressInv, OwnAddress
<1>7. ASSUME NEW j \in DOMAIN atExecutor PROVE atExecutor[j].to # m.to
  <2>1. CASE m.to = old.to /\ old.to # NoAddress
    BY <1>2, <2>1 DEF Skipped, FreshInv
  <2>2. CASE m.to = NewAddress(i, seq)
    <3>1. j \in TxIDs /\ j # i
      BY <1>3, BatchTypes
    <3> QED BY <1>3, <2>2, <3>1, CreatedIsNotOthers DEF AddressInv
  <2> QED BY <1>5, <2>1, <2>2
<1>8. OneContextPerContract'
  BY <1>2, <1>3, <1>7 DEF OneContextPerContract, AddressInv
<1>9. frames' = frames
  BY SendTarget
<1>10. \A j \in Live : m_executiveStates'[j].message # NoMessage =>
          /\ OwnAddress(j, m_executiveStates'[j].message.to)
          /\ OwnAddress(j, m_executiveStates'[j].message.from)
          /\ ~m_executiveStates'[j].message.createSalt
  BY <1>2 DEF AddressInv
<1>11. \A j \in DOMAIN atExecutor' : OwnAddress(j, atExecutor'[j].to)
  BY <1>2, <1>6 DEF AddressInv
<1> QED BY <1>2, <1>8, <1>9, <1>10, <1>11 DEF AddressInv, Live


\* An executor answers with the address of a deployed contract, of a frame or
\* of the contract that it works for.
LEMMA AnswerTarget ==
  ASSUME Inv, AddressInv, "CREATE2" \notin Replies, NEW i, Respond(i)
  PROVE  /\ \E r, errors :
               /\ ExecuteCallback(i, r, errors)
               /\ r # NoMessage =>
                     OwnAddress(i, r.to) /\ OwnAddress(i, r.from) /\ ~r.createSalt
         /\ FramesOwn(i, frames'[i])
         /\ \A j \in TxIDs : j # i => frames'[j] = frames[j]
<1> DEFINE m == atExecutor[i]
           F == frames[i]
<1>1. i \in DOMAIN atExecutor
  BY DEF Respond, RespondCall, RespondReturn, RespondKeyLock, RespondError
<1>2. /\ i \in TxIDs /\ m \in Message /\ OwnAddress(i, m.to) /\ FramesOwn(i, F) /\ FramesOK(F)
      /\ SentOK(m_executiveStates[i], m, F)
  BY <1>1, BatchTypes DEF Inv, FramesInv, TypeOK, AddressInv
<1>3. Opened(i, m) = OpenedOn(F, m)
  BY DEF Opened, OpenedOn
<1>4. /\ FramesOwn(i, Opened(i, m)) /\ Opened(i, m) \in Seq(Frame) /\ Opened(i, m) # <<>>
  BY <1>2, <1>3, OpenedOwn, OpenedFacts DEF SentOK, IsTop, FramesOK
<1>5. ASSUME NEW G, frames' = [frames EXCEPT ![i] = G], FramesOwn(i, G)
      PROVE  FramesOwn(i, frames'[i]) /\ \A j \in TxIDs : j # i => frames'[j] = frames[j]
  BY <1>2, <1>5 DEF Inv, TypeOK
<1>6. CASE RespondCall(i)
  <2>1. PICK callee \in Callees(m), locks \in Touched(m) :
           ExecuteCallback(i, Response(m, "MESSAGE", callee[1], callee[2], locks, NoKey), 0)
    BY <1>6 DEF RespondCall
  <2>2. callee[1] \in Contracts \cup {NoAddress} /\ ~callee[2]
    BY CalleeTypes
  <2> DEFINE r == Response(m, "MESSAGE", callee[1], callee[2], locks, NoKey)
  <2>3. r.to = callee[1] /\ r.from = m.to /\ ~r.createSalt
    BY <2>2 DEF Response
  <2>4. frames' = [frames EXCEPT ![i] = Opened(i, m)]
    BY <1>6 DEF RespondCall
  <2> HIDE DEF r
  <2>5. OwnAddress(i, r.to) /\ OwnAddress(i, r.from)
    BY <1>2, <2>2, <2>3, DeployedIsOwn
  <2> QED BY <1>4, <1>5, <2>1, <2>3, <2>4, <2>5 DEF r
<1>7. CASE RespondReturn(i)
  <2> DEFINE G == Front(Opened(i, m))
             to == IF G = <<>> THEN m.to ELSE Last(G).contract
             types == IF Aborted(m) THEN {"REVERT"} ELSE {"FINISHED"} \cup (Replies \cap {"REVERT"})
  <2>1. PICK type \in types : ExecuteCallback(i, Response(m, type, to, FALSE, {}, NoKey), 0)
    BY <1>7 DEF RespondReturn
  <2> DEFINE r == Response(m, type, to, FALSE, {}, NoKey)
  <2>2. r.to = to /\ r.from = m.to /\ ~r.createSalt
    BY DEF Response
  <2>3. frames' = [frames EXCEPT ![i] = G]
    BY <1>7 DEF RespondReturn
  <2>4. FramesOwn(i, G) /\ OwnAddress(i, to)
    BY <1>2, <1>4, FrontOwn
  <2> HIDE DEF r, G, to
  <2> QED BY <1>2, <1>5, <2>1, <2>2, <2>3, <2>4 DEF r
<1>8. CASE RespondKeyLock(i)
  <2>1. PICK key \in m.keyLocks, locks \in Touched(m) :
           ExecuteCallback(i, Response(m, "KEY_LOCK", m.to, FALSE, locks, key), 0)
    BY <1>8 DEF RespondKeyLock
  <2> DEFINE r == Response(m, "KEY_LOCK", m.to, FALSE, locks, key)
  <2>2. r.to = m.to /\ r.from = m.to /\ ~r.createSalt
    BY DEF Response
  <2>3. frames' = [frames EXCEPT ![i] = Opened(i, m)]
    BY <1>8 DEF RespondKeyLock
  <2> HIDE DEF r
  <2> QED BY <1>2, <1>4, <1>5, <2>1, <2>2, <2>3 DEF r
<1>9. CASE RespondError(i)
  BY <1>2, <1>9 DEF RespondError
<1> QED BY <1>6, <1>7, <1>8, <1>9 DEF Respond

LEMMA AddressAnswer ==
  ASSUME Inv, AddressInv, "CREATE2" \notin Replies, NEW i, Respond(i)
  PROVE  AddressInv'
<1>1. PICK r, errors : /\ ExecuteCallback(i, r, errors)
                       /\ r # NoMessage =>
                             OwnAddress(i, r.to) /\ OwnAddress(i, r.from) /\ ~r.createSalt
  BY AnswerTarget
<1>2. i \in DOMAIN atExecutor
  BY DEF Respond, RespondCall, RespondReturn, RespondKeyLock, RespondError
<1>3. i \in Live /\ m_executiveStates[i] \in ExecutiveState
  BY <1>2, WalkDomains
<1>4. /\ DOMAIN m_executiveStates' = Live /\ m_executiveStates'[i].message = r
      /\ \A j \in Live : j # i => m_executiveStates'[j] = m_executiveStates[j]
  BY <1>1, <1>3 DEF ExecuteCallback, Live, ExecutiveState
<1>5. /\ DOMAIN atExecutor' = DOMAIN atExecutor \ {i}
      /\ \A j \in DOMAIN atExecutor : j # i => atExecutor'[j] = atExecutor[j]
  BY <1>1 DEF ExecuteCallback, Without, Restrict
<1>6. \A j \in TxIDs : FramesOwn(j, frames'[j])
  <2>1. FramesOwn(i, frames'[i]) /\ \A j \in TxIDs : j # i => frames'[j] = frames[j]
    BY AnswerTarget
  <2> QED BY <2>1 DEF AddressInv
<1>7. OneContextPerContract'
  BY <1>5 DEF OneContextPerContract, AddressInv
<1>8. \A j \in Live : m_executiveStates'[j].message # NoMessage =>
          /\ OwnAddress(j, m_executiveStates'[j].message.to)
          /\ OwnAddress(j, m_executiveStates'[j].message.from)
          /\ ~m_executiveStates'[j].message.createSalt
  BY <1>1, <1>4 DEF AddressInv
<1>9. \A j \in DOMAIN atExecutor' : OwnAddress(j, atExecutor'[j].to)
  BY <1>5 DEF AddressInv
<1> QED BY <1>4, <1>6, <1>7, <1>8, <1>9 DEF AddressInv, Live

\* The other steps name no new address.
LEMMA AddressSame ==
  ASSUME AddressInv, atExecutor' = atExecutor, frames' = frames,
         \A j \in DOMAIN m_executiveStates' :
            /\ j \in Live
            /\ \/ m_executiveStates'[j].message = m_executiveStates[j].message
               \/ /\ m_executiveStates[j].message # NoMessage
                  /\ m_executiveStates'[j].message.to = m_executiveStates[j].message.to
                  /\ m_executiveStates'[j].message.from = m_executiveStates[j].message.from
                  /\ m_executiveStates'[j].message.createSalt
                       = m_executiveStates[j].message.createSalt
  PROVE  AddressInv'
<1>1. OneContextPerContract'
  BY DEF OneContextPerContract, AddressInv
<1>2. \A j \in DOMAIN m_executiveStates' : m_executiveStates'[j].message # NoMessage =>
          /\ OwnAddress(j, m_executiveStates'[j].message.to)
          /\ OwnAddress(j, m_executiveStates'[j].message.from)
          /\ ~m_executiveStates'[j].message.createSalt
  BY DEF AddressInv
<1> QED BY <1>1, <1>2 DEF AddressInv, Live

LEMMA SameWorkAddress ==
  ASSUME AddressInv, SameWork, atExecutor' = atExecutor, frames' = frames
  PROVE  AddressInv'
BY AddressSame DEF SameWork

LEMMA AddressStepInv ==
  ASSUME Inv, Inv', WalkInv, FreshInv, AddressInv, "CREATE2" \notin Replies, Next \/ UNCHANGED vars
  PROVE  AddressInv'
<1>1. ASSUME NEW i, VisitSkip(i) PROVE AddressInv'
  <2>1. SameWork /\ atExecutor' = atExecutor /\ frames' = frames
    BY <1>1, SkipMarks DEF SameWork, VisitSkip, executorVars
  <2> QED BY <2>1, SameWorkAddress
<1>2. ASSUME NEW i, VisitFinish(i) PROVE AddressInv'
  <2>1. atExecutor' = atExecutor /\ frames' = frames
    BY <1>2 DEF VisitFinish, executorVars
  <2>2. \A j \in DOMAIN m_executiveStates' :
           j \in Live /\ m_executiveStates'[j].message = m_executiveStates[j].message
    BY <1>2, FinishMarks
  <2> QED BY <2>1, <2>2, AddressSame
<1>3. ASSUME NEW i, VisitVictim(i) PROVE AddressInv'
  <2>1. /\ phase = "deadlock" /\ i \in todo /\ atExecutor' = atExecutor /\ frames' = frames
    BY <1>3 DEF VisitVictim, Current, executorVars
  <2>2. /\ i \in Live /\ m_executiveStates[i] \in ExecutiveState
        /\ m_executiveStates[i].message \in Message
    BY <2>1, Visited
  <2>3. "REVERT_KEY_LOCK" \in MessageType
    BY DEF MessageType
  <2>4. PICK s \in ExecutiveState, m \in Message :
            /\ OnlyState(i, s) /\ s.message = m
            /\ m = [m_executiveStates[i].message EXCEPT !.type = "REVERT_KEY_LOCK"]
    BY <1>3, <2>2, <2>3, SetType DEF VisitVictim
  <2>5. /\ m.to = m_executiveStates[i].message.to /\ m.from = m_executiveStates[i].message.from
        /\ m.createSalt = m_executiveStates[i].message.createSalt
        /\ m_executiveStates[i].message # NoMessage
    BY <2>2, <2>4, NoMessageIsNone DEF Message
  <2>6. /\ DOMAIN m_executiveStates' = Live /\ m_executiveStates'[i].message = m
        /\ \A j \in Live : j # i => m_executiveStates'[j] = m_executiveStates[j]
    BY <2>4 DEF OnlyState
  <2> QED BY <2>1, <2>5, <2>6, AddressSame
<1>4. ASSUME NEW i, UpdateSkipped(i) PROVE AddressInv'
  BY <1>4, SkippedFresh, SameWorkAddress DEF UpdateSkipped, executorVars
<1>5. ASSUME NEW i, UpdateAcquire(i) \/ UpdateRelease(i) PROVE AddressInv'
  <2>1. SameWork
    BY <1>5, UpdateMarks DEF UpdateAcquire, UpdateRelease
  <2> QED BY <1>5, <2>1, SameWorkAddress DEF UpdateAcquire, UpdateRelease, executorVars
<1>6. ASSUME m_executiveStates' = m_executiveStates, atExecutor' = atExecutor, frames' = frames
      PROVE  AddressInv'
  BY <1>6, AddressSame DEF Live
<1>7. ASSUME NEW i, VisitWait(i) \/ VisitNoVictim(i) \/ UpdateThrows(i) PROVE AddressInv'
  BY <1>6, <1>7 DEF VisitWait, VisitNoVictim, UpdateThrows, executorVars
<1>8. ASSUME NEW i, Visit(i) PROVE AddressInv'
  BY <1>1, <1>2, <1>3, <1>4, <1>5, <1>7, <1>8, AddressSend DEF Visit, Sends
<1>9. CASE EndSend \/ CheckNotReady \/ CheckBatch \/ BatchCallback \/ UNCHANGED vars
  BY <1>6, <1>9 DEF EndSend, CheckNotReady, CheckBatch, BatchCallback, vars, executorVars
<1> QED BY <1>8, <1>9, AddressAnswer DEF Next, Scheduler, Ended

LEMMA AddressInit ==
  ASSUME Init
  PROVE  AddressInv
<1>1. PICK to \in [TxIDs -> Contracts \cup {NoAddress}], dag \in [TxIDs -> DAGResults] :
         m_executiveStates = [i \in TxIDs |-> FirstState(dag[i], to[i])]
  BY DEF Init
<1>2. DOMAIN atExecutor = {} /\ frames = [i \in TxIDs |-> <<>>]
  BY DEF Init
<1>3. \A j \in Live : /\ OwnAddress(j, m_executiveStates[j].message.to)
                      /\ OwnAddress(j, m_executiveStates[j].message.from)
                      /\ ~m_executiveStates[j].message.createSalt
  <2>1. ASSUME NEW j \in Live
        PROVE  /\ m_executiveStates[j].message.to = to[j] /\ to[j] \in Contracts \cup {NoAddress}
               /\ m_executiveStates[j].message.from = NoAddress
               /\ ~m_executiveStates[j].message.createSalt
    BY <1>1 DEF FirstState, FirstMessage, Live
  <2> QED BY <2>1, DeployedIsOwn
<1>4. \A j \in TxIDs : FramesOwn(j, frames[j])
  BY <1>2, EmptySeq DEF FramesOwn
<1> QED BY <1>2, <1>3, <1>4 DEF AddressInv, OneContextPerContract

LEMMA AddressInvHolds == "CREATE2" \notin Replies => (Spec => []AddressInv)
<1>1. Init => AddressInv
  BY AddressInit
<1>2. SUFFICES ASSUME "CREATE2" \notin Replies PROVE Spec => []AddressInv
  OBVIOUS
<1>3. Inv /\ Inv' /\ WalkInv /\ FreshInv /\ AddressInv /\ [Next]_vars => AddressInv'
  BY <1>2, AddressStepInv
<1> QED BY <1>1, <1>3, InvHolds, WalkInvHolds, FreshInvHolds, PTL DEF Spec

\* As long as no contract is created with a salt, two transactions are never at
\* the same contract: a deployed one is in calledContract from the first
\* message on, and no other transaction can name one that is being created.
THEOREM OneTransactionPerContract ==
    "CREATE2" \notin Replies => (Spec => []OneContextPerContract)
<1>1. AddressInv => OneContextPerContract
  BY DEF AddressInv
<1>2. SUFFICES ASSUME "CREATE2" \notin Replies PROVE Spec => []OneContextPerContract
  OBVIOUS
<1> QED BY <1>1, <1>2, AddressInvHolds, PTL


-----------------------------------------------------------------------------
(* Locks that are taken after the batch.  Executors report the keys that   *)
(* they touched, and the walk after the batch acquires them: in between    *)
(* nobody else may get them.                                               *)

Owns(j, lock) == \E e \in own : e.lock = lock /\ e.ctx = j

Reports(j) == m_executiveStates[j].message.type \in {"MESSAGE", "KEY_LOCK"}

\* Transaction j is at an executor or reported a key that it does not own yet.
Unsettled(j) ==
    \/ j \in DOMAIN atExecutor
    \/ /\ Reports(j)
       /\ \E key \in m_executiveStates[j].message.keyLocks :
             ~Owns(j, <<m_executiveStates[j].message.from, key>>)

\* The contract whose keys it touches or touched.
Place(j) ==
    IF j \in DOMAIN atExecutor THEN atExecutor[j].to ELSE m_executiveStates[j].message.from

\* Unsettled transactions are at different contracts, called in this batch, and
\* no other transaction owns what they reported.
SettleInv ==
    /\ \A j \in Live : Unsettled(j) => Fresh(j) /\ Place(j) \in calledContract
    /\ \A i, j \in Live : Unsettled(i) /\ Unsettled(j) /\ Place(i) = Place(j) => i = j
    /\ \A j \in Live : j \notin DOMAIN atExecutor /\ Unsettled(j) =>
          \A key \in m_executiveStates[j].message.keyLocks :
             ~m_keyLocks!HeldByOther(<<m_executiveStates[j].message.from, key>>, j)

Working == phase \in {"send", "wait", "deadlock", "locks"}

NoThrowInv == phase # "thrown" /\ (Working => SettleInv)

LEMMA UnsettledWas ==
  ASSUME NEW j, m_executiveStates'[j].message = m_executiveStates[j].message,
         j \in DOMAIN atExecutor' => j \in DOMAIN atExecutor,
         Reports(j) => \A e \in own : e.ctx = j => e \in own',
         Unsettled(j)'
  PROVE  Unsettled(j)
<1>1. CASE j \in DOMAIN atExecutor
  BY <1>1 DEF Unsettled
<1>2. CASE j \notin DOMAIN atExecutor
  <2>1. Reports(j)
    BY <1>2 DEF Unsettled, Reports
  <2>2. \A lock : Owns(j, lock) => Owns(j, lock)'
    BY <2>1 DEF Owns
  <2>3. PICK key \in m_executiveStates'[j].message.keyLocks :
           ~(\E e \in own' : e.lock = <<m_executiveStates'[j].message.from, key>> /\ e.ctx = j)
    BY <1>2 DEF Unsettled, Owns
  <2>4. ~Owns(j, <<m_executiveStates[j].message.from, key>>)
    BY <2>2, <2>3 DEF Owns
  <2> QED BY <2>1, <2>3, <2>4 DEF Unsettled
<1> QED BY <1>1, <1>2

LEMMA SettleSame ==
  ASSUME SettleInv, atExecutor' = atExecutor, calledContract' = calledContract,
         \A j \in DOMAIN m_executiveStates' :
            /\ j \in Live /\ m_executiveStates'[j].message = m_executiveStates[j].message
            /\ Unsettled(j) /\ Fresh(j) => Fresh(j)'
            /\ Reports(j) => \A e \in own : e.ctx = j => e \in own',
         \A e \in own' : e \in own
  PROVE  SettleInv'
<1>1. ASSUME NEW j \in DOMAIN m_executiveStates', Unsettled(j)' PROVE Unsettled(j)
  BY <1>1, UnsettledWas
<1>2. \A j \in DOMAIN m_executiveStates' : Place(j)' = Place(j)
  BY DEF Place
<1>3. \A j, lock : m_keyLocks!HeldByOther(lock, j)' => m_keyLocks!HeldByOther(lock, j)
  BY DEF m_keyLocks!HeldByOther
<1>4. \A j \in DOMAIN m_executiveStates' : Unsettled(j)' => Fresh(j)' /\ Place(j)' \in calledContract'
  BY <1>1, <1>2 DEF SettleInv
<1>5. \A i, j \in DOMAIN m_executiveStates' :
         Unsettled(i)' /\ Unsettled(j)' /\ Place(i)' = Place(j)' => i = j
  BY <1>1, <1>2 DEF SettleInv
<1>6. ASSUME NEW j \in DOMAIN m_executiveStates', j \notin DOMAIN atExecutor', Unsettled(j)',
             NEW key \in m_executiveStates'[j].message.keyLocks, NEW from,
             from = m_executiveStates'[j].message.from
      PROVE  ~m_keyLocks!HeldByOther(<<from, key>>, j)'
  BY <1>1, <1>3, <1>6 DEF SettleInv
<1> QED BY <1>4, <1>5, <1>6 DEF SettleInv, Live, m_keyLocks!HeldByOther


\* A transaction names only its own addresses, so it is at one of them.
LEMMA PlaceIsOwn ==
  ASSUME Inv, AddressInv, NEW j \in Live, Unsettled(j)
  PROVE  OwnAddress(j, Place(j))
<1>1. CASE j \in DOMAIN atExecutor
  BY <1>1 DEF AddressInv, Place
<1>2. CASE j \notin DOMAIN atExecutor
  <2>1. m_executiveStates[j].message # NoMessage
    BY <1>2, NoMessageIsNone DEF Unsettled, Reports
  <2> QED BY <1>2, <2>1 DEF AddressInv, Place
<1> QED BY <1>1, <1>2

LEMMA SettleSend ==
  ASSUME Inv, Inv', WalkInv, FreshInv, AddressInv, SettleInv, NEW i, Sends(i)
  PROVE  SettleInv'
<1>1. PICK s \in ExecutiveState, m \in Message : SendEffect(i, s, m) /\ SendKinds(i, s, m)
  BY SendFacts
<1>2. /\ i \in todo /\ DOMAIN m_executiveStates' = Live
      /\ \A j \in Live : j # i => m_executiveStates'[j] = m_executiveStates[j]
      /\ DOMAIN atExecutor' = DOMAIN atExecutor \cup {i} /\ atExecutor'[i] = m
      /\ \A j \in DOMAIN atExecutor : j # i => atExecutor'[j] = atExecutor[j]
      /\ calledContract' = calledContract \cup {m.to}
      /\ phase = "send" /\ ~Skipped(i)
  BY <1>1 DEF SendEffect, OnlyState, Current
<1> DEFINE old == m_executiveStates[i].message
<1>3. /\ i \in Live /\ i \in TxIDs /\ old # NoMessage /\ i \notin DOMAIN atExecutor
  BY <1>2, Visited, NoMessageIsNone
<1>4. PICK seq \in Seqs : m.to = ResolveTo(i, old, seq)
  BY <1>2, SendTarget
<1>5. \/ m.to = old.to /\ old.to # NoAddress
      \/ m.to = NewAddress(i, seq)
  BY <1>3, <1>4 DEF ResolveTo, AddressInv
<1>6. ASSUME NEW j \in Live, j # i, Unsettled(j) PROVE Place(j) # m.to
  <2>1. CASE m.to = old.to /\ old.to # NoAddress
    BY <1>2, <1>6, <2>1 DEF Skipped, SettleInv
  <2>2. CASE m.to = NewAddress(i, seq)
    <3>1. j \in TxIDs
      BY BatchTypes
    <3>2. OwnAddress(j, Place(j))
      BY <1>6, PlaceIsOwn
    <3> QED BY <1>3, <1>6, <2>2, <3>1, <3>2, CreatedIsNotOthers
  <2> QED BY <1>5, <2>1, <2>2
<1>7. \E edge : /\ \A e \in own' : e \in own \/ e = edge
                /\ \A e \in own : e \in own'
                /\ edge.lock[1] = m.to
  <2>1. CASE lockVars' = lockVars
    <3>1. PICK edge : edge = [lock |-> <<m.to, NoKey>>]
      OBVIOUS
    <3> QED BY <2>1, <3>1 DEF lockVars
  <2>2. CASE /\ m.to = old.from
             /\ m_keyLocks!AcquireOwns(old.from, old.keyLockAcquired, i, old.seq)
    <3> DEFINE edge == m_keyLocks!EdgeOf(<<old.from, old.keyLockAcquired>>, i, old.seq)
    <3>1. own' = own \cup {edge}
      BY <2>2 DEF m_keyLocks!AcquireOwns
    <3>2. edge.lock = <<old.from, old.keyLockAcquired>>
      BY DEF m_keyLocks!EdgeOf
    <3> HIDE DEF edge
    <3> QED BY <2>2, <3>1, <3>2
  <2> QED BY <1>1, <2>1, <2>2 DEF SendKinds
<1>8. PICK edge : /\ \A e \in own' : e \in own \/ e = edge
                  /\ \A e \in own : e \in own'
                  /\ edge.lock[1] = m.to
  BY <1>7
<1>9. ASSUME NEW j \in Live, j # i, Unsettled(j)' PROVE Unsettled(j)
  BY <1>2, <1>8, <1>9, UnsettledWas
<1>10. Place(i)' = m.to /\ \A j \in Live : j # i => Place(j)' = Place(j)
  BY <1>2 DEF Place
<1>11. \A j \in Live : Unsettled(j)' => Fresh(j)' /\ Place(j)' \in calledContract'
  BY <1>1, <1>2, <1>9, <1>10, SendFresh DEF SettleInv
<1>12. \A j, k \in Live : Unsettled(j)' /\ Unsettled(k)' /\ Place(j)' = Place(k)' => j = k
  BY <1>6, <1>9, <1>10 DEF SettleInv
<1>13. ASSUME NEW j \in Live, j \notin DOMAIN atExecutor', Unsettled(j)',
              NEW key \in m_executiveStates'[j].message.keyLocks, NEW from,
              from = m_executiveStates'[j].message.from
       PROVE  ~m_keyLocks!HeldByOther(<<from, key>>, j)'
  <2>1. j # i /\ Unsettled(j) /\ j \notin DOMAIN atExecutor
    BY <1>2, <1>9, <1>13
  <2>2. from = Place(j) /\ ~m_keyLocks!HeldByOther(<<from, key>>, j)
    BY <1>2, <1>13, <2>1 DEF Place, SettleInv
  <2>3. edge.lock # <<from, key>>
    BY <1>6, <1>8, <2>1, <2>2
  <2> QED BY <1>8, <2>2, <2>3 DEF m_keyLocks!HeldByOther
<1> QED BY <1>2, <1>11, <1>12, <1>13 DEF SettleInv, Live, m_keyLocks!HeldByOther

LEMMA SettleAnswer ==
  ASSUME Inv, WalkInv, FreshInv, SettleInv, Honest, NEW i, Respond(i)
  PROVE  SettleInv'
<1>1. PICK s \in ExecutiveState, r \in Message \cup {NoMessage} :
         AnswerEffect(i, s, r) /\ AnswerKinds(r, atExecutor[i])
  BY AnswerFacts
<1>2. /\ i \in DOMAIN atExecutor /\ DOMAIN m_executiveStates' = Live
      /\ m_executiveStates'[i].message = r
      /\ \A j \in Live : j # i => m_executiveStates'[j] = m_executiveStates[j]
      /\ DOMAIN atExecutor' = DOMAIN atExecutor \ {i}
      /\ \A j \in DOMAIN atExecutor : j # i => atExecutor'[j] = atExecutor[j]
      /\ calledContract' = calledContract /\ own' = own
  BY <1>1 DEF AnswerEffect, OnlyState, lockVars
<1>3. i \in Live /\ atExecutor[i] \in Message
  BY <1>2, WalkDomains DEF Inv, TypeOK
<1>4. ASSUME Unsettled(i)'
      PROVE  /\ r.from = atExecutor[i].to /\ r.keyLocks \in Touched(atExecutor[i])
             /\ Place(i)' = Place(i)
  <2>1. r.type \in {"MESSAGE", "KEY_LOCK"}
    BY <1>2, <1>4 DEF Unsettled, Reports
  <2>2. r.from = atExecutor[i].to /\ r.keyLocks \in Touched(atExecutor[i])
    BY <1>1, <2>1, NoMessageIsNone DEF AnswerKinds, ReturnType
  <2> QED BY <1>2, <2>2 DEF Place
<1>5. ASSUME NEW j \in Live, j # i, Unsettled(j)' PROVE Unsettled(j)
  BY <1>2, <1>5, UnsettledWas
<1>6. \A j \in Live : j # i => Place(j)' = Place(j)
  BY <1>2 DEF Place
<1>7. Unsettled(i)
  BY <1>2 DEF Unsettled
<1>8. \A j \in Live : Unsettled(j)' => Fresh(j)' /\ Place(j)' \in calledContract'
  BY <1>1, <1>2, <1>4, <1>5, <1>6, <1>7, AnswerFresh DEF SettleInv
<1>9. \A j, k \in Live : Unsettled(j)' /\ Unsettled(k)' /\ Place(j)' = Place(k)' => j = k
  BY <1>4, <1>5, <1>6, <1>7 DEF SettleInv
<1>10. ASSUME NEW j \in Live, j \notin DOMAIN atExecutor', Unsettled(j)',
              NEW key \in m_executiveStates'[j].message.keyLocks, NEW from,
              from = m_executiveStates'[j].message.from
       PROVE  ~m_keyLocks!HeldByOther(<<from, key>>, j)'
  <2>1. CASE j # i
    BY <1>2, <1>5, <1>10, <2>1 DEF SettleInv, m_keyLocks!HeldByOther
  <2>2. CASE j = i
    <3>1. from = atExecutor[i].to /\ key \in Keys /\ key \notin atExecutor[i].keyLocks
      BY <1>2, <1>4, <1>10, <2>2 DEF Touched
    <3>2. ~m_keyLocks!HeldByOther(<<from, key>>, i)
      BY <1>2, <3>1 DEF FreshInv
    <3> QED BY <1>2, <2>2, <3>2 DEF m_keyLocks!HeldByOther
  <2> QED BY <2>1, <2>2
<1> QED BY <1>2, <1>8, <1>9, <1>10 DEF SettleInv, Live, m_keyLocks!HeldByOther


LEMMA SettleVictim ==
  ASSUME Inv, SettleInv, NEW i, VisitVictim(i)
  PROVE  SettleInv'
<1>1. /\ phase = "deadlock" /\ i \in todo /\ atExecutor' = atExecutor /\ own' = own
  BY DEF VisitVictim, Current, executorVars, lockVars
<1>2. /\ i \in Live /\ m_executiveStates[i] \in ExecutiveState
      /\ m_executiveStates[i].message \in Message
  BY <1>1, Visited
<1>3. "REVERT_KEY_LOCK" \in MessageType
  BY DEF MessageType
<1>4. PICK s \in ExecutiveState, m \in Message :
            /\ OnlyState(i, s) /\ s.message = m
            /\ m = [m_executiveStates[i].message EXCEPT !.type = "REVERT_KEY_LOCK"]
  BY <1>2, <1>3, SetType DEF VisitVictim
<1>5. m.type = "REVERT_KEY_LOCK"
  BY <1>2, <1>4 DEF Message
<1>6. /\ DOMAIN m_executiveStates' = Live /\ m_executiveStates'[i].message = m
      /\ \A j \in Live : j # i => m_executiveStates'[j] = m_executiveStates[j]
  BY <1>4 DEF OnlyState
<1>7. \A j \in Live : ~Unsettled(j)
  BY <1>1 DEF SettleInv, Fresh
<1>8. DOMAIN atExecutor' = {}
  BY <1>1, WalkDomains
<1>9. \A j \in Live : ~Unsettled(j)'
  <2>1. ~Unsettled(i)'
    BY <1>5, <1>6, <1>8 DEF Unsettled, Reports
  <2>2. ASSUME NEW j \in Live, j # i PROVE ~Unsettled(j)'
    BY <1>1, <1>6, <1>7, <2>2, UnsettledWas
  <2> QED BY <2>1, <2>2
<1> QED BY <1>6, <1>9 DEF SettleInv, Live

\* A reported lock is free or owned already when the walk comes to acquire it.
LEMMA ReportedIsFree ==
  ASSUME Inv, SettleInv, NEW i \in Live, i \notin DOMAIN atExecutor, Reports(i),
         NEW key \in m_executiveStates[i].message.keyLocks
  PROVE  ~m_keyLocks!HeldByOther(<<m_executiveStates[i].message.from, key>>, i)
<1>1. CASE Unsettled(i)
  BY <1>1 DEF SettleInv
<1>2. CASE ~Unsettled(i)
  <2>1. Owns(i, <<m_executiveStates[i].message.from, key>>)
    BY <1>2 DEF Unsettled
  <2> QED BY <2>1 DEF Inv, m_keyLocks!KeyLockInv, m_keyLocks!MutualExclusion, Owns,
                      m_keyLocks!HeldByOther
<1> QED BY <1>1, <1>2

LEMMA SettleAcquire ==
  ASSUME Inv, SettleInv, m_startContextID = 0, NEW i, UpdateAcquire(i)
  PROVE  SettleInv'
<1> DEFINE m == m_executiveStates[i].message
           edges == {m_keyLocks!EdgeOf(lock, MessageContextID(i), m.seq) :
                       lock \in m_keyLocks!LocksOf(m.from, m.keyLocks)}
<1>1. /\ Updating(i) /\ m.type \in {"MESSAGE", "KEY_LOCK"} /\ todo' = todo \ {i}
      /\ Update(i) \/ UNCHANGED m_executiveStates
      /\ m_keyLocks!BatchAcquireOwns(m.from, m.keyLocks, MessageContextID(i), m.seq)
      /\ atExecutor' = atExecutor /\ phase' = phase /\ calledContract' = calledContract
  BY DEF UpdateAcquire, executorVars, batchVars
<1>2. /\ phase = "locks" /\ i \in Live /\ SameWork
      /\ \A j \in Live : j # i /\ Covered(j)' => Covered(j)
  BY <1>1, UpdateMarks
<1>3. own' = own \cup edges
  BY <1>1 DEF m_keyLocks!BatchAcquireOwns
<1>4. MessageContextID(i) = i
  <2>1. i \in TxIDs
    BY <1>2, BatchTypes
  <2> QED BY <2>1, ConstantsAssumption DEF MessageContextID, TxIDs
<1>5. /\ \A e \in edges : e.ctx = i /\ \E key \in m.keyLocks : e.lock = <<m.from, key>>
      /\ \A key \in m.keyLocks : \E e \in edges : e.ctx = i /\ e.lock = <<m.from, key>>
  <2>1. \A lock : /\ m_keyLocks!EdgeOf(lock, i, m.seq).ctx = i
                  /\ m_keyLocks!EdgeOf(lock, i, m.seq).lock = lock
    BY DEF m_keyLocks!EdgeOf
  <2> QED BY <1>4, <2>1 DEF m_keyLocks!LocksOf
<1> HIDE DEF edges
<1>6. DOMAIN atExecutor = {} /\ DOMAIN atExecutor' = {}
  BY <1>1, <1>2, WalkDomains
<1>7. \A j \in Live : m_executiveStates'[j].message = m_executiveStates[j].message
  BY <1>2 DEF SameWork
<1>8. ~Unsettled(i)'
  BY <1>2, <1>3, <1>5, <1>6, <1>7 DEF Unsettled, Owns
<1>9. ASSUME NEW j \in Live, Unsettled(j)' PROVE j # i /\ Unsettled(j)
  BY <1>1, <1>3, <1>7, <1>8, <1>9, UnsettledWas
<1>10. \A j \in Live : Place(j)' = Place(j)
  BY <1>6, <1>7 DEF Place
<1>11. \A j \in Live : Unsettled(j)' => Fresh(j)' /\ Place(j)' \in calledContract'
  <2>1. ASSUME NEW j \in Live, j # i, Fresh(j) PROVE Fresh(j)'
    BY <1>1, <1>2, <2>1 DEF Fresh
  <2> QED BY <1>1, <1>9, <1>10, <2>1 DEF SettleInv
<1>12. \A j, k \in Live : Unsettled(j)' /\ Unsettled(k)' /\ Place(j)' = Place(k)' => j = k
  BY <1>9, <1>10 DEF SettleInv
<1>13. ASSUME NEW j \in Live, Unsettled(j)', NEW key \in m_executiveStates'[j].message.keyLocks,
              NEW from, from = m_executiveStates'[j].message.from
       PROVE  ~m_keyLocks!HeldByOther(<<from, key>>, j)'
  <2>1. /\ j # i /\ Unsettled(j) /\ key \in m_executiveStates[j].message.keyLocks
        /\ from = m_executiveStates[j].message.from
    BY <1>7, <1>9, <1>13
  <2>2. ~m_keyLocks!HeldByOther(<<from, key>>, j)
    BY <1>6, <2>1 DEF SettleInv
  <2>3. ASSUME NEW e \in edges, e.lock = <<from, key>> PROVE FALSE
    <3>1. m.from = from /\ key \in m.keyLocks
      BY <1>5, <2>3
    <3>2. ~Owns(i, <<m.from, key>>)
      BY <2>1, <2>2, <3>1 DEF Owns, m_keyLocks!HeldByOther
    <3>3. Unsettled(i)
      BY <1>1, <3>1, <3>2 DEF Unsettled, Reports
    <3>4. Place(i) = Place(j)
      BY <1>6, <2>1, <3>1 DEF Place
    <3> QED BY <1>2, <2>1, <3>3, <3>4 DEF SettleInv
  <2> QED BY <1>3, <2>2, <2>3 DEF m_keyLocks!HeldByOther
<1> QED BY <1>2, <1>11, <1>12, <1>13 DEF SettleInv, Live, SameWork, m_keyLocks!HeldByOther

LEMMA NeverThrows ==
  ASSUME Inv, SettleInv, m_startContextID = 0, NEW i, UpdateThrows(i)
  PROVE  FALSE
<1> DEFINE m == m_executiveStates[i].message
<1>1. /\ phase = "locks" /\ i \in todo /\ m.type \in {"MESSAGE", "KEY_LOCK"}
      /\ m_keyLocks!BatchAcquireThrows(m.from, m.keyLocks, MessageContextID(i), m.seq)
  BY DEF UpdateThrows, Updating, Current
<1>2. i \in Live /\ i \in TxIDs /\ i \notin DOMAIN atExecutor
  BY <1>1, Visited
<1>3. MessageContextID(i) = i
  BY <1>2, ConstantsAssumption DEF MessageContextID, TxIDs
<1>4. PICK key \in m.keyLocks : m_keyLocks!HeldByOther(<<m.from, key>>, i)
  BY <1>1, <1>3 DEF m_keyLocks!BatchAcquireThrows
<1>5. Reports(i)
  BY <1>1 DEF Reports
<1> QED BY <1>2, <1>4, <1>5, ReportedIsFree


LEMMA SettleVisit ==
  ASSUME Inv, WalkInv, SettleInv, Working, m_startContextID = 0, NEW i,
         \/ VisitSkip(i) \/ VisitFinish(i) \/ VisitWait(i) \/ VisitNoVictim(i)
         \/ UpdateSkipped(i) \/ UpdateRelease(i)
  PROVE  SettleInv' /\ phase' = phase
<1>1. phase' = phase /\ atExecutor' = atExecutor /\ calledContract' = calledContract
  BY DEF VisitSkip, VisitFinish, VisitWait, VisitNoVictim, UpdateSkipped, UpdateRelease,
         batchVars, executorVars
<1>2. CASE VisitSkip(i)
  <2>1. own' = own
    BY <1>2 DEF VisitSkip, lockVars
  <2>2. /\ DOMAIN m_executiveStates' = Live
        /\ \A j \in Live : m_executiveStates'[j].message = m_executiveStates[j].message
    BY <1>2, SkipMarks
  <2>3. batchStatus' = batchStatus /\ todo' \in SUBSET todo
    BY <1>2 DEF VisitSkip, batchVars
  <2>4. \A j \in Live : Fresh(j) => Fresh(j)'
    BY <1>1, <1>2, <2>3, SkipMarks DEF Fresh
  <2> QED BY <1>1, <2>1, <2>2, <2>4, SettleSame
<1>3. CASE VisitFinish(i)
  <2>1. own' = own /\ batchStatus' = batchStatus
    BY <1>3 DEF VisitFinish, lockVars, batchVars
  <2>2. /\ DOMAIN m_executiveStates' = Live \ {i}
        /\ \A j \in Live \ {i} : m_executiveStates'[j].message = m_executiveStates[j].message
    BY <1>3, FinishMarks
  <2>3. \A j \in Live \ {i} : Fresh(j) => Fresh(j)'
    BY <1>1, <1>3, <2>1, FinishMarks DEF Fresh
  <2> QED BY <1>1, <2>1, <2>2, <2>3, SettleSame
<1>4. CASE VisitWait(i)
  <2>1. /\ phase = "send" /\ own' = own /\ batchStatus' = batchStatus /\ todo' = todo \ {i}
        /\ m_executiveStates' = m_executiveStates
    BY <1>4 DEF VisitWait, Visiting, batchVars, m_keyLocks!AcquireWaits
  <2>2. \A j \in Live : Covered(j)' <=> Covered(j)
    BY <2>1 DEF Covered, Live
  <2>3. \A j \in Live : Fresh(j) => Fresh(j)'
    BY <1>1, <2>1, <2>2 DEF Fresh
  <2> QED BY <1>1, <2>1, <2>3, SettleSame DEF Live
<1>5. CASE VisitNoVictim(i)
  <2>1. phase = "deadlock" /\ own' = own /\ m_executiveStates' = m_executiveStates
    BY <1>5 DEF VisitNoVictim, lockVars
  <2>2. \A j : ~Fresh(j)
    BY <2>1 DEF Fresh
  <2> QED BY <1>1, <2>1, <2>2, SettleSame DEF Live
<1>6. CASE UpdateSkipped(i)
  <2>1. own' = own
    BY <1>6 DEF UpdateSkipped, lockVars
  <2> QED BY <1>1, <1>6, <2>1, SkippedFresh, SettleSame DEF SameWork
<1>7. CASE UpdateRelease(i)
  <2>1. /\ Updating(i) /\ m_executiveStates[i].message.type \in ReturnType /\ Update(i)
        /\ todo' = todo \ {i}
        /\ m_keyLocks!ReleaseKeyLocks(MessageContextID(i), m_executiveStates[i].message.seq)
    BY <1>7 DEF UpdateRelease, ReleaseFrame
  <2>2. /\ phase = "locks" /\ i \in Live /\ SameWork
        /\ \A j \in Live : j # i /\ Covered(j)' => Covered(j)
    BY <2>1, UpdateMarks
  <2>3. MessageContextID(i) = i
    <3>1. i \in TxIDs
      BY <2>2, BatchTypes
    <3> QED BY <3>1, ConstantsAssumption DEF MessageContextID, TxIDs
  <2>4. /\ \A e \in own' : e \in own
        /\ \A e \in own : e.ctx # i => e \in own'
    BY <2>1, <2>3 DEF m_keyLocks!ReleaseKeyLocks, m_keyLocks!EdgesLeft
  <2>5. ~Reports(i) /\ ~Unsettled(i)
    BY <2>1, <2>2, WalkDomains DEF Reports, Unsettled, ReturnType
  <2>6. ASSUME NEW j \in Live, Unsettled(j), Fresh(j) PROVE Fresh(j)'
    BY <1>1, <2>1, <2>2, <2>5, <2>6 DEF Fresh
  <2>7. \A j \in DOMAIN m_executiveStates' :
            /\ j \in Live /\ m_executiveStates'[j].message = m_executiveStates[j].message
            /\ Unsettled(j) /\ Fresh(j) => Fresh(j)'
            /\ Reports(j) => \A e \in own : e.ctx = j => e \in own'
    BY <2>2, <2>4, <2>5, <2>6 DEF SameWork
  <2> QED BY <1>1, <2>4, <2>7, SettleSame
<1> QED BY <1>1, <1>2, <1>3, <1>4, <1>5, <1>6, <1>7

LEMMA SettleBetween ==
  ASSUME Inv, SettleInv, EndSend \/ CheckNotReady \/ CheckBatch \/ BatchCallback \/ UNCHANGED vars
  PROVE  SettleInv'
<1>1. m_executiveStates' = m_executiveStates /\ atExecutor' = atExecutor /\ own' = own
  BY DEF EndSend, CheckNotReady, CheckBatch, BatchCallback, vars, executorVars, lockVars
<1>2. CASE calledContract' = calledContract
  <2>1. \A j \in Live : Fresh(j) => Fresh(j)'
    BY BetweenFresh
  <2> QED BY <1>1, <1>2, <2>1, SettleSame DEF Live
<1>3. CASE BatchCallback
  <2>1. phase \in {"deadlock", "locks"} /\ todo = {}
    BY <1>3 DEF BatchCallback
  <2>2. \A j \in Live : ~Unsettled(j)
    BY <2>1 DEF SettleInv, Fresh
  <2>3. \A j \in Live : ~Unsettled(j)'
    BY <1>1, <2>2, UnsettledWas
  <2> QED BY <1>1, <2>3 DEF SettleInv, Live
<1> QED BY <1>2, <1>3 DEF EndSend, CheckNotReady, CheckBatch, vars, batchVars

LEMMA NoThrowStep ==
  ASSUME Inv, Inv', WalkInv, FreshInv, AddressInv, NoThrowInv, Honest, m_startContextID = 0,
         Next \/ UNCHANGED vars
  PROVE  NoThrowInv'
<1>1. CASE ~Working
  <2>1. phase \in {"failed", "done"}
    BY <1>1 DEF NoThrowInv, Working, Inv, TypeOK, Phases
  <2>2. phase' = phase
    <3>1. ASSUME NEW i PROVE ~Visit(i)
      BY <2>1 DEF Visit, VisitSkip, VisitRequest, VisitFinish, VisitReturn, VisitRevertKeyLock,
                  VisitAcquire, VisitWait, VisitSendBack, Visiting, VisitVictim, VisitNoVictim,
                  UpdateSkipped, UpdateAcquire, UpdateThrows, UpdateRelease, Updating
    <3>2. ASSUME NEW i, Respond(i) PROVE FALSE
      BY <2>1, <3>2, AnswerFacts DEF AnswerEffect
    <3>3. ~EndSend /\ ~CheckBatch /\ ~BatchCallback
      BY <2>1 DEF EndSend, CheckBatch, BatchReady, BatchCallback, Inv, BatchInv
    <3> QED BY <3>1, <3>2, <3>3 DEF Next, Scheduler, Ended, CheckNotReady, vars
  <2> QED BY <1>1, <2>2 DEF NoThrowInv, Working
<1>2. CASE Working
  <2>1. SettleInv
    BY <1>2 DEF NoThrowInv
  <2>2. ASSUME NEW i, Sends(i) PROVE NoThrowInv'
    <3>1. phase' = "send"
      BY <2>2, SendFacts DEF SendEffect
    <3> QED BY <2>1, <2>2, <3>1, SettleSend DEF NoThrowInv
  <2>3. ASSUME NEW i, Respond(i) PROVE NoThrowInv'
    <3>1. phase' \in {"send", "wait"}
      BY <2>3, AnswerFacts DEF AnswerEffect
    <3> QED BY <2>1, <2>3, <3>1, SettleAnswer DEF NoThrowInv
  <2>4. ASSUME NEW i, VisitVictim(i) PROVE NoThrowInv'
    <3>1. phase' = "deadlock"
      BY <2>4 DEF VisitVictim
    <3> QED BY <2>1, <2>4, <3>1, SettleVictim DEF NoThrowInv
  <2>5. ASSUME NEW i, UpdateAcquire(i) PROVE NoThrowInv'
    <3>1. phase' = "locks"
      BY <2>5 DEF UpdateAcquire, Updating
    <3> QED BY <2>1, <2>5, <3>1, SettleAcquire DEF NoThrowInv
  <2>6. ASSUME NEW i, Visit(i) PROVE NoThrowInv'
    <3>1. CASE \/ VisitSkip(i) \/ VisitFinish(i) \/ VisitWait(i) \/ VisitNoVictim(i)
               \/ UpdateSkipped(i) \/ UpdateRelease(i)
      BY <1>2, <2>1, <3>1, SettleVisit DEF NoThrowInv
    <3> QED BY <2>1, <2>2, <2>4, <2>5, <2>6, <3>1, NeverThrows DEF Visit, Sends
  <2>7. CASE EndSend \/ CheckNotReady \/ CheckBatch \/ BatchCallback \/ UNCHANGED vars
    <3>1. phase' # "thrown"
      BY <1>2, <2>7 DEF Working, EndSend, CheckNotReady, CheckBatch, AfterBatch, BatchCallback, vars
    <3> QED BY <2>1, <2>7, <3>1, SettleBetween DEF NoThrowInv
  <2> QED BY <2>3, <2>6, <2>7 DEF Next, Scheduler, Ended
<1> QED BY <1>1, <1>2

LEMMA NoThrowInit ==
  ASSUME Init
  PROVE  NoThrowInv
<1>1. PICK to \in [TxIDs -> Contracts \cup {NoAddress}], dag \in [TxIDs -> DAGResults] :
         m_executiveStates = [i \in TxIDs |-> FirstState(dag[i], to[i])]
  BY DEF Init
<1>2. DOMAIN atExecutor = {} /\ phase = "send"
  BY DEF Init
<1>3. \A j \in Live : m_executiveStates[j].message.keyLocks = {}
  BY <1>1 DEF FirstState, FirstMessage, Live
<1>4. \A j \in Live : ~Unsettled(j)
  BY <1>2, <1>3 DEF Unsettled
<1> QED BY <1>2, <1>4 DEF NoThrowInv, SettleInv

\* In a block whose executors touch no key that they were told another
\* transaction holds, and without creations with a salt, batchAcquireKeyLock
\* never meets a lock of another context, so checkBatch never throws.
THEOREM NoKeyLockSurprise ==
    Honest /\ m_startContextID = 0 /\ "CREATE2" \notin Replies
      => (Spec => []NoUnexpectedKeyLock)
<1>1. Init => NoThrowInv
  BY NoThrowInit
<1>2. NoThrowInv => NoUnexpectedKeyLock
  BY DEF NoThrowInv, NoUnexpectedKeyLock
<1>3. SUFFICES ASSUME Honest, m_startContextID = 0, "CREATE2" \notin Replies
               PROVE  Spec => []NoUnexpectedKeyLock
  OBVIOUS
<1>4. Inv /\ Inv' /\ WalkInv /\ FreshInv /\ AddressInv /\ NoThrowInv /\ [Next]_vars => NoThrowInv'
  BY <1>3, NoThrowStep
<1> QED BY <1>1, <1>2, <1>3, <1>4, InvHolds, WalkInvHolds, FreshInvHolds, AddressInvHolds, PTL DEF Spec

=============================================================================
