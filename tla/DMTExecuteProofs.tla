-------------------------- MODULE DMTExecuteProofs --------------------------
(***************************************************************************)
(* Proofs about DMTExecute, for any transactions, contracts, keys and call *)
(* depths and any answers of the executors: types, the counters of a       *)
(* batch, the call stacks, the walks and the exclusion of key locks.       *)
(***************************************************************************)
EXTENDS DMTExecute, FiniteSetTheorems, SequenceTheorems, TLAPS

-----------------------------------------------------------------------------
(* What holds of one transaction: its state s, its frames F at the         *)
(* executors, and the message m that is at an executor, if there is one.   *)

\* The call stack lists the seqs of the frames.
Mirrors(callStack, F) ==
    /\ Len(callStack) = Len(F)
    /\ \A n \in 1 .. Len(F) : callStack[n] = F[n].seq

IsTop(F, seq, contract) ==
    F # <<>> /\ F[Len(F)].seq = seq /\ F[Len(F)].contract = contract

FramesOK(F) == F \in Seq(Frame) /\ \A n \in 1 .. Len(F) : F[n].contract # NoAddress

\* Opened, for given frames.
OpenedOn(F, m) ==
    IF m.type \in RequestType THEN Append(F, [seq |-> m.seq, contract |-> m.to]) ELSE F

\* A message that waits to be sent.  A request has its frame still to be
\* pushed and a return its frame still to be popped.
MsgOK(s, F) ==
    LET m == s.message
    IN  /\ m.createSalt => m.from \in Contracts
        /\ m.type \in RequestType =>
              s.currentSeq <= MaxSeq /\ Mirrors(s.callStack, F) /\ m.keyLockAcquired = NoKey
        /\ m.type = "MESSAGE" => m.keyLocks = {} \/ IsTop(F, m.seq, m.from)
        /\ m.type \in ReturnType =>
              /\ Len(s.callStack) = Len(F) + 1
              /\ \A n \in 1 .. Len(F) : s.callStack[n] = F[n].seq
              /\ s.callStack[Len(F) + 1] = m.seq
              /\ F # <<>> => m.to = F[Len(F)].contract
              /\ m.keyLockAcquired = NoKey
        /\ m.type \in {"KEY_LOCK", "REVERT_KEY_LOCK"} =>
              /\ Mirrors(s.callStack, F) /\ IsTop(F, m.seq, m.to)
              /\ m.from = m.to /\ m.keyLockAcquired \in Keys
        /\ m.type = "SEND_BACK" =>
              s.callStack = <<0>> /\ F = <<>> /\ m.seq = 0 /\ m.keyLockAcquired = NoKey

\* A message at an executor is for the frame on top.
SentOK(s, m, F) ==
    /\ s.message = NoMessage
    /\ m.to # NoAddress
    /\ m.type \in RequestType \cup ReturnType \cup {"KEY_LOCK"}
    /\ Mirrors(s.callStack, OpenedOn(F, m))
    /\ IsTop(OpenedOn(F, m), m.seq, m.to)
    /\ m.type \in RequestType => m.keyLockAcquired = NoKey

-----------------------------------------------------------------------------
(* Facts about addresses, records and sequences.                           *)

LEMMA AddressTypes ==
  /\ \A i \in TxIDs, seq \in Seqs :
        NewAddress(i, seq) \in Addresses /\ NewAddress(i, seq) > NumContracts
  /\ \A c \in Contracts : SaltedAddress(c) \in Addresses /\ SaltedAddress(c) # NoAddress
  /\ Contracts \subseteq Addresses /\ NoAddress \in Addresses /\ NoAddress \notin Contracts
BY ConstantsAssumption
   DEF TxIDs, Seqs, Contracts, Addresses, NewAddress, SaltedAddress, NoAddress

LEMMA NoMessageIsNone ==
  /\ NoMessage \notin Message
  /\ \A m \in Message : m # NoMessage /\ m.type \in MessageType
  /\ NoMessage.type = "NULL"
BY DEF Message, NoMessage, MessageType, RequestType, ReturnType

LEMMA FrontFacts ==
  ASSUME NEW S, NEW c \in Seq(S), c # <<>>
  PROVE  /\ Front(c) \in Seq(S) /\ Len(Front(c)) = Len(c) - 1 /\ Len(c) \in Nat \ {0}
         /\ \A n \in 1 .. Len(c) - 1 : Front(c)[n] = c[n]
         /\ Last(c) = c[Len(c)] /\ Last(c) \in S
<1>1. Len(c) \in Nat \ {0}
  BY EmptySeq, LenProperties
<1>2. PICK k \in Nat : k = Len(c) - 1
  BY <1>1
<1>3. Front(c) = SubSeq(c, 1, k) /\ \A n \in 1 .. k : c[n] \in S
  BY <1>1, <1>2, ElementOfSeq DEF Front
<1>4. SubSeq(c, 1, k) \in Seq(S) /\ \A n \in 1 .. k : SubSeq(c, 1, k)[n] = c[n]
  BY <1>3, SubSeqProperties
<1>5. Len(SubSeq(c, 1, k)) = k
  <2>1. CASE k = 0
    BY <2>1, SubSeqEmpty, EmptySeq
  <2>2. CASE k # 0
    BY <1>3, <2>2, SubSeqProperties
  <2> QED BY <2>1, <2>2
<1> QED BY <1>1, <1>2, <1>3, <1>4, <1>5, ElementOfSeq DEF Last

LEMMA AppendFacts ==
  ASSUME NEW S, NEW c \in Seq(S), NEW x \in S
  PROVE  /\ Append(c, x) \in Seq(S) /\ Len(Append(c, x)) = Len(c) + 1
         /\ Append(c, x) # <<>> /\ Len(c) \in Nat
         /\ \A n \in 1 .. Len(c) : Append(c, x)[n] = c[n]
         /\ Append(c, x)[Len(c) + 1] = x
OBVIOUS

LEMMA OpenedFacts ==
  ASSUME NEW F, FramesOK(F), NEW m \in Message, m.to # NoAddress
  PROVE  FramesOK(OpenedOn(F, m))
<1>1. [seq |-> m.seq, contract |-> m.to] \in Frame
  BY DEF Message, Frame
<1>2. CASE m.type \in RequestType
  BY <1>1, <1>2, AppendFacts DEF FramesOK, OpenedOn
<1>3. CASE m.type \notin RequestType
  BY <1>3 DEF OpenedOn
<1> QED BY <1>2, <1>3

-----------------------------------------------------------------------------
(* What a walk may send of a transaction in state s with frames F.         *)

\* State s1 and message m1 may be given to Dispatch.
Sendable(s, s1, m1, F) ==
    /\ s1 \in ExecutiveState /\ s1.key = s.key /\ s1.skip = s.skip
    /\ m1 \in Message
    /\ SentOK([s1 EXCEPT !.message = NoMessage], m1, F)

LEMMA SendableBy ==
  ASSUME NEW s, NEW s1 \in ExecutiveState, s1.key = s.key, s1.skip = s.skip,
         NEW m1 \in Message, m1.to # NoAddress,
         m1.type \in RequestType \cup ReturnType \cup {"KEY_LOCK"},
         NEW F, Mirrors(s1.callStack, OpenedOn(F, m1)), IsTop(OpenedOn(F, m1), m1.seq, m1.to),
         m1.type \in RequestType => m1.keyLockAcquired = NoKey
  PROVE  Sendable(s, s1, m1, F)
<1>1. /\ [s1 EXCEPT !.message = NoMessage].message = NoMessage
      /\ [s1 EXCEPT !.message = NoMessage].callStack = s1.callStack
  BY DEF ExecutiveState
<1> QED BY <1>1 DEF Sendable, SentOK

LEMMA ResolveFacts ==
  ASSUME NEW i \in TxIDs, NEW m \in Message, NEW seq \in Seqs,
         m.createSalt => m.from \in Contracts
  PROVE  ResolveTo(i, m, seq) \in Addresses /\ ResolveTo(i, m, seq) # NoAddress
<1>1. m.to \in Addresses
  BY DEF Message
<1>2. NewAddress(i, seq) # NoAddress
  BY AddressTypes, ConstantsAssumption DEF NoAddress, Addresses
<1> QED BY <1>1, <1>2, AddressTypes DEF ResolveTo

LEMMA RequestSent ==
  ASSUME NEW i \in TxIDs, NEW s \in ExecutiveState, s.message \in Message,
         NEW F, FramesOK(F), MsgOK(s, F), s.message.type \in RequestType
  PROVE  Sendable(s, [s EXCEPT !.currentSeq = @ + 1, !.callStack = Append(@, NewSeq(s))],
                  [s.message EXCEPT !.seq = NewSeq(s), !.to = ResolveTo(i, s.message, NewSeq(s))], F)
<1> DEFINE seq == NewSeq(s)
           to == ResolveTo(i, s.message, seq)
           c == Append(s.callStack, seq)
           s1 == [s EXCEPT !.currentSeq = @ + 1, !.callStack = Append(@, NewSeq(s))]
           m1 == [s.message EXCEPT !.seq = seq, !.to = to]
           G == Append(F, [seq |-> seq, contract |-> to])
<1>1. s.currentSeq <= MaxSeq /\ Mirrors(s.callStack, F) /\ s.message.keyLockAcquired = NoKey
  BY DEF MsgOK
<1>2. seq \in Seqs
  BY <1>1, ConstantsAssumption DEF NewSeq, Seqs, ExecutiveState
<1>3. to \in Addresses /\ to # NoAddress
  BY <1>2, ResolveFacts DEF MsgOK
<1>4. s.callStack \in Seq(Seqs)
  BY DEF ExecutiveState
<1>5. c \in Seq(Seqs) /\ Len(c) = Len(s.callStack) + 1
        /\ c[Len(s.callStack) + 1] = seq
        /\ \A n \in 1 .. Len(s.callStack) : c[n] = s.callStack[n]
  BY <1>2, <1>4, AppendFacts
<1>6. s1 = [s EXCEPT !.currentSeq = s.currentSeq + 1, !.callStack = c]
  BY DEF ExecutiveState
<1> HIDE DEF seq, to, c, s1
<1>7. s1 \in ExecutiveState /\ s1.key = s.key /\ s1.skip = s.skip /\ s1.callStack = c
  <2>1. PICK n \in Nat : n = s.currentSeq + 1
    BY DEF ExecutiveState
  <2>2. s1 = [s EXCEPT !.currentSeq = n, !.callStack = c]
    BY <1>6, <2>1
  <2>3. c \in Seq(Seqs)
    BY <1>5
  <2> QED BY <2>2, <2>3 DEF ExecutiveState
<1>8. /\ m1 \in Message /\ m1.type = s.message.type /\ m1.to = to /\ m1.seq = seq
      /\ m1.keyLockAcquired = s.message.keyLockAcquired
  BY <1>2, <1>3 DEF Message
<1> HIDE DEF m1
<1>9. OpenedOn(F, m1) = G
  BY <1>8 DEF OpenedOn
<1>10. [seq |-> seq, contract |-> to] \in Frame /\ F \in Seq(Frame)
  BY <1>2, <1>3 DEF Frame, FramesOK
<1>11. /\ Len(G) = Len(F) + 1 /\ G # <<>> /\ Len(F) \in Nat
       /\ \A n \in 1 .. Len(F) : G[n] = F[n]
       /\ G[Len(F) + 1] = [seq |-> seq, contract |-> to]
  BY <1>10, AppendFacts
<1> HIDE DEF G
<1>12. G[Len(F) + 1].seq = seq /\ G[Len(F) + 1].contract = to
  BY <1>11
<1>13. Mirrors(c, G)
  <2>1. Len(c) = Len(G)
    BY <1>1, <1>5, <1>11 DEF Mirrors
  <2>2. ASSUME NEW n \in 1 .. Len(G) PROVE c[n] = G[n].seq
    <3>1. n \in 1 .. Len(F) \/ n = Len(F) + 1
      BY <1>11
    <3> QED BY <1>1, <1>5, <1>11, <1>12, <3>1 DEF Mirrors
  <2> QED BY <2>1, <2>2 DEF Mirrors
<1>14. IsTop(G, seq, to)
  BY <1>11, <1>12 DEF IsTop
<1>15. Sendable(s, s1, m1, F)
  BY <1>1, <1>3, <1>7, <1>8, <1>9, <1>13, <1>14, SendableBy
<1> QED BY <1>15 DEF s1, m1, seq, to

LEMMA ReturnSent ==
  ASSUME NEW s \in ExecutiveState, s.message \in Message,
         NEW F, FramesOK(F), MsgOK(s, F), s.message.type \in ReturnType,
         Len(s.callStack) # 1
  PROVE  Sendable(s, [s EXCEPT !.callStack = Front(@)],
                  [s.message EXCEPT !.seq = CallerSeq(s.callStack)], F)
<1> DEFINE c == s.callStack
           s1 == [s EXCEPT !.callStack = Front(@)]
           m1 == [s.message EXCEPT !.seq = CallerSeq(s.callStack)]
<1>1. /\ Len(c) = Len(F) + 1
      /\ \A n \in 1 .. Len(F) : c[n] = F[n].seq
      /\ F # <<>> => s.message.to = F[Len(F)].contract
  BY DEF MsgOK
<1>2. c \in Seq(Seqs) /\ F \in Seq(Frame) /\ Len(F) \in Nat
  BY LenProperties DEF ExecutiveState, FramesOK
<1>3. Len(F) # 0 /\ F # <<>> /\ c # <<>>
  BY <1>1, <1>2, EmptySeq
<1>4. /\ Front(c) \in Seq(Seqs) /\ Len(Front(c)) = Len(F) /\ Front(c) # <<>>
      /\ \A n \in 1 .. Len(F) : Front(c)[n] = F[n].seq
  <2>1. /\ Front(c) \in Seq(Seqs) /\ Len(Front(c)) = Len(c) - 1
        /\ \A n \in 1 .. Len(c) - 1 : Front(c)[n] = c[n]
    BY <1>2, <1>3, FrontFacts
  <2> HIDE DEF c
  <2>2. Len(c) - 1 = Len(F)
    BY <1>1, <1>2
  <2> QED BY <1>1, <1>2, <1>3, <2>1, <2>2, EmptySeq
<1>5. CallerSeq(c) = F[Len(F)].seq /\ CallerSeq(c) \in Seqs
  BY <1>2, <1>3, <1>4, FrontFacts DEF CallerSeq
<1>6. s1 = [s EXCEPT !.callStack = Front(c)]
  BY DEF ExecutiveState
<1> HIDE DEF s1
<1>7. s1 \in ExecutiveState /\ s1.key = s.key /\ s1.skip = s.skip /\ s1.callStack = Front(c)
  BY <1>4, <1>6 DEF ExecutiveState
<1>8. /\ m1 \in Message /\ m1.type = s.message.type /\ m1.to = s.message.to
      /\ m1.seq = CallerSeq(c)
  BY <1>5 DEF Message
<1> HIDE DEF m1
<1>9. OpenedOn(F, m1) = F /\ m1.type \notin RequestType
  BY <1>8 DEF OpenedOn, RequestType, ReturnType
<1>10. m1.to # NoAddress
  BY <1>1, <1>2, <1>3, <1>8 DEF FramesOK
<1>11. Mirrors(Front(c), F) /\ IsTop(F, m1.seq, m1.to)
  BY <1>1, <1>3, <1>4, <1>5, <1>8 DEF Mirrors, IsTop
<1>12. Sendable(s, s1, m1, F)
  BY <1>7, <1>8, <1>9, <1>10, <1>11, SendableBy
<1> QED BY <1>12 DEF s1, m1

\* A waiting frame gets its key lock, or is told to revert.
LEMMA WaitingSent ==
  ASSUME NEW s \in ExecutiveState, s.message \in Message,
         NEW F, FramesOK(F), MsgOK(s, F),
         s.message.type \in {"KEY_LOCK", "REVERT_KEY_LOCK"},
         NEW m1 \in Message, m1.type \in {"KEY_LOCK", "REVERT"},
         m1.seq = s.message.seq, m1.to = s.message.to
  PROVE  Sendable(s, s, m1, F)
<1>1. Mirrors(s.callStack, F) /\ IsTop(F, m1.seq, m1.to)
  BY DEF MsgOK
<1>2. OpenedOn(F, m1) = F /\ m1.type \notin RequestType
  BY DEF OpenedOn, RequestType
<1>3. m1.to # NoAddress
  BY <1>1, EmptySeq, LenProperties DEF IsTop, FramesOK
<1> QED BY <1>1, <1>2, <1>3, SendableBy DEF ReturnType

LEMMA SendBackSent ==
  ASSUME NEW i \in TxIDs, NEW s \in ExecutiveState, s.message \in Message,
         NEW F, FramesOK(F), MsgOK(s, F), s.message.type = "SEND_BACK"
  PROVE  Sendable(s, s, [s.message EXCEPT !.type = TopType,
                                          !.to = ResolveTo(i, s.message, s.message.seq)], F)
<1> DEFINE to == ResolveTo(i, s.message, s.message.seq)
           m1 == [s.message EXCEPT !.type = TopType, !.to = to]
           f == [seq |-> 0, contract |-> to]
<1>1. /\ s.callStack = <<0>> /\ F = <<>> /\ s.message.seq = 0
      /\ s.message.keyLockAcquired = NoKey
  BY DEF MsgOK
<1>2. to \in Addresses /\ to # NoAddress
  BY ResolveFacts DEF MsgOK, Message
<1> HIDE DEF to
<1>3. TopType \in RequestType /\ TopType \in MessageType
  BY ConstantsAssumption DEF RequestType, MessageType
<1>4. /\ m1 \in Message /\ m1.type = TopType /\ m1.to = to /\ m1.seq = 0
      /\ m1.keyLockAcquired = NoKey
  BY <1>1, <1>2, <1>3 DEF Message
<1> HIDE DEF m1
<1>5. OpenedOn(F, m1) = <<f>>
  BY <1>1, <1>3, <1>4 DEF OpenedOn
<1>6. Mirrors(s.callStack, <<f>>) /\ IsTop(<<f>>, 0, to)
  BY <1>1 DEF Mirrors, IsTop
<1>7. Sendable(s, s, m1, F)
  BY <1>2, <1>3, <1>4, <1>5, <1>6, SendableBy
<1> QED BY <1>7 DEF m1, to

-----------------------------------------------------------------------------
(* What an executor may answer when it works on message m.                 *)

\* Answer r may be stored; the executor's frames are then G.
Answerable(s, r, G) ==
    r \in Message /\ FramesOK(G) /\ MsgOK([s EXCEPT !.message = r], G)

LEMMA MsgOKDepends ==
  ASSUME NEW s, NEW t, NEW F, s.message = t.message, s.callStack = t.callStack,
         s.currentSeq = t.currentSeq, MsgOK(s, F)
  PROVE  MsgOK(t, F)
BY DEF MsgOK

LEMMA AnswerState ==
  ASSUME NEW s \in ExecutiveState, NEW r \in Message
  PROVE  /\ [s EXCEPT !.message = r] \in ExecutiveState
         /\ [s EXCEPT !.message = r].message = r
         /\ [s EXCEPT !.message = r].callStack = s.callStack
         /\ [s EXCEPT !.message = r].currentSeq = s.currentSeq
         /\ [s EXCEPT !.message = r].key = s.key
         /\ [s EXCEPT !.message = r].skip = s.skip
BY DEF ExecutiveState

LEMMA ResponseFacts ==
  ASSUME NEW m \in Message, NEW type \in MessageType, NEW to \in Addresses,
         NEW salt \in BOOLEAN, NEW locks \in SUBSET Keys, NEW key \in Keys \cup {NoKey},
         NEW r, r = Response(m, type, to, salt, locks, key)
  PROVE  /\ r \in Message /\ r.type = type /\ r.from = m.to /\ r.to = to /\ r.seq = m.seq
         /\ r.createSalt = salt /\ r.keyLocks = locks /\ r.keyLockAcquired = key
BY DEF Response, Message

LEMMA CallAnswer ==
  ASSUME NEW s \in ExecutiveState, s.currentSeq <= MaxSeq, NEW m \in Message,
         NEW F, FramesOK(F), SentOK(s, m, F),
         NEW to \in Contracts \cup {NoAddress}, NEW salt \in BOOLEAN,
         salt => m.to \in Contracts, NEW locks \in SUBSET Keys
  PROVE  Answerable(s, Response(m, "MESSAGE", to, salt, locks, NoKey), OpenedOn(F, m))
<1> DEFINE r == Response(m, "MESSAGE", to, salt, locks, NoKey)
           s1 == [s EXCEPT !.message = r]
           G == OpenedOn(F, m)
<1>1. to \in Addresses /\ "MESSAGE" \in MessageType
  BY AddressTypes DEF MessageType, RequestType
<1>2. /\ r \in Message /\ r.type = "MESSAGE" /\ r.from = m.to /\ r.seq = m.seq
      /\ r.createSalt = salt /\ r.keyLockAcquired = NoKey
  BY <1>1, ResponseFacts
<1> HIDE DEF r
<1>3. s1.message = r /\ s1.callStack = s.callStack /\ s1.currentSeq = s.currentSeq
  BY <1>2, AnswerState
<1> HIDE DEF s1
<1>4. Mirrors(s.callStack, G) /\ IsTop(G, m.seq, m.to) /\ FramesOK(G)
  BY OpenedFacts DEF SentOK
<1> HIDE DEF G
<1>5. MsgOK(s1, G)
  BY <1>2, <1>3, <1>4 DEF MsgOK, ReturnType
<1>6. Answerable(s, r, G)
  BY <1>2, <1>4, <1>5 DEF Answerable, s1
<1> QED BY <1>6 DEF r, G

LEMMA KeyLockAnswer ==
  ASSUME NEW s \in ExecutiveState, NEW m \in Message,
         NEW F, FramesOK(F), SentOK(s, m, F),
         NEW locks \in SUBSET Keys, NEW key \in Keys
  PROVE  Answerable(s, Response(m, "KEY_LOCK", m.to, FALSE, locks, key), OpenedOn(F, m))
<1> DEFINE r == Response(m, "KEY_LOCK", m.to, FALSE, locks, key)
           s1 == [s EXCEPT !.message = r]
           G == OpenedOn(F, m)
<1>1. m.to \in Addresses /\ "KEY_LOCK" \in MessageType /\ FALSE \in BOOLEAN
        /\ key \in Keys \cup {NoKey}
  BY DEF MessageType, Message
<1>2. /\ r \in Message /\ r.type = "KEY_LOCK" /\ r.from = m.to /\ r.to = m.to /\ r.seq = m.seq
      /\ r.createSalt = FALSE /\ r.keyLockAcquired = key
  BY <1>1 DEF Response, Message
<1> HIDE DEF r
<1>3. s1.message = r /\ s1.callStack = s.callStack
  BY <1>2, AnswerState
<1> HIDE DEF s1
<1>4. Mirrors(s.callStack, G) /\ IsTop(G, m.seq, m.to) /\ FramesOK(G)
  BY OpenedFacts DEF SentOK
<1> HIDE DEF G
<1>5. MsgOK(s1, G)
  BY <1>2, <1>3, <1>4 DEF MsgOK, ReturnType, RequestType
<1>6. Answerable(s, r, G)
  BY <1>2, <1>4, <1>5 DEF Answerable, s1
<1> QED BY <1>6 DEF r, G

LEMMA ReturnAnswer ==
  ASSUME NEW s \in ExecutiveState, NEW m \in Message,
         NEW F, FramesOK(F), SentOK(s, m, F), NEW type \in ReturnType,
         NEW G, G = Front(OpenedOn(F, m)),
         NEW to, to = IF G = <<>> THEN m.to ELSE Last(G).contract
  PROVE  Answerable(s, Response(m, type, to, FALSE, {}, NoKey), G)
<1> DEFINE r == Response(m, type, to, FALSE, {}, NoKey)
           s1 == [s EXCEPT !.message = r]
           open == OpenedOn(F, m)
<1>1. /\ Mirrors(s.callStack, open) /\ FramesOK(open) /\ open # <<>>
      /\ open[Len(open)].seq = m.seq
  BY OpenedFacts DEF SentOK, IsTop
<1> HIDE DEF open
<1>2. /\ G \in Seq(Frame) /\ Len(G) = Len(open) - 1 /\ Len(open) \in Nat \ {0}
      /\ \A n \in 1 .. Len(open) - 1 : G[n] = open[n]
  BY <1>1, FrontFacts DEF FramesOK, open
<1>3. Len(G) \in Nat /\ Len(open) = Len(G) + 1 /\ \A n \in 1 .. Len(G) : G[n] = open[n]
  BY <1>2
<1>4. FramesOK(G)
  BY <1>1, <1>2, <1>3 DEF FramesOK
<1>5. G # <<>> => to = G[Len(G)].contract /\ to \in Addresses
  <2> HAVE G # <<>>
  <2>1. Last(G) = G[Len(G)] /\ Last(G) \in Frame
    BY <1>2, FrontFacts
  <2> QED BY <2>1 DEF Frame
<1>6. /\ to \in Addresses /\ type \in MessageType /\ FALSE \in BOOLEAN
      /\ {} \in SUBSET Keys /\ NoKey \in Keys \cup {NoKey}
  BY <1>5 DEF MessageType, Message
<1>7. /\ r \in Message /\ r.type = type /\ r.to = to /\ r.seq = m.seq
      /\ r.createSalt = FALSE /\ r.keyLockAcquired = NoKey
  BY <1>6 DEF Response, Message
<1> HIDE DEF r
<1>8. s1.message = r /\ s1.callStack = s.callStack
  BY <1>7, AnswerState
<1> HIDE DEF s1
<1>9. /\ Len(s.callStack) = Len(G) + 1
      /\ \A n \in 1 .. Len(G) : s.callStack[n] = G[n].seq
      /\ s.callStack[Len(G) + 1] = m.seq
  BY <1>1, <1>3 DEF Mirrors
<1>10. MsgOK(s1, G)
  BY <1>5, <1>7, <1>8, <1>9 DEF MsgOK, ReturnType, RequestType
<1>11. Answerable(s, r, G)
  BY <1>4, <1>7, <1>10 DEF Answerable, s1
<1> QED BY <1>11 DEF r

-----------------------------------------------------------------------------
(* The inductive invariant.                                                *)

Live == DOMAIN m_executiveStates

\* The scheduler's stacks, the messages and the executors' frames agree.
FramesInv ==
    /\ \A i \in TxIDs : FramesOK(frames[i])
    /\ \A i \in DOMAIN atExecutor : SentOK(m_executiveStates[i], atExecutor[i], frames[i])
    /\ \A i \in Live : m_executiveStates[i].message # NoMessage =>
                          MsgOK(m_executiveStates[i], frames[i])
    /\ \A i \in m_executiveResults : frames[i] = <<>>
    /\ Live = TxIDs \ m_executiveResults

\* The counters of a batch say how many messages are at executors, and a
\* state without a message is at an executor unless one answered an error.
BatchInv ==
    /\ batchStatus.received + Cardinality(DOMAIN atExecutor) = batchStatus.total
    /\ batchStatus.error <= batchStatus.received
    /\ checkers <= batchStatus.received + (IF batchStatus.allSended THEN 1 ELSE 0)
    /\ phase = "send" =>
          /\ batchStatus.total + Cardinality(todo) <= NumTx
          /\ ~batchStatus.allSended /\ ~batchStatus.callbackExecuted
          /\ \A j \in todo : m_executiveStates[j].message # NoMessage
    /\ phase = "wait" => batchStatus.allSended /\ todo = {}
    /\ phase \notin {"send", "wait"} =>
          DOMAIN atExecutor = {} /\ batchStatus.callbackExecuted /\ batchStatus.allSended
    /\ phase \in {"deadlock", "locks"} => batchStatus.error = 0
    /\ batchStatus.error = 0 =>
          \A j \in Live : m_executiveStates[j].message # NoMessage \/ j \in DOMAIN atExecutor
    /\ batchStatus.total = 0 => calledContract = {}
    /\ phase = "deadlock" => batchStatus.total = 0
    /\ phase = "done" => Live = {}

\* At most one state of a key is marked, the first one the walk skipped; the
\* mark is made after the walk passed the key and removed by the next walk.
SkipInv ==
    /\ \A i, j \in Live : m_executiveStates[i].skip /\ m_executiveStates[j].skip
                             /\ m_executiveStates[i].key = m_executiveStates[j].key => i = j
    /\ phase = "send" => \A k \in Live, j \in todo :
          m_executiveStates[k].skip => m_executiveStates[k].key # m_executiveStates[j].key
    /\ phase = "locks" => \A k \in Live : m_executiveStates[k].skip => k \in todo
    /\ \A i \in Live : m_executiveStates[i].skip => calledContract # {}

\* As long as nothing was sent, every state the walk has passed waits for a
\* key lock; so does every state when a deadlock is looked for.
NothingSent ==
    /\ batchStatus.total = 0 /\ phase \in {"send", "wait"} =>
          \A j \in Live \ todo : m_executiveStates[j].message.type = "KEY_LOCK"
    /\ phase = "deadlock" =>
          \A j \in Live : m_executiveStates[j].message.type \in {"KEY_LOCK", "REVERT_KEY_LOCK"}

Inv == TypeOK /\ FramesInv /\ BatchInv /\ SkipInv /\ NothingSent /\ m_keyLocks!KeyLockInv

-----------------------------------------------------------------------------
(* Facts that the step lemmas share.                                       *)

LEMMA CardinalityFacts ==
  ASSUME NEW S \in SUBSET TxIDs
  PROVE  /\ Cardinality(S) \in Nat /\ Cardinality(S) <= NumTx
         /\ Cardinality(S) = 0 <=> S = {}
         /\ \A x \in S : Cardinality(S \ {x}) = Cardinality(S) - 1
         /\ \A x \in TxIDs \ S : Cardinality(S \cup {x}) = Cardinality(S) + 1
         /\ \A T \in SUBSET S : Cardinality(T) \in Nat /\ Cardinality(T) <= Cardinality(S)
<1>1. IsFiniteSet(TxIDs) /\ Cardinality(TxIDs) = NumTx
  <2>1. 0 \in Int /\ NumTx - 1 \in Int
    BY ConstantsAssumption
  <2>2. IsFiniteSet(0 .. NumTx - 1)
    BY <2>1, FS_Interval
  <2>3. Cardinality(0 .. NumTx - 1) = IF 0 > NumTx - 1 THEN 0 ELSE (NumTx - 1) - 0 + 1
    BY <2>1, FS_Interval
  <2> QED BY <2>2, <2>3, ConstantsAssumption DEF TxIDs
<1>2. IsFiniteSet(S) /\ Cardinality(S) <= NumTx
  BY <1>1, FS_Subset
<1>3. Cardinality(S) \in Nat
  BY <1>2, FS_CardinalityType
<1>4. Cardinality(S) = 0 <=> S = {}
  BY <1>2, FS_EmptySet
<1>5. \A x \in S : Cardinality(S \ {x}) = Cardinality(S) - 1
  BY <1>2, FS_RemoveElement
<1>6. \A x \in TxIDs \ S : Cardinality(S \cup {x}) = Cardinality(S) + 1
  BY <1>2, FS_AddElement
<1>7. ASSUME NEW T \in SUBSET S
      PROVE  Cardinality(T) \in Nat /\ Cardinality(T) <= Cardinality(S)
  BY <1>2, FS_Subset, FS_CardinalityType
<1> QED BY <1>2, <1>3, <1>4, <1>5, <1>6, <1>7

\* Changing the state of one transaction.
LEMMA OneState ==
  ASSUME NEW f, NEW i \in DOMAIN f, NEW x, NEW g, g = [f EXCEPT ![i] = x]
  PROVE  DOMAIN g = DOMAIN f /\ g[i] = x /\ \A j \in DOMAIN f : j # i => g[j] = f[j]
OBVIOUS

-----------------------------------------------------------------------------
(* The lock graph.  KeyLockInv of GraphKeyLocks holds for m_keyLocks too:  *)
(* every call DMTExecute makes has arguments of the right types.           *)

LockContexts == 0 .. (NumTx - 1 + m_startContextID)

LEMMA AcquireKeepsInv ==
    ASSUME m_keyLocks!KeyLockInv,
           NEW contract \in Addresses, NEW key \in Keys,
           NEW ctx \in LockContexts, NEW seq \in Seqs,
           \/ m_keyLocks!AcquireOwns(contract, key, ctx, seq)
           \/ m_keyLocks!AcquireWaits(contract, key, ctx, seq)
    PROVE  m_keyLocks!KeyLockInv'
<1> DEFINE lock == <<contract, key>>
           edge == m_keyLocks!EdgeOf(lock, ctx, seq)
<1>1. edge \in m_keyLocks!Edge /\ edge.lock = lock /\ edge.ctx = ctx /\ lock \in m_keyLocks!KeyLock
  BY DEF LockContexts, m_keyLocks!EdgeOf, m_keyLocks!Edge, m_keyLocks!KeyLock
<1> HIDE DEF lock, edge
<1>2. CASE m_keyLocks!AcquireOwns(contract, key, ctx, seq)
  <2>1. /\ m_vertexes' = m_vertexes \cup {ctx}
        /\ request' = {e \in request : ~(e.lock = lock /\ e.ctx = ctx)}
        /\ own' = own \cup {edge}
        /\ \A e \in own : e.lock = lock => e.ctx = ctx
    BY <1>2 DEF m_keyLocks!AcquireOwns, m_keyLocks!HeldByOther, lock, edge
  <2>2. m_keyLocks!KeyLockTypeOK'
    BY <1>1, <2>1 DEF m_keyLocks!KeyLockInv, m_keyLocks!KeyLockTypeOK, LockContexts
  <2>3. m_keyLocks!MutualExclusion'
    BY <1>1, <2>1 DEF m_keyLocks!KeyLockInv, m_keyLocks!MutualExclusion
  <2>4. m_keyLocks!VertexHasEdge'
    BY <1>1, <2>1 DEF m_keyLocks!KeyLockInv, m_keyLocks!VertexHasEdge
  <2>5. m_keyLocks!NoSelfWait'
    BY <1>1, <2>1 DEF m_keyLocks!KeyLockInv, m_keyLocks!NoSelfWait
  <2> QED BY <2>2, <2>3, <2>4, <2>5 DEF m_keyLocks!KeyLockInv
<1>3. CASE m_keyLocks!AcquireWaits(contract, key, ctx, seq)
  <2>1. /\ m_vertexes' = m_vertexes \cup {ctx}
        /\ request' = request \cup {edge}
        /\ own' = own
        /\ \E e \in own : e.lock = lock /\ e.ctx # ctx
    BY <1>3 DEF m_keyLocks!AcquireWaits, m_keyLocks!HeldByOther, lock, edge
  <2>2. m_keyLocks!KeyLockTypeOK'
    BY <1>1, <2>1 DEF m_keyLocks!KeyLockInv, m_keyLocks!KeyLockTypeOK, LockContexts
  <2>3. m_keyLocks!MutualExclusion'
    BY <2>1 DEF m_keyLocks!KeyLockInv, m_keyLocks!MutualExclusion
  <2>4. m_keyLocks!VertexHasEdge'
    BY <1>1, <2>1 DEF m_keyLocks!KeyLockInv, m_keyLocks!VertexHasEdge
  <2>5. m_keyLocks!NoSelfWait'
    BY <1>1, <2>1 DEF m_keyLocks!KeyLockInv, m_keyLocks!NoSelfWait, m_keyLocks!MutualExclusion
  <2> QED BY <2>2, <2>3, <2>4, <2>5 DEF m_keyLocks!KeyLockInv
<1> QED BY <1>2, <1>3

LEMMA BatchOwnsKeepsInv ==
    ASSUME m_keyLocks!KeyLockInv,
           NEW contract \in Addresses, NEW keys \in SUBSET Keys,
           NEW ctx \in LockContexts, NEW seq \in Seqs,
           m_keyLocks!BatchAcquireOwns(contract, keys, ctx, seq)
    PROVE  m_keyLocks!KeyLockInv'
<1> DEFINE L == m_keyLocks!LocksOf(contract, keys)
           new == {m_keyLocks!EdgeOf(lock, ctx, seq) : lock \in L}
<1>1. \A e \in new : e \in m_keyLocks!Edge /\ e.lock \in L /\ e.ctx = ctx
  BY DEF LockContexts, m_keyLocks!EdgeOf, m_keyLocks!Edge, m_keyLocks!KeyLock, m_keyLocks!LocksOf
<1>1a. new = {} <=> keys = {}
  <2>1. ASSUME NEW key \in keys PROVE m_keyLocks!EdgeOf(<<contract, key>>, ctx, seq) \in new
    BY DEF m_keyLocks!LocksOf
  <2> QED BY <2>1 DEF m_keyLocks!LocksOf
<1>2. /\ m_vertexes' = IF keys = {} THEN m_vertexes ELSE m_vertexes \cup {ctx}
      /\ request' = {e \in request : ~(e.lock \in L /\ e.ctx = ctx)}
      /\ own' = own \cup new
      /\ \A e \in own : e.lock \in L => e.ctx = ctx
  BY DEF m_keyLocks!BatchAcquireOwns, m_keyLocks!HeldByOther
<1>3. \A e \in request : e.lock \in L /\ e.ctx = ctx => keys # {}
  BY DEF m_keyLocks!LocksOf
<1> HIDE DEF L, new
<1>4. m_keyLocks!KeyLockTypeOK'
  BY <1>1, <1>2 DEF m_keyLocks!KeyLockInv, m_keyLocks!KeyLockTypeOK, LockContexts
<1>5. m_keyLocks!MutualExclusion'
  BY <1>1, <1>2 DEF m_keyLocks!KeyLockInv, m_keyLocks!MutualExclusion
<1>6. m_keyLocks!VertexHasEdge'
  BY <1>1, <1>1a, <1>2, <1>3 DEF m_keyLocks!KeyLockInv, m_keyLocks!VertexHasEdge
<1>7. m_keyLocks!NoSelfWait'
  BY <1>1, <1>2 DEF m_keyLocks!KeyLockInv, m_keyLocks!NoSelfWait
<1> QED BY <1>4, <1>5, <1>6, <1>7 DEF m_keyLocks!KeyLockInv

LEMMA BatchThrowsKeepsInv ==
    ASSUME m_keyLocks!KeyLockInv,
           NEW contract \in Addresses, NEW keys \in SUBSET Keys,
           NEW ctx \in LockContexts, NEW seq \in Seqs,
           m_keyLocks!BatchAcquireThrows(contract, keys, ctx, seq)
    PROVE  m_keyLocks!KeyLockInv'
<1>1. PICK key \in keys :
        /\ m_keyLocks!HeldByOther(<<contract, key>>, ctx)
        /\ \E before \in SUBSET {k \in keys : ~m_keyLocks!HeldByOther(<<contract, k>>, ctx)} :
             /\ m_vertexes' = m_vertexes \cup {ctx}
             /\ request' = {e \in request :
                             ~(e.lock \in m_keyLocks!LocksOf(contract, before) /\ e.ctx = ctx)}
                              \cup {m_keyLocks!EdgeOf(<<contract, key>>, ctx, seq)}
             /\ own' = own \cup {m_keyLocks!EdgeOf(lock, ctx, seq) :
                                   lock \in m_keyLocks!LocksOf(contract, before)}
  BY DEF m_keyLocks!BatchAcquireThrows
<1>2. PICK before \in SUBSET {k \in keys : ~m_keyLocks!HeldByOther(<<contract, k>>, ctx)} :
        /\ m_vertexes' = m_vertexes \cup {ctx}
        /\ request' = {e \in request :
                             ~(e.lock \in m_keyLocks!LocksOf(contract, before) /\ e.ctx = ctx)}
                         \cup {m_keyLocks!EdgeOf(<<contract, key>>, ctx, seq)}
        /\ own' = own \cup {m_keyLocks!EdgeOf(lock, ctx, seq) :
                                   lock \in m_keyLocks!LocksOf(contract, before)}
  BY <1>1
<1> DEFINE L == m_keyLocks!LocksOf(contract, before)
           new == {m_keyLocks!EdgeOf(lock, ctx, seq) : lock \in L}
           failed == m_keyLocks!EdgeOf(<<contract, key>>, ctx, seq)
<1>3. /\ \A e \in new : e \in m_keyLocks!Edge /\ e.lock \in L /\ e.ctx = ctx
      /\ failed \in m_keyLocks!Edge /\ failed.ctx = ctx
  BY DEF LockContexts, m_keyLocks!EdgeOf, m_keyLocks!Edge, m_keyLocks!KeyLock, m_keyLocks!LocksOf
<1>4. /\ request' = {e \in request : ~(e.lock \in L /\ e.ctx = ctx)} \cup {failed}
      /\ own' = own \cup new
  BY <1>2
<1>5. \A e \in own : e.lock \in L => e.ctx = ctx
  BY DEF m_keyLocks!HeldByOther, m_keyLocks!LocksOf
<1>6. \E e \in own : e.lock = failed.lock /\ e.ctx # ctx
  BY <1>1 DEF m_keyLocks!HeldByOther, m_keyLocks!EdgeOf
<1> HIDE DEF L, new, failed
<1>7. m_keyLocks!KeyLockTypeOK'
  BY <1>2, <1>3, <1>4 DEF m_keyLocks!KeyLockInv, m_keyLocks!KeyLockTypeOK, LockContexts
<1>8. m_keyLocks!MutualExclusion'
  BY <1>3, <1>4, <1>5 DEF m_keyLocks!KeyLockInv, m_keyLocks!MutualExclusion
<1>9. m_keyLocks!VertexHasEdge'
  BY <1>2, <1>3, <1>4 DEF m_keyLocks!KeyLockInv, m_keyLocks!VertexHasEdge
<1>10. m_keyLocks!NoSelfWait'
  BY <1>3, <1>4, <1>5, <1>6
     DEF m_keyLocks!KeyLockInv, m_keyLocks!NoSelfWait, m_keyLocks!MutualExclusion
<1> QED BY <1>7, <1>8, <1>9, <1>10 DEF m_keyLocks!KeyLockInv

LEMMA ReleaseKeepsInv ==
  ASSUME m_keyLocks!KeyLockInv, NEW ctx \in LockContexts, NEW seq \in Seqs,
         m_keyLocks!ReleaseKeyLocks(ctx, seq)
  PROVE  m_keyLocks!KeyLockInv'
<1>1. /\ own' = {e \in own : ~(e.ctx = ctx /\ e.seq = seq)}
      /\ request' = {e \in request : ~(e.ctx = ctx /\ e.seq = seq)}
  BY DEF m_keyLocks!ReleaseKeyLocks, m_keyLocks!EdgesLeft
<1>2. m_vertexes' = IF \E e \in own' \cup request' : e.ctx = ctx
                    THEN m_vertexes \cup {ctx}
                    ELSE m_vertexes \ {ctx}
  BY DEF m_keyLocks!ReleaseKeyLocks, m_keyLocks!EdgesLeft
<1> USE DEF m_keyLocks!KeyLockInv
<1>3. m_keyLocks!KeyLockTypeOK'
  BY <1>1, <1>2 DEF m_keyLocks!KeyLockTypeOK, LockContexts
<1>4. m_keyLocks!MutualExclusion'
  BY <1>1 DEF m_keyLocks!MutualExclusion
<1>5. m_keyLocks!VertexHasEdge'
  BY <1>1, <1>2 DEF m_keyLocks!VertexHasEdge
<1>6. m_keyLocks!NoSelfWait'
  BY <1>1 DEF m_keyLocks!NoSelfWait
<1> QED BY <1>3, <1>4, <1>5, <1>6

-----------------------------------------------------------------------------
(* Steps of a walk that send nothing.                                      *)

\* The state of transaction i becomes s, the others stay.
OnlyState(i, s) ==
    /\ DOMAIN m_executiveStates' = Live
    /\ m_executiveStates'[i] = s
    /\ \A j \in Live : j # i => m_executiveStates'[j] = m_executiveStates[j]

LEMMA SetSkip ==
  ASSUME NEW i \in Live, m_executiveStates[i] \in ExecutiveState, NEW b \in BOOLEAN,
         m_executiveStates' = [m_executiveStates EXCEPT ![i].skip = b]
  PROVE  \E s \in ExecutiveState :
            /\ OnlyState(i, s) /\ s.skip = b /\ s.key = m_executiveStates[i].key
            /\ s.message = m_executiveStates[i].message
            /\ s.callStack = m_executiveStates[i].callStack
            /\ s.currentSeq = m_executiveStates[i].currentSeq
<1> DEFINE s == [m_executiveStates[i] EXCEPT !.skip = b]
<1>1. OnlyState(i, s)
  BY DEF OnlyState, Live
<1>2. /\ s \in ExecutiveState /\ s.skip = b /\ s.key = m_executiveStates[i].key
      /\ s.message = m_executiveStates[i].message
      /\ s.callStack = m_executiveStates[i].callStack
      /\ s.currentSeq = m_executiveStates[i].currentSeq
  BY DEF ExecutiveState
<1> QED BY <1>1, <1>2

LEMMA SetKey ==
  ASSUME NEW i \in Live, m_executiveStates[i] \in ExecutiveState, NEW a \in Addresses,
         m_executiveStates' = [m_executiveStates EXCEPT ![i].key = a]
  PROVE  \E s \in ExecutiveState :
            /\ OnlyState(i, s) /\ s.key = a /\ s.skip = m_executiveStates[i].skip
            /\ s.message = m_executiveStates[i].message
            /\ s.callStack = m_executiveStates[i].callStack
            /\ s.currentSeq = m_executiveStates[i].currentSeq
<1> DEFINE s == [m_executiveStates[i] EXCEPT !.key = a]
<1>1. OnlyState(i, s)
  BY DEF OnlyState, Live
<1>2. /\ s \in ExecutiveState /\ s.key = a /\ s.skip = m_executiveStates[i].skip
      /\ s.message = m_executiveStates[i].message
      /\ s.callStack = m_executiveStates[i].callStack
      /\ s.currentSeq = m_executiveStates[i].currentSeq
  BY DEF ExecutiveState
<1> QED BY <1>1, <1>2

LEMMA SetType ==
  ASSUME NEW i \in Live, m_executiveStates[i] \in ExecutiveState,
         m_executiveStates[i].message \in Message, NEW type \in MessageType,
         m_executiveStates' = [m_executiveStates EXCEPT ![i].message.type = type]
  PROVE  \E s \in ExecutiveState, m \in Message :
            /\ OnlyState(i, s) /\ s.skip = m_executiveStates[i].skip
            /\ s.key = m_executiveStates[i].key
            /\ s.callStack = m_executiveStates[i].callStack
            /\ s.currentSeq = m_executiveStates[i].currentSeq
            /\ s.message = m /\ m = [m_executiveStates[i].message EXCEPT !.type = type]
<1> DEFINE m == [m_executiveStates[i].message EXCEPT !.type = type]
           s == [m_executiveStates[i] EXCEPT !.message = m]
<1>1. m \in Message
  BY DEF Message
<1>2. m_executiveStates' = [m_executiveStates EXCEPT ![i] = s]
  BY DEF ExecutiveState
<1> HIDE DEF m
<1>3. /\ s \in ExecutiveState /\ s.key = m_executiveStates[i].key
      /\ s.skip = m_executiveStates[i].skip
      /\ s.message = m
      /\ s.callStack = m_executiveStates[i].callStack
      /\ s.currentSeq = m_executiveStates[i].currentSeq
  BY <1>1 DEF ExecutiveState
<1> HIDE DEF s
<1>4. OnlyState(i, s)
  BY <1>2 DEF OnlyState, Live
<1> QED BY <1>1, <1>3, <1>4 DEF m

\* What a walk finds in a state it has still to visit.
LEMMA Visited ==
  ASSUME Inv, NEW i \in todo, phase \in {"send", "deadlock", "locks"}
  PROVE  /\ i \in Live /\ i \in TxIDs /\ i \notin DOMAIN atExecutor
         /\ m_executiveStates[i] \in ExecutiveState
         /\ m_executiveStates[i].message \in Message
         /\ MsgOK(m_executiveStates[i], frames[i])
         /\ FramesOK(frames[i])
<1>1. i \in Live /\ i \in TxIDs /\ m_executiveStates[i] \in ExecutiveState
  BY DEF Inv, TypeOK, Live
<1>2. m_executiveStates[i].message # NoMessage
  <2>1. CASE phase = "send"
    BY <2>1 DEF Inv, BatchInv
  <2>2. CASE phase \in {"deadlock", "locks"}
    BY <1>1, <2>2 DEF Inv, BatchInv
  <2> QED BY <2>1, <2>2
<1>3. m_executiveStates[i].message \in Message
  BY <1>1, <1>2 DEF ExecutiveState
<1> QED BY <1>1, <1>2, <1>3 DEF Inv, FramesInv, SentOK

LEMMA WalkStep ==
  ASSUME Inv, m_keyLocks!KeyLockInv', phase \in {"send", "deadlock", "locks"},
         NEW i \in todo, NEW s \in ExecutiveState, OnlyState(i, s),
         s.message \in Message, MsgOK(s, frames[i]),
         todo' \in SUBSET todo, SkipInv', NothingSent',
         UNCHANGED <<m_executiveResults, batchVars, phase, executorVars>>
  PROVE  Inv'
<1>1. /\ i \in Live /\ i \in TxIDs /\ i \notin DOMAIN atExecutor
      /\ s.message # NoMessage
  BY Visited, NoMessageIsNone
<1>2. /\ DOMAIN m_executiveStates' = Live /\ m_executiveStates'[i] = s
      /\ \A j \in Live : j # i => m_executiveStates'[j] = m_executiveStates[j]
  BY DEF OnlyState
<1>3. /\ m_executiveResults' = m_executiveResults /\ calledContract' = calledContract
      /\ batchStatus' = batchStatus /\ checkers' = checkers /\ phase' = phase
      /\ atExecutor' = atExecutor /\ frames' = frames
  BY DEF batchVars, executorVars
<1>4. TypeOK'
  BY <1>2, <1>3 DEF Inv, TypeOK, Live, m_keyLocks!KeyLockInv
<1>5. FramesInv'
  BY <1>1, <1>2, <1>3 DEF Inv, FramesInv, TypeOK, Live
<1>6. BatchInv'
  <2>1. Cardinality(todo') <= Cardinality(todo) /\ Cardinality(todo') \in Nat
          /\ Cardinality(todo) \in Nat
    BY CardinalityFacts DEF Inv, TypeOK
  <2>2. batchStatus.total \in Nat /\ NumTx \in Nat
    BY ConstantsAssumption DEF Inv, TypeOK, BatchStatus
  <2>3. phase = "send" => batchStatus.total + Cardinality(todo') <= NumTx
    BY <2>1, <2>2 DEF Inv, BatchInv
  <2>4. \A j \in Live : m_executiveStates[j].message # NoMessage
                           => m_executiveStates'[j].message # NoMessage
    BY <1>1, <1>2
  <2> QED BY <1>2, <1>3, <2>3, <2>4 DEF Inv, BatchInv, Live, TypeOK
<1> QED BY <1>4, <1>5, <1>6 DEF Inv

LEMMA VisitSkipStep ==
  ASSUME Inv, m_keyLocks!KeyLockInv', NEW i, VisitSkip(i)
  PROVE  Inv'
<1>1. phase = "send" /\ i \in todo
  BY DEF VisitSkip, Visiting, Current
<1>2. /\ i \in Live /\ m_executiveStates[i] \in ExecutiveState
      /\ m_executiveStates[i].message \in Message
      /\ MsgOK(m_executiveStates[i], frames[i])
  BY <1>1, Visited
<1>3. PICK s \in ExecutiveState :
            /\ OnlyState(i, s) /\ s.skip = TRUE /\ s.key = m_executiveStates[i].key
            /\ s.message = m_executiveStates[i].message
            /\ s.callStack = m_executiveStates[i].callStack
            /\ s.currentSeq = m_executiveStates[i].currentSeq
  BY <1>2, SetSkip DEF VisitSkip
<1>4. MsgOK(s, frames[i])
  BY <1>2, <1>3, MsgOKDepends
<1>5. /\ todo' = todo \ SameKey(i) /\ calledContract' = calledContract /\ phase' = phase
      /\ UNCHANGED <<m_executiveResults, batchVars, phase, executorVars>>
  BY DEF VisitSkip, batchVars
<1>6. calledContract # {}
  BY DEF VisitSkip, Skipped
<1>7. todo \in SUBSET Live
  BY DEF Inv, TypeOK, Live
<1>8. SkipInv'
  <2>1. /\ DOMAIN m_executiveStates' = Live /\ m_executiveStates'[i] = s
        /\ \A j \in Live : j # i => m_executiveStates'[j] = m_executiveStates[j]
    BY <1>3 DEF OnlyState
  <2>2. \A j \in todo' : j \in todo /\ j # i /\ m_executiveStates[j].key # m_executiveStates[i].key
    BY <1>1, <1>5 DEF SameKey
  <2> QED BY <1>1, <1>2, <1>3, <1>5, <1>6, <1>7, <2>1, <2>2 DEF Inv, SkipInv, Live
<1>9. NothingSent'
  BY <1>1, <1>5, <1>6 DEF Inv, BatchInv, NothingSent, batchVars
<1>10. todo' \in SUBSET todo
  BY <1>5
<1> QED BY <1>1, <1>2, <1>3, <1>4, <1>5, <1>8, <1>9, <1>10, WalkStep

\* A state without a mark is visited; its key changes in the last walk only.
LEMMA UpdateStep ==
  ASSUME Inv, m_keyLocks!KeyLockInv', phase \in {"send", "deadlock", "locks"},
         NEW i \in todo, NEW s \in ExecutiveState, OnlyState(i, s), ~s.skip,
         s.message \in Message, MsgOK(s, frames[i]),
         s.key = m_executiveStates[i].key \/ phase = "locks",
         todo' \in SUBSET todo, 
         \A j \in todo : j # i => j \in todo' \/ phase = "deadlock",
         ~m_executiveStates[i].skip,
         phase = "send" => s.message.type = "KEY_LOCK",
         phase = "deadlock" => s.message.type \in {"KEY_LOCK", "REVERT_KEY_LOCK"},
         UNCHANGED <<m_executiveResults, batchVars, phase, executorVars>>
  PROVE  Inv'
<1>1. i \in Live
  BY Visited
<1>2. /\ DOMAIN m_executiveStates' = Live /\ m_executiveStates'[i] = s
      /\ \A j \in Live : j # i => m_executiveStates'[j] = m_executiveStates[j]
  BY DEF OnlyState
<1>3. calledContract' = calledContract /\ phase' = phase
  BY DEF batchVars
<1>4. todo' \in SUBSET todo /\ todo \in SUBSET Live
  BY DEF Inv, TypeOK, Live
<1>5. SkipInv'
  BY <1>1, <1>2, <1>3, <1>4 DEF Inv, SkipInv, Live
<1>6. NothingSent'
  <2>1. batchStatus' = batchStatus
    BY DEF batchVars
  <2>2. phase = "send" => \A j \in Live \ todo' : j \in Live \ todo \/ j = i
    BY <1>4
  <2> QED BY <1>1, <1>2, <1>3, <1>4, <2>1, <2>2 DEF Inv, NothingSent, Live
<1> QED BY <1>4, <1>5, <1>6, WalkStep

\* The walk passes over a state.
LEMMA PassStep ==
  ASSUME Inv, m_keyLocks!KeyLockInv', phase \in {"send", "deadlock", "locks"},
         NEW i \in todo, ~m_executiveStates[i].skip, todo' = todo \ {i},
         phase = "send" => m_executiveStates[i].message.type = "KEY_LOCK",
         UNCHANGED <<m_executiveStates, m_executiveResults, batchVars, phase, executorVars>>
  PROVE  Inv'
<1>1. /\ m_executiveStates[i] \in ExecutiveState
      /\ m_executiveStates[i].message \in Message
      /\ MsgOK(m_executiveStates[i], frames[i])
  BY Visited
<1>2. PICK s \in ExecutiveState : s = m_executiveStates[i]
  BY <1>1
<1>3. OnlyState(i, s)
  BY <1>2 DEF OnlyState, Live
<1>4. UNCHANGED <<m_executiveResults, batchVars, phase, executorVars>>
  OBVIOUS
<1>5. /\ ~s.skip /\ s.key = m_executiveStates[i].key /\ s.message \in Message
      /\ MsgOK(s, frames[i])
      /\ todo' \in SUBSET todo /\ \A j \in todo : j # i => j \in todo'
      /\ s.message.type = m_executiveStates[i].message.type
  BY <1>1, <1>2
<1>6. phase = "deadlock" => s.message.type \in {"KEY_LOCK", "REVERT_KEY_LOCK"}
  BY <1>5, Visited DEF Inv, NothingSent
<1> QED BY <1>3, <1>4, <1>5, <1>6, UpdateStep

LEMMA NoMarks ==
  ASSUME Inv, NEW i \in todo, phase \in {"send", "deadlock"}
  PROVE  ~m_executiveStates[i].skip
<1>1. i \in Live
  BY DEF Inv, TypeOK, Live
<1>2. CASE phase = "send"
  BY <1>1, <1>2 DEF Inv, SkipInv
<1>3. CASE phase = "deadlock"
  BY <1>1, <1>3 DEF Inv, SkipInv, BatchInv
<1> QED BY <1>2, <1>3

LEMMA VisitWaitStep ==
  ASSUME Inv, m_keyLocks!KeyLockInv', NEW i, VisitWait(i)
  PROVE  Inv'
<1>1. phase = "send" /\ i \in todo /\ todo' = todo \ {i}
  BY DEF VisitWait, Visiting, Current
<1>2. UNCHANGED <<m_executiveStates, m_executiveResults, batchVars, phase, executorVars>>
  BY DEF VisitWait
<1>3. m_executiveStates[i].message.type = "KEY_LOCK"
  BY DEF VisitWait
<1> QED BY <1>1, <1>2, <1>3, NoMarks, PassStep

LEMMA VisitNoVictimStep ==
  ASSUME Inv, m_keyLocks!KeyLockInv', NEW i, VisitNoVictim(i)
  PROVE  Inv'
<1>1. phase = "deadlock" /\ i \in todo /\ todo' = todo \ {i} /\ ~m_executiveStates[i].skip
  BY DEF VisitNoVictim, Current
<1>2. UNCHANGED <<m_executiveStates, m_executiveResults, batchVars, phase, executorVars>>
  BY DEF VisitNoVictim
<1> QED BY <1>1, <1>2, PassStep

LEMMA UpdateSkippedStep ==
  ASSUME Inv, m_keyLocks!KeyLockInv', NEW i, UpdateSkipped(i)
  PROVE  Inv'
<1>1. phase \in {"deadlock", "locks"} /\ i \in todo /\ m_executiveStates[i].skip
  BY DEF UpdateSkipped, Current
<1>2. phase = "locks"
  BY <1>1, NoMarks
<1>3. /\ i \in Live /\ m_executiveStates[i] \in ExecutiveState
      /\ m_executiveStates[i].message \in Message
      /\ MsgOK(m_executiveStates[i], frames[i])
  BY <1>1, Visited
<1>4. PICK s \in ExecutiveState :
            /\ OnlyState(i, s) /\ s.skip = FALSE /\ s.key = m_executiveStates[i].key
            /\ s.message = m_executiveStates[i].message
            /\ s.callStack = m_executiveStates[i].callStack
            /\ s.currentSeq = m_executiveStates[i].currentSeq
  BY <1>3, SetSkip DEF UpdateSkipped
<1>5. MsgOK(s, frames[i])
  BY <1>3, <1>4, MsgOKDepends
<1>6. /\ todo' = todo \ SameKey(i) /\ calledContract' = calledContract /\ phase' = phase
      /\ UNCHANGED <<m_executiveResults, batchVars, phase, executorVars>>
  BY DEF UpdateSkipped, batchVars
<1>7. SkipInv'
  <2>1. /\ DOMAIN m_executiveStates' = Live /\ m_executiveStates'[i] = s
        /\ \A j \in Live : j # i => m_executiveStates'[j] = m_executiveStates[j]
    BY <1>4 DEF OnlyState
  <2>2. \A j \in todo : m_executiveStates[j].key # m_executiveStates[i].key => j \in todo'
    BY <1>6 DEF SameKey
  <2> QED BY <1>1, <1>2, <1>3, <1>4, <1>6, <2>1, <2>2 DEF Inv, SkipInv, Live
<1>8. NothingSent'
  BY <1>2, <1>6 DEF NothingSent
<1>9. todo' \in SUBSET todo
  BY <1>6
<1> QED BY <1>1, <1>2, <1>3, <1>4, <1>5, <1>6, <1>7, <1>8, <1>9, WalkStep

LEMMA KeyStep ==
  ASSUME Inv, m_keyLocks!KeyLockInv', phase = "locks",
         NEW i \in todo, ~m_executiveStates[i].skip, todo' = todo \ {i}, Update(i),
         UNCHANGED <<m_executiveResults, batchVars, phase, executorVars>>
  PROVE  Inv'
<1>1. /\ i \in Live /\ m_executiveStates[i] \in ExecutiveState
      /\ m_executiveStates[i].message \in Message
      /\ MsgOK(m_executiveStates[i], frames[i])
  BY Visited
<1>2. m_executiveStates[i].message.to \in Addresses
  BY <1>1 DEF Message
<1>3. PICK s \in ExecutiveState :
            /\ OnlyState(i, s) /\ s.skip = m_executiveStates[i].skip
            /\ s.message = m_executiveStates[i].message
            /\ s.callStack = m_executiveStates[i].callStack
            /\ s.currentSeq = m_executiveStates[i].currentSeq
  BY <1>1, <1>2, SetKey DEF Update
<1>4. MsgOK(s, frames[i])
  BY <1>1, <1>3, MsgOKDepends
<1>5. /\ ~s.skip /\ s.message \in Message
      /\ todo' \in SUBSET todo /\ \A j \in todo : j # i => j \in todo'
  BY <1>1, <1>3
<1> QED BY <1>3, <1>4, <1>5, UpdateStep

LEMMA UpdateAcquireStep ==
  ASSUME Inv, m_keyLocks!KeyLockInv', NEW i, UpdateAcquire(i)
  PROVE  Inv'
<1>1. phase = "locks" /\ i \in todo /\ todo' = todo \ {i} /\ ~m_executiveStates[i].skip
  BY DEF UpdateAcquire, Updating, Current
<1>2. UNCHANGED <<m_executiveResults, batchVars, phase, executorVars>>
  BY DEF UpdateAcquire
<1>3. CASE UNCHANGED m_executiveStates
  BY <1>1, <1>2, <1>3, PassStep
<1>4. CASE Update(i)
  BY <1>1, <1>2, <1>4, KeyStep
<1> QED BY <1>3, <1>4 DEF UpdateAcquire

LEMMA UpdateReleaseStep ==
  ASSUME Inv, m_keyLocks!KeyLockInv', NEW i, UpdateRelease(i)
  PROVE  Inv'
<1>1. phase = "locks" /\ i \in todo /\ todo' = todo \ {i} /\ ~m_executiveStates[i].skip
  BY DEF UpdateRelease, Updating, Current
<1>2. UNCHANGED <<m_executiveResults, batchVars, phase, executorVars>> /\ Update(i)
  BY DEF UpdateRelease
<1> QED BY <1>1, <1>2, KeyStep

LEMMA VisitVictimStep ==
  ASSUME Inv, m_keyLocks!KeyLockInv', NEW i, VisitVictim(i)
  PROVE  Inv'
<1>1. /\ phase = "deadlock" /\ i \in todo /\ todo' = {} /\ ~m_executiveStates[i].skip
      /\ UNCHANGED <<m_executiveResults, batchVars, phase, executorVars>>
  BY DEF VisitVictim, Current
<1>2. /\ i \in Live /\ m_executiveStates[i] \in ExecutiveState
      /\ m_executiveStates[i].message \in Message
      /\ MsgOK(m_executiveStates[i], frames[i])
  BY <1>1, Visited
<1>3. m_executiveStates[i].message.type \in {"KEY_LOCK", "REVERT_KEY_LOCK"}
  BY <1>1, <1>2 DEF Inv, NothingSent
<1>4. "REVERT_KEY_LOCK" \in MessageType
  BY DEF MessageType
<1>5. PICK s \in ExecutiveState, m \in Message :
            /\ OnlyState(i, s) /\ s.skip = m_executiveStates[i].skip
            /\ s.key = m_executiveStates[i].key
            /\ s.callStack = m_executiveStates[i].callStack
            /\ s.currentSeq = m_executiveStates[i].currentSeq
            /\ s.message = m /\ m = [m_executiveStates[i].message EXCEPT !.type = "REVERT_KEY_LOCK"]
  BY <1>2, <1>4, SetType DEF VisitVictim
<1>6. /\ m.type = "REVERT_KEY_LOCK" /\ m.seq = m_executiveStates[i].message.seq
      /\ m.to = m_executiveStates[i].message.to /\ m.from = m_executiveStates[i].message.from
      /\ m.createSalt = m_executiveStates[i].message.createSalt
      /\ m.keyLockAcquired = m_executiveStates[i].message.keyLockAcquired
  BY <1>2, <1>5 DEF Message
<1>7. MsgOK(s, frames[i])
  BY <1>2, <1>3, <1>5, <1>6 DEF MsgOK, RequestType, ReturnType
<1>8. /\ todo' \in SUBSET todo /\ ~s.skip /\ s.message \in Message
      /\ s.message.type = "REVERT_KEY_LOCK"
  BY <1>1, <1>5, <1>6
<1> QED BY <1>1, <1>5, <1>7, <1>8, UpdateStep

-----------------------------------------------------------------------------
(* Steps that send a message.                                              *)

LEMMA BatchTypes ==
  ASSUME Inv
  PROVE  /\ batchStatus \in BatchStatus /\ NumTx \in Nat
         /\ batchStatus.total \in Nat /\ batchStatus.received \in Nat /\ batchStatus.error \in Nat
         /\ checkers \in Nat
         /\ Cardinality(DOMAIN atExecutor) \in Nat /\ Cardinality(todo) \in Nat
         /\ Live \in SUBSET TxIDs /\ DOMAIN atExecutor \in SUBSET TxIDs /\ todo \in SUBSET TxIDs
<1>1. Live \in SUBSET TxIDs /\ DOMAIN atExecutor \in SUBSET TxIDs /\ todo \in SUBSET TxIDs
  BY DEF Inv, TypeOK, Live
<1>2. Cardinality(DOMAIN atExecutor) \in Nat /\ Cardinality(todo) \in Nat
  BY <1>1, CardinalityFacts
<1> QED BY <1>1, <1>2, ConstantsAssumption DEF Inv, TypeOK, BatchStatus

LEMMA DispatchStep ==
  ASSUME Inv, m_keyLocks!KeyLockInv', NEW i, Visiting(i),
         NEW s1, NEW m1, Sendable(m_executiveStates[i], s1, m1, frames[i]),
         Dispatch(i, s1, m1)
  PROVE  Inv'
<1> DEFINE s == [s1 EXCEPT !.message = NoMessage]
           m == [m1 EXCEPT !.keyLocks = LockedKeys(i, m1)]
<1>1. phase = "send" /\ i \in todo
  BY DEF Visiting, Current
<1>2. i \in Live /\ i \in TxIDs /\ i \notin DOMAIN atExecutor
  BY <1>1, Visited
<1>3. /\ s \in ExecutiveState /\ s.key = m_executiveStates[i].key
      /\ s.skip = m_executiveStates[i].skip /\ s.message = NoMessage
      /\ SentOK(s, m1, frames[i])
  BY DEF Sendable, ExecutiveState
<1>4. LockedKeys(i, m1) \in SUBSET Keys
  BY DEF LockedKeys, m_keyLocks!GetKeyLocksNotHoldingByContext
<1>5. /\ m \in Message /\ m.type = m1.type /\ m.to = m1.to /\ m.seq = m1.seq
      /\ m.keyLockAcquired = m1.keyLockAcquired
  BY <1>4 DEF Sendable, Message
<1>6. /\ m_executiveStates' = [m_executiveStates EXCEPT ![i] = s]
      /\ atExecutor' = With(atExecutor, i, m)
      /\ calledContract' = calledContract \cup {m.to}
      /\ batchStatus' = [batchStatus EXCEPT !.total = @ + 1]
      /\ todo' = todo \ {i}
      /\ m_executiveResults' = m_executiveResults /\ checkers' = checkers
      /\ phase' = phase /\ frames' = frames
  BY <1>5 DEF Dispatch
<1> HIDE DEF s, m
<1>7. /\ DOMAIN m_executiveStates' = Live /\ m_executiveStates'[i] = s
      /\ \A j \in Live : j # i => m_executiveStates'[j] = m_executiveStates[j]
  BY <1>2, <1>6, OneState DEF Live
<1>8. /\ DOMAIN atExecutor' = DOMAIN atExecutor \cup {i} /\ atExecutor'[i] = m
      /\ \A j \in DOMAIN atExecutor : j # i => atExecutor'[j] = atExecutor[j]
  BY <1>6 DEF With
<1>9. SentOK(s, m, frames[i])
  BY <1>3, <1>5 DEF SentOK, OpenedOn
<1>10. /\ batchStatus'.total = batchStatus.total + 1
       /\ batchStatus'.received = batchStatus.received /\ batchStatus'.error = batchStatus.error
       /\ batchStatus'.allSended = batchStatus.allSended
       /\ batchStatus'.callbackExecuted = batchStatus.callbackExecuted
       /\ Cardinality(todo') = Cardinality(todo) - 1
       /\ Cardinality(DOMAIN atExecutor') = Cardinality(DOMAIN atExecutor) + 1
  <2>1. Cardinality(todo \ {i}) = Cardinality(todo) - 1
    BY <1>1, BatchTypes, CardinalityFacts
  <2>2. Cardinality(DOMAIN atExecutor \cup {i}) = Cardinality(DOMAIN atExecutor) + 1
    BY <1>2, BatchTypes, CardinalityFacts
  <2> QED BY <1>6, <1>8, <2>1, <2>2, BatchTypes DEF BatchStatus
<1>11. batchStatus' \in BatchStatus
  <2>1. batchStatus.total + 1 <= NumTx
    <3>1. batchStatus.total + Cardinality(todo) <= NumTx
      BY <1>1 DEF Inv, BatchInv
    <3>2. Cardinality(todo) # 0
      BY <1>1, BatchTypes, CardinalityFacts
    <3> QED BY <3>1, <3>2, BatchTypes
  <2> QED BY <1>6, <2>1, BatchTypes DEF BatchStatus
<1>12. TypeOK'
  <2>1. calledContract' \in SUBSET Addresses
    BY <1>5, <1>6 DEF Inv, TypeOK, Message
  <2>2. \A j \in DOMAIN atExecutor' : atExecutor'[j] \in Message
    BY <1>5, <1>8 DEF Inv, TypeOK
  <2>3. \A j \in Live : m_executiveStates'[j] \in ExecutiveState
    BY <1>3, <1>7 DEF Inv, TypeOK, Live
  <2>4. DOMAIN atExecutor' \in SUBSET Live /\ todo' \in SUBSET Live
    BY <1>2, <1>6, <1>8 DEF Inv, TypeOK, Live
  <2> QED BY <1>6, <1>7, <1>11, <2>1, <2>2, <2>3, <2>4
          DEF Inv, TypeOK, Live, m_keyLocks!KeyLockInv
<1>13. FramesInv'
  BY <1>3, <1>6, <1>7, <1>8, <1>9 DEF Inv, FramesInv, TypeOK, Live
<1>14. BatchInv'
  <2>0. /\ batchStatus.received + Cardinality(DOMAIN atExecutor) = batchStatus.total
        /\ batchStatus.total + Cardinality(todo) <= NumTx
    BY <1>1 DEF Inv, BatchInv
  <2>1. batchStatus.received + (Cardinality(DOMAIN atExecutor) + 1) = batchStatus.total + 1
    BY <2>0, BatchTypes
  <2>2. (batchStatus.total + 1) + (Cardinality(todo) - 1) <= NumTx
    BY <2>0, BatchTypes
  <2>3. batchStatus'.total # 0
    BY <1>10, BatchTypes
  <2>4. /\ \A j \in todo' : m_executiveStates'[j].message # NoMessage
        /\ ~batchStatus.allSended /\ ~batchStatus.callbackExecuted
    BY <1>1, <1>6, <1>7 DEF Inv, BatchInv, TypeOK, Live
  <2>5. batchStatus.error = 0 =>
          \A j \in Live : m_executiveStates'[j].message # NoMessage \/ j \in DOMAIN atExecutor'
    BY <1>7, <1>8 DEF Inv, BatchInv
  <2> QED BY <1>1, <1>6, <1>7, <1>10, <2>1, <2>2, <2>3, <2>4, <2>5 DEF Inv, BatchInv, Live
<1>15. SkipInv'
  BY <1>1, <1>3, <1>6, <1>7 DEF Inv, SkipInv, Live, TypeOK
<1>16. NothingSent'
  <2>1. batchStatus'.total # 0
    BY <1>10, BatchTypes
  <2> QED BY <1>1, <1>6, <2>1 DEF NothingSent
<1> QED BY <1>12, <1>13, <1>14, <1>15, <1>16 DEF Inv

LEMMA SendStep ==
  ASSUME Inv, m_keyLocks!KeyLockInv', NEW i,
         \/ VisitRequest(i) \/ VisitReturn(i) \/ VisitRevertKeyLock(i)
         \/ VisitAcquire(i) \/ VisitSendBack(i)
  PROVE  Inv'
<1> DEFINE s == m_executiveStates[i]
<1>1. Visiting(i)
  BY DEF VisitRequest, VisitReturn, VisitRevertKeyLock, VisitAcquire, VisitSendBack
<1>2. /\ i \in TxIDs /\ s \in ExecutiveState /\ s.message \in Message
      /\ MsgOK(s, frames[i]) /\ FramesOK(frames[i])
  BY <1>1, Visited DEF Visiting, Current
<1>3. \E s1, m1 : Sendable(s, s1, m1, frames[i]) /\ Dispatch(i, s1, m1)
  <2>1. CASE VisitRequest(i)
    <3>1. s.message.type \in RequestType
      BY <2>1 DEF VisitRequest
    <3>2. Dispatch(i, [s EXCEPT !.currentSeq = @ + 1, !.callStack = Append(@, NewSeq(s))],
                   [s.message EXCEPT !.seq = NewSeq(s), !.to = ResolveTo(i, s.message, NewSeq(s))])
      BY <2>1 DEF VisitRequest
    <3> QED BY <1>2, <3>1, <3>2, RequestSent
  <2>2. CASE VisitReturn(i)
    <3>1. s.message.type \in ReturnType /\ Len(s.callStack) # 1
      BY <2>2 DEF VisitReturn, IsLastFrame
    <3>2. Dispatch(i, [s EXCEPT !.callStack = Front(@)],
                   [s.message EXCEPT !.seq = CallerSeq(s.callStack)])
      BY <2>2 DEF VisitReturn
    <3> QED BY <1>2, <3>1, <3>2, ReturnSent
  <2>3. CASE VisitRevertKeyLock(i)
    <3> DEFINE m1 == [s.message EXCEPT !.type = "REVERT"]
    <3>1. s.message.type = "REVERT_KEY_LOCK" /\ Dispatch(i, s, m1)
      BY <2>3 DEF VisitRevertKeyLock
    <3>2. m1 \in Message /\ m1.type = "REVERT" /\ m1.seq = s.message.seq /\ m1.to = s.message.to
      BY <1>2 DEF Message, MessageType, ReturnType
    <3>3. Sendable(s, s, m1, frames[i])
      BY <1>2, <3>1, <3>2, WaitingSent
    <3> QED BY <3>1, <3>3
  <2>4. CASE VisitAcquire(i)
    <3>1. s.message.type = "KEY_LOCK" /\ Dispatch(i, s, s.message)
      BY <2>4 DEF VisitAcquire
    <3>2. Sendable(s, s, s.message, frames[i])
      BY <1>2, <3>1, WaitingSent
    <3> QED BY <3>1, <3>2
  <2>5. CASE VisitSendBack(i)
    <3>1. /\ s.message.type = "SEND_BACK"
          /\ Dispatch(i, s, [s.message EXCEPT !.type = TopType,
                                              !.to = ResolveTo(i, s.message, s.message.seq)])
      BY <2>5 DEF VisitSendBack
    <3> QED BY <1>2, <3>1, SendBackSent
  <2> QED BY <2>1, <2>2, <2>3, <2>4, <2>5
<1> QED BY <1>1, <1>3, DispatchStep

-----------------------------------------------------------------------------
(* Answers.                                                                *)

LEMMA AnswerStep ==
  ASSUME Inv, m_keyLocks!KeyLockInv', NEW i \in DOMAIN atExecutor,
         NEW r, NEW errors, NEW G, ExecuteCallback(i, r, errors),
         \/ errors = 0 /\ Answerable(m_executiveStates[i], r, G)
         \/ errors = 1 /\ r = NoMessage /\ FramesOK(G),
         \A j \in TxIDs : frames'[j] = IF j = i THEN G ELSE frames[j],
         frames' \in [TxIDs -> Seq(Frame)]
  PROVE  Inv'
<1> DEFINE s == [m_executiveStates[i] EXCEPT !.message = r]
<1>1. /\ i \in Live /\ i \in TxIDs /\ m_executiveStates[i] \in ExecutiveState
      /\ phase \in {"send", "wait"} /\ m_executiveStates[i].message = NoMessage
      /\ phase = "send" => i \notin todo
  BY DEF Inv, TypeOK, BatchInv, FramesInv, SentOK, Live
<1>2. /\ m_executiveStates' = [m_executiveStates EXCEPT ![i] = s]
      /\ atExecutor' = Without(atExecutor, i)
      /\ batchStatus' = [batchStatus EXCEPT !.received = @ + 1, !.error = @ + errors]
      /\ checkers' = checkers + 1
      /\ m_executiveResults' = m_executiveResults /\ todo' = todo
      /\ calledContract' = calledContract /\ phase' = phase
  BY <1>1 DEF ExecuteCallback, ExecutiveState
<1>3. /\ s \in ExecutiveState /\ s.message = r /\ s.key = m_executiveStates[i].key
      /\ s.skip = m_executiveStates[i].skip
  BY <1>1 DEF Answerable, ExecutiveState
<1>4. r # NoMessage => MsgOK(s, G)
  BY DEF Answerable
<1>5. FramesOK(G) /\ errors \in {0, 1} /\ (r = NoMessage => errors = 1)
  BY NoMessageIsNone DEF Answerable
<1> HIDE DEF s
<1>6. /\ DOMAIN m_executiveStates' = Live /\ m_executiveStates'[i] = s
      /\ \A j \in Live : j # i => m_executiveStates'[j] = m_executiveStates[j]
  BY <1>1, <1>2, OneState DEF Live
<1>7. /\ DOMAIN atExecutor' = DOMAIN atExecutor \ {i}
      /\ \A j \in DOMAIN atExecutor : j # i => atExecutor'[j] = atExecutor[j]
  BY <1>2 DEF Without, Restrict
<1>8. /\ batchStatus'.total = batchStatus.total
      /\ batchStatus'.received = batchStatus.received + 1
      /\ batchStatus'.error = batchStatus.error + errors
      /\ batchStatus'.allSended = batchStatus.allSended
      /\ batchStatus'.callbackExecuted = batchStatus.callbackExecuted
  BY <1>2, BatchTypes DEF BatchStatus
<1>9. /\ Cardinality(DOMAIN atExecutor') = Cardinality(DOMAIN atExecutor) - 1
      /\ Cardinality(DOMAIN atExecutor) # 0
  <2>1. /\ Cardinality(DOMAIN atExecutor \ {i}) = Cardinality(DOMAIN atExecutor) - 1
        /\ Cardinality(DOMAIN atExecutor) # 0
    BY BatchTypes, CardinalityFacts
  <2> QED BY <1>7, <2>1
<1>10. /\ batchStatus.received + 1 <= batchStatus.total
       /\ batchStatus.error + errors <= batchStatus.received + 1
       /\ (batchStatus.received + 1) + (Cardinality(DOMAIN atExecutor) - 1) = batchStatus.total
       /\ batchStatus.total # 0
       /\ batchStatus.error + errors \in Nat
       /\ batchStatus.error + errors = 0 => errors = 0 /\ batchStatus.error = 0
  <2>1. /\ batchStatus.received + Cardinality(DOMAIN atExecutor) = batchStatus.total
        /\ batchStatus.error <= batchStatus.received
    BY DEF Inv, BatchInv
  <2>3. /\ batchStatus.received + 1 <= batchStatus.total
        /\ (batchStatus.received + 1) + (Cardinality(DOMAIN atExecutor) - 1) = batchStatus.total
        /\ batchStatus.total # 0
    <3>1. /\ batchStatus.received \in Nat /\ batchStatus.total \in Nat
          /\ Cardinality(DOMAIN atExecutor) \in Nat /\ Cardinality(DOMAIN atExecutor) # 0
      BY <1>9, BatchTypes
    <3> QED BY <2>1, <3>1
  <2>4. /\ batchStatus.error + errors <= batchStatus.received + 1
        /\ batchStatus.error + errors \in Nat
        /\ batchStatus.error + errors = 0 => errors = 0 /\ batchStatus.error = 0
    <3>1. batchStatus.error \in Nat /\ batchStatus.received \in Nat
      BY BatchTypes
    <3>2. CASE errors = 0
      BY <2>1, <3>1, <3>2
    <3>3. CASE errors = 1
      BY <2>1, <3>1, <3>3
    <3> QED BY <1>5, <3>2, <3>3
  <2> QED BY <2>3, <2>4
<1>11. checkers + 1 <= (batchStatus.received + 1) + (IF batchStatus.allSended THEN 1 ELSE 0)
  <2>1. PICK n \in {0, 1} : n = IF batchStatus.allSended THEN 1 ELSE 0
    OBVIOUS
  <2>2. checkers <= batchStatus.received + n
    BY <2>1 DEF Inv, BatchInv
  <2>3. checkers + 1 <= (batchStatus.received + 1) + n
    BY <2>2, BatchTypes
  <2> QED BY <2>1, <2>3
<1>12. batchStatus' \in BatchStatus /\ checkers' \in 0 .. NumTx + 1
  <2>1. batchStatus.total <= NumTx
    BY BatchTypes DEF BatchStatus
  <2>2. checkers + 1 <= batchStatus.received + 2
    BY <1>11, BatchTypes
  <2>3. batchStatus.received + 1 \in 0 .. NumTx /\ batchStatus.error + errors \in 0 .. NumTx
    <3>1. batchStatus.received + 1 \in Nat /\ batchStatus.received + 1 <= NumTx
      BY <1>10, <2>1, BatchTypes
    <3>2. PICK e \in Nat : e = batchStatus.error + errors
      BY <1>10
    <3>3. e <= NumTx
      BY <1>10, <3>1, <3>2, BatchTypes
    <3> QED BY <3>1, <3>2, <3>3
  <2>4. checkers + 1 \in 0 .. NumTx + 1
    <3>1. /\ checkers \in Nat /\ batchStatus.received \in Nat /\ NumTx \in Nat
          /\ batchStatus.total \in Nat /\ batchStatus.received + 1 <= batchStatus.total
      BY <1>10, BatchTypes
    <3> QED BY <2>1, <2>2, <3>1
  <2>5. batchStatus' \in BatchStatus
    BY <1>2, <2>3, BatchTypes DEF BatchStatus
  <2> QED BY <1>2, <2>4, <2>5
<1>13. TypeOK'
  <2>1. \A j \in DOMAIN atExecutor' : atExecutor'[j] \in Message
    BY <1>7 DEF Inv, TypeOK
  <2>2. \A j \in Live : m_executiveStates'[j] \in ExecutiveState
    BY <1>3, <1>6 DEF Inv, TypeOK, Live
  <2>3. DOMAIN atExecutor' \in SUBSET Live
    BY <1>7 DEF Inv, TypeOK, Live
  <2> QED BY <1>2, <1>6, <1>12, <2>1, <2>2, <2>3 DEF Inv, TypeOK, Live, m_keyLocks!KeyLockInv
<1>14. FramesInv'
  <2>1. \A j \in TxIDs : FramesOK(frames'[j])
    BY <1>5 DEF Inv, FramesInv
  <2>2. \A j \in DOMAIN atExecutor' : SentOK(m_executiveStates'[j], atExecutor'[j], frames'[j])
    BY <1>6, <1>7, BatchTypes DEF Inv, FramesInv, TypeOK, Live
  <2>3. \A j \in Live : m_executiveStates'[j].message # NoMessage =>
                           MsgOK(m_executiveStates'[j], frames'[j])
    BY <1>3, <1>4, <1>6, BatchTypes DEF Inv, FramesInv
  <2>4. \A j \in m_executiveResults : frames'[j] = <<>>
    BY <1>1 DEF Inv, FramesInv, TypeOK
  <2>5. Live = TxIDs \ m_executiveResults
    BY DEF Inv, FramesInv
  <2> QED BY <1>2, <1>6, <2>1, <2>2, <2>3, <2>4, <2>5 DEF FramesInv, Live
<1>15. BatchInv'
  <2>1. /\ phase = "send" => /\ batchStatus.total + Cardinality(todo) <= NumTx
                             /\ ~batchStatus.allSended /\ ~batchStatus.callbackExecuted
                             /\ \A j \in todo : m_executiveStates'[j].message # NoMessage
        /\ phase = "wait" => batchStatus.allSended /\ todo = {}
    BY <1>1, <1>6 DEF Inv, BatchInv, TypeOK, Live
  <2>2. batchStatus.error + errors = 0 =>
          \A j \in Live : m_executiveStates'[j].message # NoMessage \/ j \in DOMAIN atExecutor'
    <3> HAVE batchStatus.error + errors = 0
    <3>1. r # NoMessage /\ batchStatus.error = 0
      BY <1>5, <1>10
    <3>2. \A j \in Live : m_executiveStates[j].message # NoMessage \/ j \in DOMAIN atExecutor
      BY <3>1 DEF Inv, BatchInv
    <3> QED BY <1>3, <1>6, <1>7, <3>1, <3>2
  <2> QED BY <1>1, <1>2, <1>6, <1>8, <1>9, <1>10, <1>11, <2>1, <2>2 DEF BatchInv, Live
<1>16. SkipInv'
  BY <1>1, <1>2, <1>3, <1>6 DEF Inv, SkipInv, Live, TypeOK
<1>17. NothingSent'
  BY <1>1, <1>2, <1>8, <1>10 DEF NothingSent
<1> QED BY <1>13, <1>14, <1>15, <1>16, <1>17 DEF Inv

LEMMA CalleeTypes ==
  ASSUME NEW m, NEW callee \in Callees(m)
  PROVE  /\ callee[1] \in Contracts \cup {NoAddress} /\ callee[2] \in BOOLEAN
         /\ callee[2] => m.to \in Contracts /\ "CREATE2" \in Replies
         /\ callee[1] \in Addresses
<1>1. \/ callee \in Contracts \X {FALSE}
      \/ callee = <<NoAddress, FALSE>>
      \/ callee = <<NoAddress, TRUE>> /\ m.to \in Contracts /\ "CREATE2" \in Replies
  BY Zenon DEF Callees
<1>2. CASE callee \in Contracts \X {FALSE}
  BY <1>2, AddressTypes
<1>3. CASE callee = <<NoAddress, FALSE>>
  BY <1>3, AddressTypes
<1>4. CASE callee = <<NoAddress, TRUE>> /\ m.to \in Contracts /\ "CREATE2" \in Replies
  BY <1>4, AddressTypes
<1> QED BY <1>1, <1>2, <1>3, <1>4

LEMMA RespondStep ==
  ASSUME Inv, m_keyLocks!KeyLockInv', NEW i, Respond(i)
  PROVE  Inv'
<1> DEFINE s == m_executiveStates[i]
           m == atExecutor[i]
           F == frames[i]
<1>1. i \in DOMAIN atExecutor
  BY DEF Respond, RespondCall, RespondReturn, RespondKeyLock, RespondError
<1>2. /\ i \in TxIDs /\ s \in ExecutiveState /\ m \in Message
      /\ FramesOK(F) /\ SentOK(s, m, F)
  BY <1>1 DEF Inv, TypeOK, FramesInv
<1>3. frames \in [TxIDs -> Seq(Frame)] /\ Opened(i, m) = OpenedOn(F, m)
  BY DEF Inv, TypeOK, Opened, OpenedOn
<1>4. \A locks \in Touched(m) : locks \in SUBSET Keys
  BY DEF Touched
<1>5. m.keyLocks \in SUBSET Keys
  BY <1>2 DEF Message
<1>6. ASSUME NEW r, NEW G, ExecuteCallback(i, r, 0), Answerable(s, r, G),
             frames' = [frames EXCEPT ![i] = G]
      PROVE  Inv'
  <2>1. /\ \A j \in TxIDs : frames'[j] = IF j = i THEN G ELSE frames[j]
        /\ frames' \in [TxIDs -> Seq(Frame)]
    BY <1>2, <1>3, <1>6 DEF Answerable, FramesOK
  <2> QED BY <1>1, <1>6, <2>1, AnswerStep
<1>7. CASE RespondCall(i)
  <2>1. PICK callee \in Callees(m), locks \in Touched(m) :
           ExecuteCallback(i, Response(m, "MESSAGE", callee[1], callee[2], locks, NoKey), 0)
    BY <1>7 DEF RespondCall
  <2>2. s.currentSeq <= MaxSeq /\ frames' = [frames EXCEPT ![i] = OpenedOn(F, m)]
    BY <1>3, <1>7 DEF RespondCall
  <2>3. /\ callee[1] \in Contracts \cup {NoAddress} /\ callee[2] \in BOOLEAN
        /\ callee[2] => m.to \in Contracts
    BY CalleeTypes
  <2>4. Answerable(s, Response(m, "MESSAGE", callee[1], callee[2], locks, NoKey), OpenedOn(F, m))
    BY <1>2, <1>4, <2>2, <2>3, CallAnswer
  <2> QED BY <1>6, <2>1, <2>2, <2>4
<1>8. CASE RespondReturn(i)
  <2> DEFINE G == Front(Opened(i, m))
             to == IF G = <<>> THEN m.to ELSE Last(G).contract
  <2>1. PICK type \in ReturnType : ExecuteCallback(i, Response(m, type, to, FALSE, {}, NoKey), 0)
    BY <1>8 DEF RespondReturn, ReturnType
  <2>2. frames' = [frames EXCEPT ![i] = G]
    BY <1>8 DEF RespondReturn
  <2>3. Answerable(s, Response(m, type, to, FALSE, {}, NoKey), G)
    BY <1>2, <1>3, ReturnAnswer
  <2> QED BY <1>6, <2>1, <2>2, <2>3
<1>9. CASE RespondKeyLock(i)
  <2>1. PICK key \in m.keyLocks, locks \in Touched(m) :
           ExecuteCallback(i, Response(m, "KEY_LOCK", m.to, FALSE, locks, key), 0)
    BY <1>9 DEF RespondKeyLock
  <2>2. frames' = [frames EXCEPT ![i] = OpenedOn(F, m)]
    BY <1>3, <1>9 DEF RespondKeyLock
  <2>3. Answerable(s, Response(m, "KEY_LOCK", m.to, FALSE, locks, key), OpenedOn(F, m))
    BY <1>2, <1>4, <1>5, KeyLockAnswer
  <2> QED BY <1>6, <2>1, <2>2, <2>3
<1>10. CASE RespondError(i)
  <2>1. ExecuteCallback(i, NoMessage, 1) /\ frames' = frames
    BY <1>10 DEF RespondError
  <2>2. PICK G : G = frames[i]
    OBVIOUS
  <2>3. /\ \A j \in TxIDs : frames'[j] = IF j = i THEN G ELSE frames[j]
        /\ frames' \in [TxIDs -> Seq(Frame)] /\ FramesOK(G)
    BY <1>2, <1>3, <2>1, <2>2
  <2> QED BY <1>1, <2>1, <2>3, AnswerStep
<1> QED BY <1>7, <1>8, <1>9, <1>10 DEF Respond

-----------------------------------------------------------------------------
(* The receipt, the end of the walks, and checkBatch.                      *)

LEMMA VisitFinishStep ==
  ASSUME Inv, m_keyLocks!KeyLockInv', NEW i, VisitFinish(i)
  PROVE  Inv'
<1>1. phase = "send" /\ i \in todo
  BY DEF VisitFinish, Visiting, Current
<1>2. /\ i \in Live /\ i \in TxIDs /\ i \notin DOMAIN atExecutor
      /\ m_executiveStates[i] \in ExecutiveState
      /\ MsgOK(m_executiveStates[i], frames[i]) /\ FramesOK(frames[i])
  BY <1>1, Visited
<1>3. /\ m_executiveResults' = m_executiveResults \cup {i}
      /\ m_executiveStates' = Without(m_executiveStates, i)
      /\ todo' = todo \ {i}
      /\ calledContract' = calledContract /\ batchStatus' = batchStatus /\ checkers' = checkers
      /\ phase' = phase /\ atExecutor' = atExecutor /\ frames' = frames
  BY DEF VisitFinish, batchVars, executorVars
<1>4. /\ DOMAIN m_executiveStates' = Live \ {i}
      /\ \A j \in Live : j # i => m_executiveStates'[j] = m_executiveStates[j]
  BY <1>3 DEF Without, Restrict, Live
<1>5. frames[i] = <<>>
  <2>1. Len(m_executiveStates[i].callStack) = Len(frames[i]) + 1
    BY <1>2 DEF MsgOK, VisitFinish
  <2>2. Len(m_executiveStates[i].callStack) = 1
    BY DEF VisitFinish, IsLastFrame
  <2>3. frames[i] \in Seq(Frame)
    BY <1>2 DEF FramesOK
  <2>4. PICK n \in Nat : n = Len(frames[i])
    BY <2>3, LenProperties
  <2>5. n + 1 = 1
    BY <2>1, <2>2, <2>4, Zenon
  <2>6. n = 0
    BY <2>5
  <2> QED BY <2>3, <2>4, <2>6, EmptySeq
<1>6. Cardinality(todo') = Cardinality(todo) - 1
  BY <1>1, <1>3, BatchTypes, CardinalityFacts
<1>7. TypeOK'
  BY <1>2, <1>3, <1>4 DEF Inv, TypeOK, Live, m_keyLocks!KeyLockInv
<1>8. FramesInv'
  BY <1>2, <1>3, <1>4, <1>5 DEF Inv, FramesInv, TypeOK, Live
<1>9. BatchInv'
  <2>1. batchStatus.total + (Cardinality(todo) - 1) <= NumTx
    BY <1>1, BatchTypes DEF Inv, BatchInv
  <2> QED BY <1>1, <1>3, <1>4, <1>6, <2>1 DEF Inv, BatchInv, TypeOK, Live
<1>10. SkipInv' /\ NothingSent'
  BY <1>1, <1>3, <1>4 DEF Inv, SkipInv, NothingSent, TypeOK, Live
<1> QED BY <1>7, <1>8, <1>9, <1>10 DEF Inv

LEMMA EndSendStep ==
  ASSUME Inv, m_keyLocks!KeyLockInv', EndSend
  PROVE  Inv'
<1>1. /\ phase = "send" /\ phase' = "wait" /\ todo = {} /\ todo' = todo
      /\ batchStatus' = [batchStatus EXCEPT !.allSended = TRUE]
      /\ checkers' = checkers + 1
      /\ m_executiveStates' = m_executiveStates /\ m_executiveResults' = m_executiveResults
      /\ calledContract' = calledContract /\ atExecutor' = atExecutor /\ frames' = frames
  BY DEF EndSend, executorVars
<1>2. /\ batchStatus'.total = batchStatus.total /\ batchStatus'.received = batchStatus.received
      /\ batchStatus'.error = batchStatus.error /\ batchStatus'.allSended = TRUE
      /\ batchStatus' \in BatchStatus
  BY <1>1, BatchTypes DEF BatchStatus
<1>3. checkers + 1 <= batchStatus.received + 1 /\ batchStatus.received <= NumTx
  <2>1. /\ ~batchStatus.allSended
        /\ checkers <= batchStatus.received + (IF batchStatus.allSended THEN 1 ELSE 0)
    BY <1>1 DEF Inv, BatchInv
  <2>2. checkers <= batchStatus.received + 0
    BY <2>1
  <2> QED BY <2>2, BatchTypes DEF BatchStatus
<1>4. checkers' \in 0 .. NumTx + 1
  BY <1>1, <1>3, BatchTypes
<1>5. TypeOK'
  BY <1>1, <1>2, <1>4 DEF Inv, TypeOK, Live, m_keyLocks!KeyLockInv, Phases
<1>6. FramesInv'
  BY <1>1 DEF Inv, FramesInv, Live
<1>7. BatchInv'
  BY <1>1, <1>2, <1>3 DEF Inv, BatchInv, Live
<1>8. SkipInv' /\ NothingSent'
  BY <1>1, <1>2 DEF Inv, SkipInv, NothingSent, Live
<1> QED BY <1>5, <1>6, <1>7, <1>8 DEF Inv

LEMMA CheckNotReadyStep ==
  ASSUME Inv, m_keyLocks!KeyLockInv', CheckNotReady
  PROVE  Inv'
<1>1. /\ checkers > 0 /\ checkers' = checkers - 1 /\ phase' = phase /\ todo' = todo
      /\ batchStatus' = batchStatus
      /\ m_executiveStates' = m_executiveStates /\ m_executiveResults' = m_executiveResults
      /\ calledContract' = calledContract /\ atExecutor' = atExecutor /\ frames' = frames
  BY DEF CheckNotReady, executorVars
<1>2. checkers' \in 0 .. NumTx + 1
  BY <1>1, BatchTypes DEF Inv, TypeOK
<1>3. checkers' <= batchStatus.received + (IF batchStatus.allSended THEN 1 ELSE 0)
  <2>1. PICK n \in {0, 1} : n = IF batchStatus.allSended THEN 1 ELSE 0
    OBVIOUS
  <2>2. checkers <= batchStatus.received + n
    BY <2>1 DEF Inv, BatchInv
  <2>3. checkers' <= batchStatus.received + n
    BY <1>1, <2>2, BatchTypes
  <2> QED BY <2>1, <2>3
<1>4. TypeOK'
  BY <1>1, <1>2 DEF Inv, TypeOK, Live, m_keyLocks!KeyLockInv
<1>5. FramesInv' /\ SkipInv' /\ NothingSent'
  BY <1>1 DEF Inv, FramesInv, SkipInv, NothingSent, Live
<1>6. BatchInv'
  BY <1>1, <1>3 DEF Inv, BatchInv, Live
<1> QED BY <1>4, <1>5, <1>6 DEF Inv

LEMMA CheckBatchStep ==
  ASSUME Inv, m_keyLocks!KeyLockInv', CheckBatch
  PROVE  Inv'
<1>1. /\ checkers > 0 /\ checkers' = checkers - 1
      /\ phase' = AfterBatch /\ todo' = Live
      /\ batchStatus' = [batchStatus EXCEPT !.callbackExecuted = TRUE]
      /\ m_executiveStates' = m_executiveStates /\ m_executiveResults' = m_executiveResults
      /\ calledContract' = calledContract /\ atExecutor' = atExecutor /\ frames' = frames
      /\ batchStatus.allSended /\ batchStatus.received = batchStatus.total
      /\ ~batchStatus.callbackExecuted
  BY DEF CheckBatch, BatchReady, executorVars, Live
<1>2. phase = "wait" /\ todo = {}
  BY <1>1 DEF Inv, BatchInv
<1>3. DOMAIN atExecutor = {}
  <2>1. batchStatus.received + Cardinality(DOMAIN atExecutor) = batchStatus.total
    BY DEF Inv, BatchInv
  <2>2. Cardinality(DOMAIN atExecutor) = 0
    BY <1>1, <2>1, BatchTypes
  <2> QED BY <2>2, BatchTypes, CardinalityFacts
<1>4. /\ batchStatus'.total = batchStatus.total /\ batchStatus'.received = batchStatus.received
      /\ batchStatus'.error = batchStatus.error /\ batchStatus'.callbackExecuted = TRUE
      /\ batchStatus'.allSended = batchStatus.allSended
      /\ batchStatus' \in BatchStatus
  BY <1>1, BatchTypes DEF BatchStatus
<1>5. /\ phase' \in {"failed", "deadlock", "locks"}
      /\ phase' # "failed" => batchStatus.error = 0
      /\ phase' = "deadlock" => batchStatus.total = 0
  BY <1>1, BatchTypes DEF AfterBatch
<1>6. checkers' \in 0 .. NumTx + 1 /\ checkers - 1 <= batchStatus.received + 1
  <2>1. checkers <= batchStatus.received + 1
    BY <1>1 DEF Inv, BatchInv
  <2> QED BY <1>1, <2>1, BatchTypes DEF Inv, TypeOK
<1>7. TypeOK'
  BY <1>1, <1>4, <1>5, <1>6 DEF Inv, TypeOK, Live, m_keyLocks!KeyLockInv, Phases
<1>8. FramesInv'
  BY <1>1 DEF Inv, FramesInv, Live
<1>9. BatchInv'
  BY <1>1, <1>3, <1>4, <1>5, <1>6 DEF Inv, BatchInv, Live
<1>10. SkipInv'
  BY <1>1, <1>5 DEF Inv, SkipInv, Live
<1>11. NothingSent'
  BY <1>1, <1>2, <1>5 DEF Inv, NothingSent, Live
<1> QED BY <1>7, <1>8, <1>9, <1>10, <1>11 DEF Inv

LEMMA UpdateThrowsStep ==
  ASSUME Inv, m_keyLocks!KeyLockInv', NEW i, UpdateThrows(i)
  PROVE  Inv'
<1>1. /\ phase = "locks" /\ phase' = "thrown" /\ todo' = todo
      /\ batchStatus' = batchStatus /\ checkers' = checkers
      /\ m_executiveStates' = m_executiveStates /\ m_executiveResults' = m_executiveResults
      /\ calledContract' = calledContract /\ atExecutor' = atExecutor /\ frames' = frames
  BY DEF UpdateThrows, Updating, batchVars, executorVars
<1>2. TypeOK'
  BY <1>1 DEF Inv, TypeOK, Live, m_keyLocks!KeyLockInv, Phases
<1>3. FramesInv' /\ SkipInv' /\ NothingSent'
  BY <1>1 DEF Inv, FramesInv, SkipInv, NothingSent, Live
<1>4. BatchInv'
  BY <1>1 DEF Inv, BatchInv, Live
<1> QED BY <1>2, <1>3, <1>4 DEF Inv

LEMMA BatchCallbackStep ==
  ASSUME Inv, m_keyLocks!KeyLockInv', BatchCallback
  PROVE  Inv'
<1>1. /\ phase \in {"deadlock", "locks"} /\ todo = {}
      /\ m_executiveStates' = m_executiveStates /\ m_executiveResults' = m_executiveResults
      /\ atExecutor' = atExecutor /\ frames' = frames
  BY DEF BatchCallback, executorVars
<1>2. DOMAIN atExecutor = {} /\ batchStatus.error = 0
  BY <1>1 DEF Inv, BatchInv
<1>3. FramesInv'
  BY <1>1 DEF Inv, FramesInv, Live
<1>4. \A j \in Live : ~m_executiveStates[j].skip
  BY <1>1 DEF Inv, SkipInv, BatchInv
<1>5. CASE Live = {}
  <2>1. /\ phase' = "done" /\ todo' = todo /\ batchStatus' = batchStatus /\ checkers' = checkers
        /\ calledContract' = calledContract
    BY <1>5 DEF BatchCallback, batchVars, Live
  <2>2. TypeOK'
    BY <1>1, <2>1 DEF Inv, TypeOK, Live, m_keyLocks!KeyLockInv, Phases
  <2>3. BatchInv'
    BY <1>1, <1>2, <1>5, <2>1 DEF Inv, BatchInv, Live
  <2>4. SkipInv' /\ NothingSent'
    BY <1>1, <1>5, <2>1 DEF Inv, SkipInv, NothingSent, Live
  <2> QED BY <1>3, <2>2, <2>3, <2>4 DEF Inv
<1>6. CASE Live # {}
  <2>1. /\ phase' = "send" /\ todo' = Live /\ batchStatus' = FreshBatch /\ checkers' = 0
        /\ calledContract' = {}
    BY <1>6 DEF BatchCallback, batchVars, Live
  <2>2. /\ batchStatus' \in BatchStatus /\ batchStatus'.total = 0 /\ batchStatus'.received = 0
        /\ batchStatus'.error = 0 /\ batchStatus'.allSended = FALSE
        /\ batchStatus'.callbackExecuted = FALSE /\ checkers' \in 0 .. NumTx + 1
    BY <2>1, ConstantsAssumption DEF FreshBatch, BatchStatus
  <2>3. Cardinality(Live) <= NumTx /\ Cardinality(Live) \in Nat
          /\ Cardinality(DOMAIN atExecutor) = 0
    BY <1>2, BatchTypes, CardinalityFacts
  <2>4. TypeOK'
    BY <1>1, <2>1, <2>2 DEF Inv, TypeOK, Live, m_keyLocks!KeyLockInv, Phases
  <2>5. BatchInv'
    <3>1. \A j \in Live : m_executiveStates[j].message # NoMessage
      BY <1>2 DEF Inv, BatchInv
    <3> QED BY <1>1, <2>1, <2>2, <2>3, <3>1 DEF BatchInv, Live
  <2>6. SkipInv' /\ NothingSent'
    BY <1>1, <1>4, <2>1, <2>2 DEF SkipInv, NothingSent, Live
  <2> QED BY <1>3, <2>4, <2>5, <2>6 DEF Inv
<1> QED BY <1>5, <1>6

-----------------------------------------------------------------------------
(* The invariant is inductive.                                             *)

\* A step of the batches makes one call of the lock graph, with arguments of
\* its domains, or leaves the graph alone.
LEMMA LockCall ==
  ASSUME Inv, Next \/ UNCHANGED vars
  PROVE  m_keyLocks!KeyLockNext \/ lockVars' = lockVars
<1> DEFINE m(i) == m_executiveStates[i].message
<1>2. ASSUME NEW i \in todo, phase \in {"send", "locks"}
      PROVE  /\ m(i).from \in Addresses /\ m(i).keyLocks \in SUBSET Keys /\ m(i).seq \in Seqs
             /\ m(i).type = "KEY_LOCK" => m(i).keyLockAcquired \in Keys
             /\ i \in LockContexts /\ MessageContextID(i) \in LockContexts
  <2>1. i \in TxIDs /\ m(i) \in Message /\ MsgOK(m_executiveStates[i], frames[i])
    BY <1>2, Visited
  <2>2. i \in LockContexts /\ MessageContextID(i) \in LockContexts
    BY <2>1, ConstantsAssumption DEF TxIDs, LockContexts, MessageContextID
  <2> QED BY <2>1, <2>2 DEF Message, MsgOK
<1>4. ASSUME NEW i, VisitAcquire(i) \/ VisitWait(i)
      PROVE  m_keyLocks!KeyLockNext
  <2>1. /\ phase = "send" /\ i \in todo /\ m(i).type = "KEY_LOCK"
        /\ \/ m_keyLocks!AcquireOwns(m(i).from, m(i).keyLockAcquired, i, m(i).seq)
           \/ m_keyLocks!AcquireWaits(m(i).from, m(i).keyLockAcquired, i, m(i).seq)
    BY <1>4 DEF VisitAcquire, VisitWait, Visiting, Current
  <2>2. /\ m(i).from \in Addresses /\ m(i).keyLockAcquired \in Keys /\ m(i).seq \in Seqs
        /\ i \in LockContexts
    BY <1>2, <2>1
  <2> QED BY <2>1, <2>2 DEF m_keyLocks!KeyLockNext, LockContexts
<1>5. ASSUME NEW i, UpdateAcquire(i) \/ UpdateThrows(i) \/ UpdateRelease(i)
      PROVE  m_keyLocks!KeyLockNext
  <2>1. phase = "locks" /\ i \in todo
    BY <1>5 DEF UpdateAcquire, UpdateThrows, UpdateRelease, Updating, Current
  <2>2. /\ m(i).from \in Addresses /\ m(i).keyLocks \in SUBSET Keys /\ m(i).seq \in Seqs
        /\ MessageContextID(i) \in LockContexts
    BY <1>2, <2>1
  <2>3. \/ m_keyLocks!BatchAcquireOwns(m(i).from, m(i).keyLocks, MessageContextID(i), m(i).seq)
        \/ m_keyLocks!BatchAcquireThrows(m(i).from, m(i).keyLocks, MessageContextID(i), m(i).seq)
        \/ m_keyLocks!ReleaseKeyLocks(MessageContextID(i), m(i).seq)
    BY <1>5 DEF UpdateAcquire, UpdateThrows, UpdateRelease, ReleaseFrame
  <2> QED BY <2>2, <2>3 DEF m_keyLocks!KeyLockNext, LockContexts
<1>6. ASSUME NEW i, Respond(i) PROVE lockVars' = lockVars
  BY <1>6 DEF Respond, RespondCall, RespondReturn, RespondKeyLock, RespondError,
              ExecuteCallback, lockVars
<1>7. ASSUME NEW i, \/ VisitSkip(i) \/ VisitRequest(i) \/ VisitFinish(i) \/ VisitReturn(i)
                    \/ VisitRevertKeyLock(i) \/ VisitSendBack(i) \/ VisitVictim(i)
                    \/ VisitNoVictim(i) \/ UpdateSkipped(i)
      PROVE  lockVars' = lockVars
  BY <1>7 DEF VisitSkip, VisitRequest, VisitFinish, VisitReturn, VisitRevertKeyLock,
              VisitSendBack, VisitVictim, VisitNoVictim, UpdateSkipped
<1>8. ASSUME EndSend \/ CheckNotReady \/ CheckBatch \/ BatchCallback \/ Ended \/ UNCHANGED vars
      PROVE  lockVars' = lockVars
  BY <1>8 DEF EndSend, CheckNotReady, CheckBatch, BatchCallback, Ended, vars
<1> QED BY <1>4, <1>5, <1>6, <1>7, <1>8 DEF Next, Scheduler, Visit

LEMMA LockStep ==
  ASSUME Inv, Next \/ UNCHANGED vars
  PROVE  m_keyLocks!KeyLockInv'
<1>1. m_keyLocks!KeyLockInv
  BY DEF Inv
<1>2. CASE lockVars' = lockVars
  BY <1>1, <1>2 DEF lockVars, m_keyLocks!KeyLockInv, m_keyLocks!KeyLockTypeOK,
              m_keyLocks!MutualExclusion, m_keyLocks!VertexHasEdge, m_keyLocks!NoSelfWait
<1>3. CASE m_keyLocks!KeyLockNext
  <2>1. PICK contract \in Addresses, ctx \in LockContexts, seq \in Seqs :
           \/ \E key \in Keys : \/ m_keyLocks!AcquireOwns(contract, key, ctx, seq)
                                \/ m_keyLocks!AcquireWaits(contract, key, ctx, seq)
           \/ \E keys \in SUBSET Keys : \/ m_keyLocks!BatchAcquireOwns(contract, keys, ctx, seq)
                                        \/ m_keyLocks!BatchAcquireThrows(contract, keys, ctx, seq)
           \/ m_keyLocks!ReleaseKeyLocks(ctx, seq)
    BY <1>3 DEF m_keyLocks!KeyLockNext, LockContexts
  <2> QED BY <1>1, <2>1, AcquireKeepsInv, BatchOwnsKeepsInv, BatchThrowsKeepsInv, ReleaseKeepsInv
<1> QED BY <1>2, <1>3, LockCall

LEMMA StepInv ==
  ASSUME Inv, Next \/ UNCHANGED vars
  PROVE  Inv'
<1>1. m_keyLocks!KeyLockInv'
  BY LockStep
<1>2. ASSUME NEW i \in TxIDs, Visit(i) PROVE Inv'
  BY <1>1, <1>2, VisitSkipStep, SendStep, VisitFinishStep, VisitWaitStep, VisitVictimStep,
     VisitNoVictimStep, UpdateSkippedStep, UpdateAcquireStep, UpdateThrowsStep,
     UpdateReleaseStep DEF Visit
<1>3. ASSUME NEW i \in TxIDs, Respond(i) PROVE Inv'
  BY <1>1, <1>3, RespondStep
<1>4. CASE UNCHANGED vars
  <2>1. /\ m_executiveStates' = m_executiveStates /\ m_executiveResults' = m_executiveResults
        /\ todo' = todo /\ calledContract' = calledContract /\ batchStatus' = batchStatus
        /\ checkers' = checkers /\ phase' = phase /\ atExecutor' = atExecutor /\ frames' = frames
    BY <1>4 DEF vars, batchVars, executorVars
  <2>2. TypeOK'
    BY <1>1, <2>1 DEF Inv, TypeOK, m_keyLocks!KeyLockInv
  <2>3. FramesInv' /\ SkipInv' /\ NothingSent'
    BY <2>1 DEF Inv, FramesInv, SkipInv, NothingSent, Live
  <2>4. BatchInv'
    BY <2>1 DEF Inv, BatchInv, Live
  <2> QED BY <1>1, <2>2, <2>3, <2>4 DEF Inv
<1>5. CASE EndSend
  BY <1>1, <1>5, EndSendStep
<1>6. CASE CheckNotReady
  BY <1>1, <1>6, CheckNotReadyStep
<1>7. CASE CheckBatch
  BY <1>1, <1>7, CheckBatchStep
<1>8. CASE BatchCallback
  BY <1>1, <1>8, BatchCallbackStep
<1> QED BY <1>2, <1>3, <1>4, <1>5, <1>6, <1>7, <1>8 DEF Next, Scheduler, Ended

LEMMA InitInv == Init => Inv
<1> SUFFICES ASSUME Init PROVE Inv
  OBVIOUS
<1>1. PICK to \in [TxIDs -> Contracts \cup {NoAddress}], dag \in [TxIDs -> DAGResults] :
         m_executiveStates = [i \in TxIDs |-> FirstState(dag[i], to[i])]
  BY DEF Init
<1>2. Live = TxIDs /\ \A i \in TxIDs : m_executiveStates[i] = FirstState(dag[i], to[i])
  BY <1>1 DEF Live
<1>3. ASSUME NEW d \in DAGResults, NEW a \in Contracts \cup {NoAddress}
      PROVE  /\ FirstState(d, a) \in ExecutiveState
             /\ FirstState(d, a).message # NoMessage
             /\ FirstState(d, a).skip = FALSE
             /\ MsgOK(FirstState(d, a), <<>>)
  <2> DEFINE type == IF d = "NONE" THEN TopType ELSE d
             msg == FirstMessage(type, a)
             c == IF d = "NONE" THEN <<>> ELSE <<0>>
             n == IF d = "NONE" THEN 0 ELSE 1
  <2>1. /\ type \in {"TXHASH", "MESSAGE", "SEND_BACK", "FINISHED"}
        /\ type \in RequestType => d = "NONE"
        /\ type \in {"SEND_BACK", "FINISHED"} => d # "NONE"
    BY ConstantsAssumption DEF RequestType
  <2>2. 0 \in Seqs /\ a \in Addresses /\ NoAddress \in Addresses
    BY AddressTypes, ConstantsAssumption DEF Seqs
  <2>3. /\ msg \in Message /\ msg.type = type /\ msg.seq = 0 /\ msg.createSalt = FALSE
        /\ msg.keyLocks = {} /\ msg.keyLockAcquired = NoKey
    BY <2>1, <2>2 DEF FirstMessage, Message, MessageType, RequestType, ReturnType
  <2>4. c \in Seq(Seqs) /\ n \in Nat /\ (d = "NONE" => c = <<>> /\ n = 0) /\ (d # "NONE" => c = <<0>>)
    BY <2>2
  <2>5. FirstState(d, a) = [key |-> a, callStack |-> c, currentSeq |-> n, message |-> msg,
                            skip |-> FALSE]
    BY DEF FirstState
  <2> HIDE DEF type, msg, c, n
  <2>6. /\ FirstState(d, a) \in ExecutiveState /\ FirstState(d, a).message = msg
        /\ FirstState(d, a).skip = FALSE /\ FirstState(d, a).callStack = c
        /\ FirstState(d, a).currentSeq = n
    BY <2>2, <2>3, <2>4, <2>5 DEF ExecutiveState
  <2>7. MsgOK(FirstState(d, a), <<>>)
    BY <2>1, <2>3, <2>4, <2>6, ConstantsAssumption DEF MsgOK, Mirrors, RequestType, ReturnType
  <2> QED BY <2>3, <2>6, <2>7, NoMessageIsNone
<1>4. /\ m_executiveResults = {} /\ todo = TxIDs /\ calledContract = {}
      /\ batchStatus = FreshBatch /\ checkers = 0 /\ phase = "send"
      /\ m_keyLocks!KeyLockInit /\ DOMAIN atExecutor = {}
      /\ frames = [i \in TxIDs |-> <<>>]
  BY DEF Init
<1>5. m_keyLocks!KeyLockInv
  BY <1>4 DEF m_keyLocks!KeyLockInit, m_keyLocks!KeyLockInv, m_keyLocks!KeyLockTypeOK,
              m_keyLocks!MutualExclusion, m_keyLocks!VertexHasEdge, m_keyLocks!NoSelfWait
<1>6. /\ batchStatus \in BatchStatus /\ batchStatus.total = 0 /\ batchStatus.received = 0
      /\ batchStatus.error = 0 /\ batchStatus.allSended = FALSE
      /\ batchStatus.callbackExecuted = FALSE /\ checkers \in 0 .. NumTx + 1
  BY <1>4, ConstantsAssumption DEF FreshBatch, BatchStatus
<1>7. /\ \A i \in Live : m_executiveStates[i] \in ExecutiveState
      /\ \A i \in Live : /\ m_executiveStates[i].message # NoMessage
                         /\ m_executiveStates[i].skip = FALSE
                         /\ MsgOK(m_executiveStates[i], <<>>)
  <2>1. ASSUME NEW i \in Live
        PROVE  /\ m_executiveStates[i] \in ExecutiveState
               /\ m_executiveStates[i].message # NoMessage
               /\ m_executiveStates[i].skip = FALSE
               /\ MsgOK(m_executiveStates[i], <<>>)
    <3>1. PICK d \in DAGResults, a \in Contracts \cup {NoAddress} :
             m_executiveStates[i] = FirstState(d, a)
      BY <1>2
    <3> QED BY <1>3, <3>1
  <2> QED BY <2>1
<1>8. TypeOK
  BY <1>2, <1>4, <1>5, <1>6, <1>7 DEF TypeOK, Live, m_keyLocks!KeyLockInv, Phases
<1>9. FramesInv
  BY <1>2, <1>4, <1>7 DEF FramesInv, FramesOK
<1>10. BatchInv
  <2>1. Cardinality(TxIDs) \in Nat /\ Cardinality(TxIDs) <= NumTx
          /\ Cardinality(DOMAIN atExecutor) = 0
    BY <1>4, CardinalityFacts
  <2> QED BY <1>2, <1>4, <1>6, <1>7, <2>1 DEF BatchInv
<1>11. SkipInv /\ NothingSent
  BY <1>2, <1>4, <1>7 DEF SkipInv, NothingSent
<1> QED BY <1>5, <1>8, <1>9, <1>10, <1>11 DEF Inv

LEMMA InvHolds == Spec => []Inv
<1>1. Inv /\ [Next]_vars => Inv'
  BY StepInv
<1> QED BY <1>1, InitInv, PTL DEF Spec

-----------------------------------------------------------------------------
(* Theorems.                                                               *)

\* The state stays well typed: the counters of a batch never exceed the number
\* of transactions, a new call frame never exceeds the last seq, and every
\* message that is sent, answered or marked as a victim is a message.
THEOREM TypeCorrect == Spec => []TypeOK
<1>1. Inv => TypeOK
  BY DEF Inv
<1> QED BY <1>1, InvHolds, PTL

\* The batches use the lock graph as its class allows, one call at a time and
\* only with contexts, contracts, keys and seqs of its domains: what holds of
\* the graph under any calls holds of it in a block.
THEOREM BatchesUseKeyLocks == Spec => m_keyLocks!KeyLockSpec
<1>1. Init => m_keyLocks!KeyLockInit
  BY DEF Init
<1>2. Inv /\ [Next]_vars => [m_keyLocks!KeyLockNext]_(m_keyLocks!keyLockVars)
  BY LockCall DEF lockVars, m_keyLocks!keyLockVars
<1> QED BY <1>1, <1>2, InvHolds, PTL DEF Spec, m_keyLocks!KeyLockSpec

\* assert(message) of startBatch never fails, and no walk that sends or looks
\* for a deadlock meets a skip mark that an earlier batch left.
THEOREM MessagesPresent == Spec => []MessagePresent
<1>1. ASSUME Inv PROVE MessagePresent
  <2>1. ASSUME phase \in {"send", "deadlock", "locks"}, NEW i \in todo
        PROVE  m_executiveStates[i].message # NoMessage
    BY <1>1, <2>1, Visited, NoMessageIsNone
  <2>2. ASSUME NEW i \in todo, m_executiveStates[i].skip
        PROVE  phase \in {"locks", "failed", "thrown"}
    <3>1. phase \notin {"send", "deadlock"}
      BY <1>1, <2>2, NoMarks
    <3>2. phase \notin {"wait", "done"}
      BY <1>1 DEF Inv, BatchInv, TypeOK, Live
    <3> QED BY <1>1, <3>1, <3>2 DEF Inv, TypeOK, Phases
  <2> QED BY <2>1, <2>2 DEF MessagePresent
<1> QED BY <1>1, InvHolds, PTL

\* No transaction is lost between the map of unfinished ones and the receipts,
\* a receipt is written only after the first frame ended at the executors, and
\* a block whose execution is done has all of its receipts.
THEOREM ReceiptsCorrect == Spec => []ReceiptsComplete
<1>1. Inv => ReceiptsComplete
  BY DEF Inv, FramesInv, BatchInv, TypeOK, Live, ReceiptsComplete
<1> QED BY <1>1, InvHolds, PTL

\* The scheduler's call stack is the executors' stack of frames, and every
\* message is for the frame on top: the inductive invariant adds what holds of
\* the messages that wait to be sent (MsgOK), where the two stacks differ by
\* the frame that is about to be opened or was just closed.
THEOREM StacksAgree == Spec => []CallStackAgrees
<1>1. ASSUME Inv PROVE CallStackAgrees
  <2> SUFFICES ASSUME NEW i \in DOMAIN atExecutor
               PROVE  LET m == atExecutor[i]
                          open == Opened(i, m)
                          callStack == m_executiveStates[i].callStack
                      IN  /\ callStack = [n \in DOMAIN open |-> open[n].seq]
                          /\ open # <<>>
                          /\ Last(open) = [seq |-> m.seq, contract |-> m.to]
    BY DEF CallStackAgrees
  <2> DEFINE m == atExecutor[i]
             open == Opened(i, m)
             callStack == m_executiveStates[i].callStack
  <2>1. m \in Message /\ callStack \in Seq(Seqs) /\ i \in TxIDs
    BY <1>1 DEF Inv, TypeOK, ExecutiveState
  <2>2. open = OpenedOn(frames[i], m)
    BY DEF Opened, OpenedOn
  <2>3. SentOK(m_executiveStates[i], m, frames[i]) /\ FramesOK(frames[i])
    BY <1>1, <2>1 DEF Inv, FramesInv
  <2>4. open \in Seq(Frame)
    BY <2>1, <2>2, <2>3, OpenedFacts DEF SentOK, FramesOK
  <2>5. Mirrors(callStack, open) /\ IsTop(open, m.seq, m.to)
    BY <2>2, <2>3 DEF SentOK
  <2> HIDE DEF m, open, callStack
  <2>6. callStack = [n \in DOMAIN open |-> open[n].seq]
    <3>1. DOMAIN open = 1 .. Len(open) /\ DOMAIN callStack = 1 .. Len(callStack)
      BY <2>1, <2>4, LenProperties
    <3>2. DOMAIN callStack = DOMAIN open /\ \A n \in DOMAIN open : callStack[n] = open[n].seq
      BY <2>5, <3>1 DEF Mirrors
    <3>3. callStack = [n \in DOMAIN callStack |-> callStack[n]]
      BY <2>1, SeqDef
    <3> QED BY <3>2, <3>3
  <2>7. open # <<>> /\ Last(open) = [seq |-> m.seq, contract |-> m.to]
    <3>1. open # <<>> /\ Last(open) = open[Len(open)] /\ Last(open) \in Frame
      BY <2>4, <2>5, FrontFacts DEF IsTop
    <3> QED BY <2>5, <3>1 DEF IsTop, Frame
  <2> QED BY <2>6, <2>7 DEF m, open, callStack
<1> QED BY <1>1, InvHolds, PTL

\* The walk that follows a batch visits a state at most once and is over, with
\* nothing left at an executor, before the next batch sends (callbackExecuted).
THEOREM WalksOnce == Spec => WalkOnce
<1> DEFINE A == phase \in {"deadlock", "locks"} =>
                  /\ (phase' = phase => todo' \subseteq todo)
                  /\ (phase' = "send" => todo = {} /\ DOMAIN atExecutor = {})
<1>1. ASSUME Inv, [Next]_vars PROVE [A]_vars
  <2> SUFFICES ASSUME phase \in {"deadlock", "locks"}, Next PROVE A
    BY <1>1
  <2>1. DOMAIN atExecutor = {} /\ batchStatus.callbackExecuted /\ batchStatus.allSended
    BY <1>1 DEF Inv, BatchInv
  <2>2. ASSUME NEW i, Visit(i) PROVE todo' \subseteq todo /\ phase' # "send"
    BY <2>2 DEF Visit, VisitSkip, VisitRequest, VisitFinish, VisitReturn, VisitRevertKeyLock,
         VisitAcquire, VisitWait, VisitSendBack, VisitVictim, VisitNoVictim, UpdateSkipped,
         UpdateAcquire, UpdateThrows, UpdateRelease, Visiting
  <2>3. ASSUME NEW i \in TxIDs, Respond(i) PROVE FALSE
    BY <2>1, <2>3 DEF Respond, RespondCall, RespondReturn, RespondKeyLock, RespondError
  <2>4. CASE EndSend
    BY <2>4 DEF EndSend
  <2>5. CASE CheckNotReady
    BY <2>5 DEF CheckNotReady
  <2>6. CASE CheckBatch
    BY <2>1, <2>6 DEF CheckBatch, BatchReady
  <2>7. CASE BatchCallback
    BY <2>1, <2>7 DEF BatchCallback
  <2>8. CASE Ended
    BY <2>8 DEF Ended
  <2> QED BY <2>2, <2>3, <2>4, <2>5, <2>6, <2>7, <2>8 DEF Next, Scheduler
<1> QED BY <1>1, InvHolds, PTL DEF Spec, WalkOnce

=============================================================================
