--------------------------- MODULE RecoveryProofs ---------------------------
(***************************************************************************)
(* The inductive invariant of Recovery and its properties, for every value *)
(* of the constants: types and the writer's part; how each kind of step    *)
(* keeps the part about the two sides and the network; the reader's and    *)
(* the registry's parts; the theorems, and the refinement of               *)
(* ReliableStream.                                                         *)
(***************************************************************************)
EXTENDS RecoveryInvariant, SequenceTheorems, TLAPS

LEMMA PeerType ==
  /\ \A s \in Sides : Peer(s) \in Sides /\ Peer(s) # s /\ Peer(Peer(s)) = s
  /\ \A s \in Sides : s = "client" \/ s = "server"
  /\ "client" \in Sides /\ "server" \in Sides
  /\ Peer("client") = "server" /\ Peer("server") = "client"
  BY DEF Sides, Peer

(* A number survives the int32 of the SequenceHeader, or arrives smaller by *)
(* the whole range of an int32 at least.                                    *)
LEMMA Int32Loss ==
  ASSUME NEW n \in Int
  PROVE  /\ ToInt32(n) \in Int
         /\ n \in Nat => ToInt32(n) = n \/ ToInt32(n) <= n - 2 * HalfRange
<1>. DEFINE w == 2 * HalfRange
            k == (n + HalfRange) \div w
<1>1. w \in Nat /\ w > 0 /\ HalfRange \in Nat
  BY RangeAssumption, BackupAssumption
<1>2. k \in Int /\ (n \in Nat => k >= 0)
  <2>. HIDE DEF w
  <2>. QED  BY <1>1
<1>3. ToInt32(n) = n - w * k
  BY DEF ToInt32
<1>4. w * k \in Int /\ (k = 0 => w * k = 0) /\ (k >= 1 => w * k >= w)
  <2>. HIDE DEF w, k
  <2>. QED  BY <1>1, <1>2
<1>5. n \in Nat => k = 0 \/ k >= 1
  <2>. HIDE DEF w, k
  <2>. QED  BY <1>2
<1>. HIDE DEF k
<1>. QED  BY <1>1, <1>3, <1>4, <1>5

LEMMA RecoveredType ==
  ASSUME TypeOK, NEW s \in Sides, NEW n \in Int, CanRecover(s, n)
  PROVE  Recovered(s, n) \in Seq(Int)
<1>. DEFINE m == Len(written[s]) - n
<1>1. m \in Nat
  BY DEF TypeOK, CanRecover
<1>2. Recovered(s, n) \in [1 .. m -> Int]
  BY <1>1 DEF Recovered
<1>. QED  BY <1>1, <1>2, SeqDef

LEMMA MessageType ==
  /\ \A x \in Answers : Response(x) \in Message
  /\ \A n \in Int : SequenceHeader(n) \in Message /\ Framed(n) \in Message
  /\ \A b \in Seq(Int) : CatchupBuffer(b) \in Message
  BY DEF Answers, Response, SequenceHeader, Framed, CatchupBuffer, Message, Kinds

-----------------------------------------------------------------------------
(* What the operators on streams do to one stream.                         *)

LEMMA AppendFacts ==
  ASSUME NEW q \in Seq(Message), NEW m \in Message
  PROVE  /\ Append(q, m) \in Seq(Message)
         /\ Len(Append(q, m)) = Len(q) + 1
         /\ \A k \in 1 .. Len(q) : Append(q, m)[k] = q[k]
         /\ Append(q, m)[Len(q) + 1] = m
  OBVIOUS

LEMMA TailFacts ==
  ASSUME NEW q \in Seq(Message), q # <<>>
  PROVE  /\ Tail(q) \in Seq(Message)
         /\ Len(q) \in Nat /\ Len(q) >= 1
         /\ Len(Tail(q)) = Len(q) - 1
         /\ \A k \in 1 .. Len(q) - 1 : Tail(q)[k] = q[k + 1]
         /\ Head(q) = q[1]
         /\ Head(q) \in Message
  BY HeadTailProperties, LenProperties

LEMMA SentAt ==
  ASSUME NEW net \in [Sides -> [Conns -> Seq(Message)]],
         NEW s \in Sides, NEW c \in Conns, NEW m \in Message
  PROVE  /\ Sent(net, s, c, m) \in [Sides -> [Conns -> Seq(Message)]]
         /\ \A t \in Sides, d \in Conns :
              Sent(net, s, c, m)[t][d] =
                IF t = Peer(s) /\ d = c /\ Carries(s, c)
                THEN Append(net[t][d], m) ELSE net[t][d]
<1>. Append(net[Peer(s)][c], m) \in Seq(Message)
  BY PeerType
<1>. QED  BY PeerType DEF Sent

(* BackedReader::Revive appends what the peer sent and counts it.          *)
LEMMA ReviveReaderFacts ==
  ASSUME TypeOK, NEW s \in Sides, NEW b \in Seq(Int), ReviveReader(s, b)
  PROVE  /\ localBuffer' \in [Sides -> Seq(Int)] /\ rseq' \in [Sides -> Nat]
         /\ localBuffer'[s] = localBuffer[s] \o b /\ rseq'[s] = rseq[s] + Len(b)
         /\ partial'[s] = 0
         /\ \A t \in Sides : t # s => /\ localBuffer'[t] = localBuffer[t]
                                     /\ rseq'[t] = rseq[t] /\ partial'[t] = partial[t]
<1>1. /\ localBuffer \in [Sides -> Seq(Int)] /\ rseq \in [Sides -> Nat]
      /\ partial \in [Sides -> Int]
  BY DEF TypeOK
<1>2. /\ localBuffer' = [localBuffer EXCEPT ![s] = localBuffer[s] \o b]
      /\ rseq' = [rseq EXCEPT ![s] = rseq[s] + Len(b)]
      /\ partial' = [partial EXCEPT ![s] = 0]
  BY DEF ReviveReader
<1>3. localBuffer[s] \o b \in Seq(Int)
  BY <1>1
<1>4. rseq[s] + Len(b) \in Nat
  BY <1>1
<1>5. localBuffer' \in [Sides -> Seq(Int)]
  BY <1>1, <1>2, <1>3
<1>6. rseq' \in [Sides -> Nat]
  BY <1>1, <1>2, <1>4
<1>. QED  BY <1>1, <1>2, <1>5, <1>6

LEMMA SentStep ==
  ASSUME TypeOK, NEW s \in Sides, NEW c \in Conns, NEW m \in Message,
         toward' = Sent(toward, s, c, m)
  PROVE  \A t \in Sides, d \in Conns :
           toward'[t][d] = IF t = Peer(s) /\ d = c /\ Carries(s, c)
                           THEN Append(toward[t][d], m) ELSE toward[t][d]
<1>1. toward \in [Sides -> [Conns -> Seq(Message)]]
  BY DEF TypeOK
<1>. QED  BY <1>1, PeerType DEF Sent

LEMMA ConsumedAt ==
  ASSUME TypeOK, NEW s \in Sides, NEW c \in Conns, toward[s][c] # <<>>
  PROVE  /\ Consumed(s, c) \in [Sides -> [Conns -> Seq(Message)]]
         /\ \A t \in Sides, d \in Conns :
              Consumed(s, c)[t][d] =
                IF t = s /\ d = c THEN Tail(toward[t][d]) ELSE toward[t][d]
<1>. toward \in [Sides -> [Conns -> Seq(Message)]]
  BY DEF TypeOK
<1>. Tail(toward[s][c]) \in Seq(Message)
  BY TailFacts
<1>. QED  BY DEF Consumed

LEMMA RepliedAt ==
  ASSUME TypeOK, NEW s \in Sides, NEW c \in Conns, toward[s][c] # <<>>,
         NEW m \in Message
  PROVE  /\ Replied(s, c, m) \in [Sides -> [Conns -> Seq(Message)]]
         /\ \A t \in Sides, d \in Conns :
              Replied(s, c, m)[t][d] =
                IF t = s /\ d = c THEN Tail(toward[t][d])
                ELSE IF t = Peer(s) /\ d = c /\ Carries(s, c)
                THEN Append(toward[t][d], m)
                ELSE toward[t][d]
<1>. DEFINE net == Consumed(s, c)
<1>1. /\ net \in [Sides -> [Conns -> Seq(Message)]]
      /\ \A t \in Sides, d \in Conns :
           net[t][d] =
             IF t = s /\ d = c THEN Tail(toward[t][d]) ELSE toward[t][d]
  BY ConsumedAt
<1>2. Replied(s, c, m) = Sent(net, s, c, m)
  BY DEF Replied
<1>. HIDE DEF net
<1>3. /\ Sent(net, s, c, m) \in [Sides -> [Conns -> Seq(Message)]]
      /\ \A t \in Sides, d \in Conns :
           Sent(net, s, c, m)[t][d] =
             IF t = Peer(s) /\ d = c /\ Carries(s, c)
             THEN Append(net[t][d], m) ELSE net[t][d]
  BY ZenonT(60), <1>1, SentAt
<1>. QED  BY <1>1, <1>2, <1>3, PeerType

-----------------------------------------------------------------------------
(* Type correctness.                                                       *)

LEMMA TypedReads ==
  ASSUME TypeOK, PlaceInv, NEW s \in Sides
  PROVE  /\ Up(s) => socket[s] \in Conns
         /\ attempt[s] # NoConn => attempt[s] \in Conns
         /\ stage[s] # "idle" => attempt[s] \in Conns
         /\ \A c \in Conns, k \in Kinds :
              Arrived(s, c, k) =>
                /\ toward[s][c] # <<>>
                /\ Head(toward[s][c]) \in Message
                /\ Head(toward[s][c]).kind = k
<1>1. \A c \in Conns : toward[s][c] \in Seq(Message)
  BY DEF TypeOK
<1>. QED  BY SMTT(60), <1>1, TailFacts DEF TypeOK, PlaceInv, Up, Arrived

LEMMA BackUpType ==
  ASSUME TypeOK, NEW s \in Sides, NEW len \in Lengths, BackUp(s, len)
  PROVE  /\ written' \in [Sides -> Seq(Nat)]
         /\ evicted' \in [Sides -> Nat]
<1>. DEFINE w == Append(written[s], TotalBytes(written[s]) + len)
<1>1. written[s] \in Seq(Nat) /\ TotalBytes(written[s]) \in Nat /\ len \in Nat
  BY LengthsAssumption DEF TypeOK, TotalBytes, BytesUpTo
<1>2. w \in Seq(Nat)
  BY <1>1
<1>3. written' = [written EXCEPT ![s] = w]
  BY DEF BackUp
<1>4. PICK n \in 0 .. Len(w) : evicted' = [evicted EXCEPT ![s] = n]
  BY DEF BackUp
<1>. HIDE DEF w
<1>5. n \in Nat
  BY <1>2, <1>4
<1>. QED  BY <1>2, <1>3, <1>4, <1>5 DEF TypeOK

LEMMA TypeStep ==
  ASSUME TypeOK, PlaceInv, Next
  PROVE  TypeOK'
<1>. USE DEF sideVars, writerVars, readerVars, netVars, serverVars
<1>1. ASSUME NEW s \in Sides, NEW len \in Lengths, Write(s, len)
      PROVE  TypeOK'
  <2>1. written' \in [Sides -> Seq(Nat)] /\ evicted' \in [Sides -> Nat]
    BY <1>1, BackUpType DEF Write
  <2>2. Framed(Len(written[s]) + 1) \in Message
    BY MessageType DEF TypeOK
  <2>3. socket[s] \in Conns
    BY <1>1, TypedReads DEF Write
  <2>4. toward' \in [Sides -> [Conns -> Seq(Message)]]
    BY <1>1, <2>2, <2>3, SentAt DEF Write, TypeOK
  <2>. QED  BY <1>1, <2>1, <2>4 DEF Write, TypeOK
<1>2. ASSUME NEW s \in Sides, NEW len \in Lengths, WriteFails(s, len)
      PROVE  TypeOK'
  <2>1. written' \in [Sides -> Seq(Nat)] /\ evicted' \in [Sides -> Nat]
    BY <1>2, BackUpType DEF WriteFails
  <2>. QED  BY <1>2, <2>1 DEF WriteFails, CloseSocket, Closed, TypeOK
<1>3. ASSUME NEW s \in Sides, ReadLocal(s)
      PROVE  TypeOK'
  <2>1. localBuffer[s] \in Seq(Int) /\ delivered[s] \in Seq(Nat)
    BY DEF TypeOK
  <2>2. Tail(localBuffer[s]) \in Seq(Int)
    BY <1>3, <2>1 DEF ReadLocal
  <2>3. Decrypt(s, Head(localBuffer[s])) \in Nat
    BY <2>1 DEF Decrypt
  <2>. QED  BY <1>3, <2>1, <2>2, <2>3 DEF ReadLocal, TypeOK
<1>4. ASSUME NEW s \in Sides, ReadPart(s)
      PROVE  TypeOK'
  <2>1. Head(toward[s][socket[s]]) \in Message
    BY <1>4, TypedReads DEF ReadPart, Kinds
  <2>. QED  BY <1>4, <2>1 DEF ReadPart, TypeOK, Message
<1>5. ASSUME NEW s \in Sides, ReadWire(s)
      PROVE  TypeOK'
  <2>1. socket[s] \in Conns /\ toward[s][socket[s]] # <<>>
    BY <1>5, TypedReads DEF ReadWire, Kinds
  <2>2. toward' \in [Sides -> [Conns -> Seq(Message)]]
    BY <1>5, <2>1, ConsumedAt DEF ReadWire
  <2>3. delivered[s] \in Seq(Nat)
    BY DEF TypeOK
  <2>4. \A n : Decrypt(s, n) \in Nat
    BY <2>3 DEF Decrypt
  <2>5. delivered' \in [Sides -> Seq(Nat)]
    BY <1>5, <2>3, <2>4 DEF ReadWire, TypeOK
  <2>6. rseq' \in [Sides -> Nat] /\ partial' \in [Sides -> Int]
    BY <1>5 DEF ReadWire, TypeOK
  <2>. QED  BY <1>5, <2>2, <2>5, <2>6 DEF ReadWire, TypeOK
<1>6. ASSUME NEW s \in Sides, ReadFails(s)
      PROVE  TypeOK'
  BY <1>6 DEF ReadFails, CloseSocket, Closed, TypeOK
<1>7. ASSUME NEW s \in Sides, SendCatchup(s)
      PROVE  TypeOK'
  <2>. DEFINE c == attempt[s]
              n == Head(toward[s][c]).num
  <2>1. c \in Conns /\ toward[s][c] # <<>> /\ n \in Int
    BY <1>7, TypedReads DEF SendCatchup, Kinds, Message
  <2>2. CatchupBuffer(Recovered(s, n)) \in Message
    BY <1>7, <2>1, RecoveredType, MessageType DEF SendCatchup
  <2>3. toward' \in [Sides -> [Conns -> Seq(Message)]]
    BY <1>7, <2>1, <2>2, RepliedAt DEF SendCatchup
  <2>. QED  BY <1>7, <2>3 DEF SendCatchup, TypeOK, Stages
<1>8. ASSUME NEW s \in Sides, RefuseCatchup(s)
      PROVE  TypeOK'
  <2>1. attempt[s] \in Conns /\ toward[s][attempt[s]] # <<>>
    BY <1>8, TypedReads DEF RefuseCatchup, Kinds
  <2>2. toward' \in [Sides -> [Conns -> Seq(Message)]]
    BY <1>8, <2>1, ConsumedAt DEF RefuseCatchup
  <2>. QED  BY <1>8, <2>2 DEF RefuseCatchup, GiveUp, Closed, TypeOK, Stages
<1>9. ASSUME NEW s \in Sides, Revive(s)
      PROVE  TypeOK'
  <2>1. /\ attempt[s] \in Conns /\ toward[s][attempt[s]] # <<>>
        /\ Head(toward[s][attempt[s]]).buf \in Seq(Int)
    BY <1>9, TypedReads DEF Revive, Kinds, Message
  <2>2. toward' \in [Sides -> [Conns -> Seq(Message)]]
    BY <1>9, <2>1, ConsumedAt DEF Revive
  <2>3. localBuffer' \in [Sides -> Seq(Int)] /\ rseq' \in [Sides -> Nat]
    BY <1>9, <2>1, ReviveReaderFacts DEF Revive
  <2>4. /\ socket' \in [Sides -> Conns \cup {NoConn}]
        /\ attempt' \in [Sides -> Conns \cup {NoConn}]
        /\ stage' \in [Sides -> Stages]
        /\ partial' \in [Sides -> Int]
    BY <1>9, <2>1 DEF Revive, ReviveReader, TypeOK, Stages
  <2>. QED  BY <1>9, <2>2, <2>3, <2>4 DEF Revive, TypeOK
<1>10. ASSUME NEW s \in Sides, AttemptFails(s) \/ AttemptTimesOut(s)
       PROVE  TypeOK'
  <2>1. faults' \in 0 .. MaxFaults
    BY <1>10, BoundsAssumption DEF AttemptFails, AttemptTimesOut, TypeOK
  <2>2. /\ attempt' \in [Sides -> Conns \cup {NoConn}]
        /\ stage' \in [Sides -> Stages]
        /\ open' \in [Sides -> SUBSET Conns]
    <3>1. GiveUp(s)
      BY <1>10 DEF AttemptFails, AttemptTimesOut
    <3>. QED  BY <3>1 DEF GiveUp, Closed, TypeOK, Stages
  <2>. QED  BY <1>10, <2>1, <2>2 DEF AttemptFails, AttemptTimesOut, TypeOK
<1>11. ASSUME NEW c \in Conns, PollReconnect(c)
       PROVE  TypeOK'
  <2>1. /\ attempt' \in [Sides -> Conns \cup {NoConn}]
        /\ stage' \in [Sides -> Stages]
        /\ broken' \subseteq Conns /\ requests' \subseteq Conns
    BY <1>11, PeerType DEF PollReconnect, TypeOK, Stages
  <2>2. /\ toward' \in [Sides -> [Conns -> Seq(Message)]]
        /\ open' \in [Sides -> SUBSET Conns]
    BY <1>11 DEF PollReconnect, TypeOK
  <2>. QED  BY <1>11, <2>1, <2>2 DEF PollReconnect, TypeOK
<1>12. ASSUME NEW c \in Conns,
              AnswerReturning(c) \/ AnswerNew(c) \/ AnswerUnknown(c)
       PROVE  TypeOK'
  <2>1. \A x \in Answers :
          Sent(toward, "server", c, Response(x))
            \in [Sides -> [Conns -> Seq(Message)]]
    BY SentAt, MessageType DEF TypeOK, Sides
  <2>2. toward' \in [Sides -> [Conns -> Seq(Message)]]
    BY <1>12, <2>1 DEF AnswerReturning, AnswerNew, AnswerUnknown, Answers
  <2>3. /\ requests' \subseteq Conns /\ pending' \subseteq Conns
        /\ registry' \in {"kept", "replaced", "erased"}
        /\ open' \in [Sides -> SUBSET Conns]
    <3>1. CASE AnswerReturning(c)
      BY <3>1 DEF AnswerReturning, TypeOK
    <3>2. CASE AnswerNew(c)
      BY <3>2 DEF AnswerNew, TypeOK
    <3>3. CASE AnswerUnknown(c)
      BY <3>3 DEF AnswerUnknown, Closed, TypeOK
    <3>. QED  BY <1>12, <3>1, <3>2, <3>3
  <2>. QED  BY <1>12, <2>2, <2>3
            DEF AnswerReturning, AnswerNew, AnswerUnknown, TypeOK
<1>13. ASSUME NEW c \in Conns, AnswerAfterReplacement(c)
       PROVE  TypeOK'
  <2>1. Sent(toward, "server", c, Response("NEW_CLIENT"))
          \in [Sides -> [Conns -> Seq(Message)]]
    BY SentAt, MessageType DEF TypeOK, Sides, Answers
  <2>2. <<Response("RETURNING_CLIENT"), SequenceHeader(ToInt32(0))>>
          \in Seq(Message)
    BY MessageType, Int32Loss DEF Answers
  <2>3. toward["client"][c] \o
          <<Response("RETURNING_CLIENT"), SequenceHeader(ToInt32(0))>>
            \in Seq(Message)
    BY <2>2, PeerType DEF TypeOK
  <2>4. toward' \in [Sides -> [Conns -> Seq(Message)]]
    <3>1. [toward EXCEPT !["client"][c] =
             @ \o <<Response("RETURNING_CLIENT"), SequenceHeader(ToInt32(0))>>]
               \in [Sides -> [Conns -> Seq(Message)]]
      BY <2>3, PeerType DEF TypeOK
    <3>2. toward \in [Sides -> [Conns -> Seq(Message)]]
      BY DEF TypeOK
    <3>. QED  BY <1>13, <2>1, <3>1, <3>2 DEF AnswerAfterReplacement
  <2>5. open' \in [Sides -> SUBSET Conns] /\ requests' \subseteq Conns
    <3>1. open \in [Sides -> SUBSET Conns] /\ requests \subseteq Conns
      BY DEF TypeOK
    <3>2. open' = open \/ open' = Closed("server", c)
      BY <1>13 DEF AnswerAfterReplacement
    <3>3. requests' = requests \ {c}
      BY <1>13 DEF AnswerAfterReplacement
    <3>4. Closed("server", c) \in [Sides -> SUBSET Conns]
      BY <3>1, PeerType DEF Closed
    <3>. QED  BY <3>1, <3>2, <3>3, <3>4
  <2>. QED  BY <1>13, <2>4, <2>5 DEF AnswerAfterReplacement, TypeOK
<1>14. ASSUME NEW c \in Conns, RequestLost(c)
       PROVE  TypeOK'
  BY <1>14 DEF RequestLost, Closed, TypeOK, Sides
<1>15. ASSUME NEW c \in Conns, BeginRecover(c)
       PROVE  TypeOK'
  <2>1. SequenceHeader(ToInt32(rseq["server"])) \in Message
    <3>1. rseq["server"] \in Int
      BY PeerType DEF TypeOK
    <3>. QED  BY <3>1, MessageType, Int32Loss
  <2>2. toward' \in [Sides -> [Conns -> Seq(Message)]]
    BY <1>15, <2>1, SentAt DEF BeginRecover, TypeOK, Sides
  <2>. QED  BY <1>15, <2>2 DEF BeginRecover, TypeOK, Stages, Sides
<1>16. ASSUME NEW c \in Conns, Break(c)
       PROVE  TypeOK'
  <2>1. PICK i \in 0 .. Len(toward["client"][c]),
             j \in 0 .. Len(toward["server"][c]) :
          toward' = [toward EXCEPT !["client"][c] = SubSeq(@, 1, i),
                                   !["server"][c] = SubSeq(@, 1, j)]
    BY <1>16 DEF Break
  <2>2. \A s \in Sides, n \in Nat :
          n <= Len(toward[s][c]) => SubSeq(toward[s][c], 1, n) \in Seq(Message)
    BY DEF TypeOK
  <2>3. toward' \in [Sides -> [Conns -> Seq(Message)]]
    <3>1. /\ SubSeq(toward["client"][c], 1, i) \in Seq(Message)
          /\ SubSeq(toward["server"][c], 1, j) \in Seq(Message)
      BY SMTT(60), <2>2, PeerType DEF TypeOK
    <3>. DEFINE net == [toward EXCEPT !["client"][c] = SubSeq(@, 1, i)]
    <3>2. net \in [Sides -> [Conns -> Seq(Message)]]
      BY <3>1, PeerType DEF TypeOK
    <3>3. toward' = [net EXCEPT !["server"][c] = SubSeq(toward["server"][c], 1, j)]
      BY <2>1, PeerType DEF TypeOK
    <3>. HIDE DEF net
    <3>. QED  BY <3>1, <3>2, <3>3, PeerType
  <2>4. faults' \in 0 .. MaxFaults /\ broken' \subseteq Conns
    BY <1>16, BoundsAssumption DEF Break, TypeOK
  <2>. QED  BY <1>16, <2>3, <2>4 DEF Break, TypeOK
<1>17. CASE ReadReturning
  <2>1. attempt["client"] \in Conns /\ toward["client"][attempt["client"]] # <<>>
    BY <1>17, TypedReads DEF ReadReturning, Kinds, Sides
  <2>2. SequenceHeader(ToInt32(rseq["client"])) \in Message
    <3>1. rseq["client"] \in Int
      BY PeerType DEF TypeOK
    <3>. QED  BY <3>1, MessageType, Int32Loss
  <2>3. toward' \in [Sides -> [Conns -> Seq(Message)]]
    BY <1>17, <2>1, <2>2, RepliedAt DEF ReadReturning, Sides
  <2>. QED  BY <1>17, <2>3 DEF ReadReturning, TypeOK, Stages, Sides
<1>18. CASE ReadRefusal
  <2>1. attempt["client"] \in Conns /\ toward["client"][attempt["client"]] # <<>>
    BY <1>18, TypedReads DEF ReadRefusal, Kinds, Sides
  <2>2. toward' \in [Sides -> [Conns -> Seq(Message)]]
    BY <1>18, <2>1, ConsumedAt DEF ReadRefusal, Sides
  <2>. QED  BY <1>18, <2>2 DEF ReadRefusal, Closed, TypeOK, Stages, Sides
<1>19. CASE KeepaliveCloses
  <2>1. faults' \in 0 .. MaxFaults
    BY <1>19, BoundsAssumption DEF KeepaliveCloses, TypeOK
  <2>. QED  BY <1>19, <2>1 DEF KeepaliveCloses, CloseSocket, Closed, TypeOK
<1>20. CASE SessionEnds
  BY <1>20 DEF SessionEnds, TypeOK
<1>21. CASE ErasedCloses
  BY <1>21 DEF ErasedCloses, CloseSocket, Closed, TypeOK
<1>. QED  BY <1>1, <1>2, <1>3, <1>4, <1>5, <1>6, <1>7, <1>8, <1>9, <1>10,
             <1>11, <1>12, <1>13, <1>14, <1>15, <1>16, <1>17, <1>18, <1>19,
             <1>20, <1>21 DEF Next, SideNext, ConnNext

-----------------------------------------------------------------------------
(* The writer.                                                             *)

LEMMA BackUpGrows ==
  ASSUME TypeOK, NEW s \in Sides, NEW len \in Lengths, BackUp(s, len)
  PROVE  /\ Len(written'[s]) = Len(written[s]) + 1
         /\ \A t \in Sides : t # s => written'[t] = written[t]
         /\ \A k \in 0 .. Len(written[s]) :
              BytesUpTo(written'[s], k) = BytesUpTo(written[s], k)
         /\ BytesUpTo(written'[s], Len(written[s]) + 1) =
              TotalBytes(written[s]) + len
         /\ \A t \in Sides : t # s => evicted'[t] = evicted[t]
         /\ Evicts(written'[s], evicted[s], evicted'[s])
<1>. DEFINE w == Append(written[s], TotalBytes(written[s]) + len)
<1>1. /\ written' = [written EXCEPT ![s] = w]
      /\ \E n \in 0 .. Len(w) : /\ Evicts(w, evicted[s], n)
                                /\ evicted' = [evicted EXCEPT ![s] = n]
  BY DEF BackUp
<1>2. written[s] \in Seq(Nat) /\ TotalBytes(written[s]) \in Nat /\ len \in Nat
  BY LengthsAssumption DEF TypeOK, TotalBytes, BytesUpTo
<1>3. /\ Len(w) = Len(written[s]) + 1
      /\ \A k \in 1 .. Len(written[s]) : w[k] = written[s][k]
      /\ w[Len(written[s]) + 1] = TotalBytes(written[s]) + len
  BY <1>2
<1>. HIDE DEF w
<1>4. written'[s] = w /\ \A t \in Sides : t # s => written'[t] = written[t]
  BY <1>1 DEF TypeOK
<1>5. /\ \A t \in Sides : t # s => evicted'[t] = evicted[t]
      /\ Evicts(w, evicted[s], evicted'[s])
  BY <1>1 DEF TypeOK
<1>. QED  BY <1>2, <1>3, <1>4, <1>5 DEF BytesUpTo

LEMMA BackUpWriter ==
  ASSUME TypeOK, WriterInv, NEW s \in Sides, NEW len \in Lengths,
         BackUp(s, len)
  PROVE  WriterInv'
<1>. SUFFICES ASSUME NEW t \in Sides
     PROVE  /\ \A i, j \in 0 .. Len(written'[t]) :
                 i <= j => BytesUpTo(written'[t], j)
                             - BytesUpTo(written'[t], i) >= j - i
            /\ evicted'[t] <= Len(written'[t])
            /\ TotalBytes(written'[t]) - BytesUpTo(written'[t], evicted'[t])
                 <= MaxBackupBytes
  BY DEF WriterInv, TotalBytes, BytesUpTo
<1>1. CASE t # s
  BY <1>1, BackUpGrows DEF WriterInv
<1>2. CASE t = s
  <2>. DEFINE n == Len(written[s])
              v(k) == BytesUpTo(written[s], k)
              w(k) == BytesUpTo(written'[s], k)
  <2>1. /\ n \in Nat /\ len \in Nat /\ len >= 1
        /\ \A k \in 0 .. n : v(k) \in Nat
        /\ TotalBytes(written[s]) = v(n)
    <3>1. written[s] \in Seq(Nat) /\ n \in Nat
      BY DEF TypeOK
    <3>2. \A k \in 0 .. n : v(k) \in Nat
      BY <3>1 DEF BytesUpTo
    <3>. QED  BY <3>1, <3>2, LengthsAssumption DEF TotalBytes
  <2>2. /\ Len(written'[s]) = n + 1
        /\ \A k \in 0 .. n : w(k) = v(k)
        /\ w(n + 1) = v(n) + len
        /\ TotalBytes(written'[s]) = w(n + 1)
        /\ Evicts(written'[s], evicted[s], evicted'[s])
    BY <2>1, BackUpGrows DEF TotalBytes
  <2>3. \A i, j \in 0 .. n : i <= j => v(j) - v(i) >= j - i
    BY DEF WriterInv
  <2>4. evicted[s] \in Nat
    BY DEF TypeOK
  <2>5. evicted'[s] <= n + 1 /\ w(n + 1) - w(evicted'[s]) <= MaxBackupBytes
    BY <2>1, <2>2, <2>4 DEF Evicts
  <2>. HIDE DEF n, v, w
  <2>6. \A i, j \in 0 .. n + 1 : i <= j => w(j) - w(i) >= j - i
    <3>. SUFFICES ASSUME NEW i \in 0 .. n + 1, NEW j \in 0 .. n + 1, i <= j
         PROVE  w(j) - w(i) >= j - i
      OBVIOUS
    <3>1. CASE j <= n
      <4>1. i \in 0 .. n /\ j \in 0 .. n
        BY <2>1, <3>1
      <4>2. w(i) = v(i) /\ w(j) = v(j) /\ v(j) - v(i) >= j - i
        BY <2>2, <2>3, <4>1
      <4>. QED  BY <4>2
    <3>2. CASE j = n + 1 /\ i <= n
      BY <2>1, <2>2, <2>3, <3>2
    <3>3. CASE j = n + 1 /\ i = n + 1
      BY <2>1, <2>2, <3>3
    <3>. QED  BY <2>1, <3>1, <3>2, <3>3
  <2>. QED  BY <1>2, <2>2, <2>5, <2>6 DEF w
<1>. QED  BY <1>1, <1>2

(* Of what is retained there are at most as many packets as bytes; so a    *)
(* header that lost the high bits of its number is always refused, and one *)
(* that is answered arrived whole.                                         *)
LEMMA AnsweredHeaderIsExact ==
  ASSUME TypeOK, WriterInv, NEW s \in Sides, NEW n \in Nat,
         n <= Len(written[s]), CanRecover(s, ToInt32(n))
  PROVE  ToInt32(n) = n
<1>. DEFINE m == Len(written[s])
<1>1. m \in Nat /\ evicted[s] \in Nat /\ evicted[s] <= m
  BY DEF TypeOK, WriterInv
<1>2. m - evicted[s] <= MaxBackupBytes
  <2>1. BytesUpTo(written[s], m) - BytesUpTo(written[s], evicted[s])
          >= m - evicted[s]
    BY <1>1 DEF WriterInv
  <2>2. /\ BytesUpTo(written[s], m) \in Nat
        /\ BytesUpTo(written[s], evicted[s]) \in Nat
    BY <1>1 DEF TypeOK, BytesUpTo
  <2>3. BytesUpTo(written[s], m) - BytesUpTo(written[s], evicted[s])
          <= MaxBackupBytes
    BY DEF WriterInv, TotalBytes
  <2>. QED  BY <1>1, <2>1, <2>2, <2>3, BackupAssumption
<1>3. m - ToInt32(n) <= m - evicted[s]
  BY DEF CanRecover
<1>4. ToInt32(n) \in Int /\ (ToInt32(n) = n \/ ToInt32(n) <= n - 2 * HalfRange)
  BY Int32Loss
<1>. QED  BY <1>1, <1>2, <1>3, <1>4, RangeAssumption, BackupAssumption

-----------------------------------------------------------------------------
(* A side that leaves its connection, and a side that writes, keep the part *)
(* of IInv that is about the two sides and the network.                     *)

(* The part of the invariant about the two sides and the network.          *)
LinkInv == PlaceInv /\ WaitingInv /\ ShapeInv /\ OrderInv /\ CompleteInv

(* Side s leaves connection c: its socket when no attempt is made, or its  *)
(* attempt; it may take the message at the head of its stream, or back up  *)
(* a packet, on the way.                                                   *)
Leaves(s, c) ==
  /\ OnConn(s, c)
  /\ \/ /\ attempt[s] = NoConn
        /\ socket[s] = c
        /\ socket' = [socket EXCEPT ![s] = NoConn]
        /\ UNCHANGED <<attempt, stage>>
     \/ /\ attempt[s] = c
        /\ attempt' = [attempt EXCEPT ![s] = NoConn]
        /\ stage' = [stage EXCEPT ![s] = "idle"]
        /\ UNCHANGED socket
  /\ open' = Closed(s, c)
  /\ \/ UNCHANGED toward
     \/ toward[s][c] # <<>> /\ toward' = Consumed(s, c)
  /\ \A t \in Sides :
       /\ Len(written'[t]) >= Len(written[t])
       /\ t # s => written'[t] = written[t]
  /\ attempt[s] # NoConn => UNCHANGED written
  /\ UNCHANGED <<rseq, broken, requests, pending>>

(* What that does, variable by variable.                                   *)
Left(s, c) ==
  /\ \A t \in Sides : t # s =>
       /\ attempt'[t] = attempt[t] /\ stage'[t] = stage[t]
       /\ socket'[t] = socket[t]
  /\ attempt'[s] = NoConn /\ stage'[s] = "idle"
  /\ socket'[s] \in {socket[s], NoConn} /\ socket'[s] # c
  /\ \A t \in Sides, d \in Conns :
       d \in open'[t] <=> d \in open[t] /\ (t # s \/ d # c)
  /\ \A t \in Sides, d \in Conns :
       \/ toward'[t][d] = toward[t][d]
       \/ /\ t = s /\ d = c /\ toward[t][d] # <<>>
          /\ toward'[t][d] = Tail(toward[t][d])
  /\ OnConn(s, c) /\ c # NoConn

LEMMA LeaveFacts ==
  ASSUME TypeOK, LinkInv, NEW s \in Sides, NEW c \in Conns, Leaves(s, c)
  PROVE  Left(s, c)
<1>1. /\ socket \in [Sides -> Conns \cup {NoConn}]
      /\ attempt \in [Sides -> Conns \cup {NoConn}]
      /\ stage \in [Sides -> Stages]
      /\ open \in [Sides -> SUBSET Conns]
  BY DEF TypeOK
<1>2. /\ attempt[s] = NoConn <=> stage[s] = "idle"
      /\ attempt[s] # NoConn => socket[s] # attempt[s]
  BY DEF LinkInv, PlaceInv
<1>3. c # NoConn
  BY ConnsAssumption
<1>4. \A t \in Sides, d \in Conns :
        d \in open'[t] <=> d \in open[t] /\ (t # s \/ d # c)
  BY <1>1 DEF Leaves, Closed
<1>5. \A t \in Sides, d \in Conns :
        \/ toward'[t][d] = toward[t][d]
        \/ /\ t = s /\ d = c /\ toward[t][d] # <<>>
           /\ toward'[t][d] = Tail(toward[t][d])
  BY ConsumedAt DEF Leaves
<1>6. CASE attempt[s] = NoConn
  BY <1>1, <1>2, <1>3, <1>4, <1>5, <1>6 DEF Leaves, Left
<1>7. CASE attempt[s] # NoConn
  BY <1>1, <1>2, <1>3, <1>4, <1>5, <1>7 DEF Leaves, Left
<1>. QED  BY <1>6, <1>7

LEMMA LeavePlace ==
  ASSUME TypeOK, TypeOK', LinkInv, NEW s \in Sides, NEW c \in Conns,
         Leaves(s, c)
  PROVE  PlaceInv'
<1>1. Left(s, c)
  BY LeaveFacts
<1>2. \A t \in Sides, d \in Conns :
        /\ OnConn(t, d)' => OnConn(t, d) /\ (t # s \/ d # c)
        /\ CaughtUp(t, d)' => CaughtUp(t, d)
  BY <1>1, ConnsAssumption DEF Left, OnConn, CaughtUp, Trying
<1>3. ASSUME NEW t \in Sides
      PROVE  /\ attempt'[t] = NoConn <=> stage'[t] = "idle"
             /\ stage'[t] = "catchup" => socket'[t] = NoConn
             /\ attempt'[t] # NoConn => socket'[t] # attempt'[t]
  BY <1>1 DEF Left, LinkInv, PlaceInv
<1>4. ASSUME NEW t \in Sides, NEW d \in Conns, OnConn(t, d)'
      PROVE  d \in open'[t]
  BY <1>1, <1>2, <1>4 DEF Left, LinkInv, PlaceInv
<1>5. attempt'["client"] # NoConn => socket'["client"] = NoConn
  BY <1>1, PeerType DEF Left, LinkInv, PlaceInv
<1>6. stage'["server"] # "response"
  BY <1>1, PeerType DEF Left, LinkInv, PlaceInv
<1>7. requests' = requests /\ pending' = pending
  BY DEF Leaves
<1>8. ASSUME NEW d \in requests \cup pending
      PROVE  /\ d \in open'["server"] /\ ~OnConn("server", d)'
             /\ ~CaughtUp("client", d)'
  <2>1. d \in Conns /\ d \in open["server"] /\ ~OnConn("server", d)
        /\ ~CaughtUp("client", d)
    BY DEF LinkInv, PlaceInv, TypeOK
  <2>2. s # "server" \/ d # c
    BY <1>1, <2>1 DEF Left
  <2>. QED  BY <1>1, <1>2, <2>1, <2>2, PeerType DEF Left
<1>9. requests \cap pending = {}
  BY DEF LinkInv, PlaceInv
<1>. QED  BY <1>3, <1>4, <1>5, <1>6, <1>7, <1>8, <1>9
          DEF PlaceInv

LEMMA BufferLength ==
  ASSUME NEW q \in Seq(Message), NEW k \in 1 .. Len(q)
  PROVE  Len(q[k].buf) \in Nat
<1>1. q[k] \in Message
  BY ElementOfSeq
<1>. QED  BY <1>1 DEF Message

(* A shape outlives the writing of further packets.                        *)
LEMMA ShapeMonotonic ==
  ASSUME NEW q \in Seq(Message), NEW r \in Nat, NEW w \in Nat, NEW x \in Nat,
         w <= x
  PROVE  /\ HeaderShape(q, r, w) => HeaderShape(q, r, x)
         /\ CatchupShape(q, r, w) => CatchupShape(q, r, x)
         /\ PacketShape(q, r, w) => PacketShape(q, r, x)
<1>1. Len(q) \in Nat
  OBVIOUS
<1>2. \A k \in 1 .. Len(q) : Len(q[k].buf) \in Nat
  BY DEF Message
<1>. QED  BY <1>1, <1>2 DEF HeaderShape, CatchupShape, PacketShape

(* Side t was where it is.                                                 *)
LEMMA LeaveStays ==
  ASSUME NEW s \in Sides, NEW c \in Conns, Left(s, c)
  PROVE  \A t \in Sides, d \in Conns :
           /\ OnConn(t, d)' => OnConn(t, d) /\ (t # s \/ d # c)
           /\ CaughtUp(t, d)' => CaughtUp(t, d) /\ (t # s \/ d # c)
           /\ socket'[t] = d => socket[t] = d /\ (t # s \/ d # c)
           /\ \A st \in {"response", "header", "catchup"} :
                Trying(t, d, st)' => Trying(t, d, st) /\ (t # s \/ d # c)
  BY ConnsAssumption DEF Left, OnConn, CaughtUp, Trying

LEMMA LeaveShape ==
  ASSUME TypeOK, TypeOK', LinkInv, NEW s \in Sides, NEW c \in Conns,
         Leaves(s, c)
  PROVE  ShapeInv'
<1>1. Left(s, c)
  BY LeaveFacts
<1>. SUFFICES ASSUME NEW t \in Sides, NEW d \in Conns
     PROVE  LET q == toward'[t][d]
                w == Len(written'[Peer(t)])
            IN  /\ Trying(t, d, "response")' => ResponseShape(q)
                /\ Trying(t, d, "header")' => HeaderShape(q, rseq'[t], w)
                /\ Trying(t, d, "catchup")' => CatchupShape(q, rseq'[t], w)
                /\ socket'[t] = d => PacketShape(q, rseq'[t], w)
  BY DEF ShapeInv, ShapeAt
<1>. DEFINE q == toward[t][d]
            w == Len(written[Peer(t)])
            x == Len(written'[Peer(t)])
<1>2. /\ q \in Seq(Message) /\ rseq[t] \in Nat /\ w \in Nat /\ x \in Nat
      /\ w <= x /\ rseq'[t] = rseq[t]
  <2>1. Peer(t) \in Sides
    BY PeerType
  <2>2. q \in Seq(Message) /\ rseq[t] \in Nat /\ w \in Nat
    BY <2>1 DEF TypeOK
  <2>3. x \in Nat
    BY <2>1 DEF TypeOK
  <2>4. w <= x /\ rseq' = rseq
    BY <2>1, <2>2, <2>3 DEF Leaves
  <2>. QED  BY <2>2, <2>3, <2>4
<1>3. /\ Trying(t, d, "response") => ResponseShape(q)
      /\ Trying(t, d, "header") => HeaderShape(q, rseq[t], w)
      /\ Trying(t, d, "catchup") => CatchupShape(q, rseq[t], w)
      /\ socket[t] = d => PacketShape(q, rseq[t], w)
  BY DEF LinkInv, ShapeInv, ShapeAt
<1>4. t # s \/ d # c => toward'[t][d] = q
  BY <1>1 DEF Left
<1>5. /\ Trying(t, d, "response")' =>
           Trying(t, d, "response") /\ (t # s \/ d # c)
      /\ Trying(t, d, "header")' => Trying(t, d, "header") /\ (t # s \/ d # c)
      /\ Trying(t, d, "catchup")' => Trying(t, d, "catchup") /\ (t # s \/ d # c)
      /\ socket'[t] = d => socket[t] = d /\ (t # s \/ d # c)
  BY <1>1, LeaveStays
<1>6. /\ HeaderShape(q, rseq[t], w) => HeaderShape(q, rseq[t], x)
      /\ CatchupShape(q, rseq[t], w) => CatchupShape(q, rseq[t], x)
      /\ PacketShape(q, rseq[t], w) => PacketShape(q, rseq[t], x)
  <2>. HIDE DEF q, w, x
  <2>. QED  BY <1>2, ShapeMonotonic
<1>. HIDE DEF q, w
<1>. QED  BY <1>2, <1>3, <1>4, <1>5, <1>6

LEMMA LeaveWaiting ==
  ASSUME TypeOK, TypeOK', LinkInv, NEW s \in Sides, NEW c \in Conns,
         Leaves(s, c)
  PROVE  WaitingInv'
<1>1. Left(s, c) /\ requests' = requests /\ pending' = pending
      /\ broken' = broken /\ requests \subseteq Conns /\ pending \subseteq Conns
  BY LeaveFacts DEF Leaves, TypeOK
<1>2. ASSUME NEW d \in requests
      PROVE  /\ toward'["client"][d] = <<>> /\ toward'["server"][d] = <<>>
             /\ ~Trying("client", d, "header")'
  <2>1. /\ toward["client"][d] = <<>> /\ toward["server"][d] = <<>>
        /\ ~Trying("client", d, "header")
    BY DEF LinkInv, WaitingInv
  <2>. QED  BY <1>1, <2>1, LeaveStays, PeerType DEF Left
<1>3. ASSUME NEW d \in pending
      PROVE  /\ \A k \in 1 .. Len(toward'["client"][d]) :
                  toward'["client"][d][k].kind \in Answers
             /\ \A k \in 1 .. Len(toward'["server"][d]) :
                  toward'["server"][d][k].kind = "header"
             /\ Len(toward'["server"][d]) <= 1
             /\ d \notin broken =>
                  /\ Trying("client", d, "response")' =>
                       Len(toward'["client"][d]) = 1
                  /\ Trying("client", d, "header")' =>
                       /\ Len(toward'["client"][d]) = 0
                       /\ Len(toward'["server"][d]) = 1
  <2>1. d \in Conns /\ ~OnConn("server", d)
    BY <1>1 DEF LinkInv, PlaceInv
  <2>2. toward'["server"][d] = toward["server"][d]
    BY <1>1, <2>1, PeerType DEF Left
  <2>3. /\ \A k \in 1 .. Len(toward["client"][d]) :
             toward["client"][d][k].kind \in Answers
        /\ \A k \in 1 .. Len(toward["server"][d]) :
             toward["server"][d][k].kind = "header"
        /\ Len(toward["server"][d]) <= 1
        /\ d \notin broken =>
             /\ Trying("client", d, "response") => Len(toward["client"][d]) = 1
             /\ Trying("client", d, "header") =>
                  /\ Len(toward["client"][d]) = 0
                  /\ Len(toward["server"][d]) = 1
    BY DEF LinkInv, WaitingInv
  <2>4. CASE toward'["client"][d] = toward["client"][d]
    BY <1>1, <2>1, <2>2, <2>3, <2>4, LeaveStays, PeerType
  <2>5. CASE /\ s = "client" /\ d = c /\ toward["client"][d] # <<>>
             /\ toward'["client"][d] = Tail(toward["client"][d])
    <3>1. toward["client"][d] \in Seq(Message)
      BY <2>1, PeerType DEF TypeOK
    <3>2. \A k \in 1 .. Len(toward'["client"][d]) :
            toward'["client"][d][k].kind \in Answers
      BY <2>3, <2>5, <3>1, TailFacts
    <3>3. ~Trying("client", d, "response")' /\ ~Trying("client", d, "header")'
      BY <1>1, <2>1, <2>5, LeaveStays, PeerType
    <3>. QED  BY <2>2, <2>3, <3>2, <3>3
  <2>. QED  BY <1>1, <2>1, <2>4, <2>5, PeerType DEF Left
<1>. QED  BY <1>1, <1>2, <1>3 DEF WaitingInv

LEMMA LeaveOrder ==
  ASSUME TypeOK, TypeOK', LinkInv, NEW s \in Sides, NEW c \in Conns,
         Leaves(s, c)
  PROVE  OrderInv'
<1>. SUFFICES ASSUME NEW t \in Sides, NEW d \in Conns
     PROVE  LET q == toward'[Peer(t)][d]
            IN  /\ Trying(t, d, "response")' =>
                     q = <<>> /\ ~CaughtUp(Peer(t), d)'
                /\ Trying(t, d, "header")' =>
                     /\ socket'[Peer(t)] # d
                     /\ \A k \in 1 .. Len(q) :
                          q[k].kind \in Answers \cup {"header"}
                /\ Trying(t, d, "header")' \/ Trying(t, d, "catchup")' =>
                     \A k \in 1 .. Len(q) :
                       q[k].kind = "header" => q[k].num = ToInt32(rseq'[t])
  BY DEF OrderInv, OrderAt, CaughtUp, Trying
<1>. DEFINE p == Peer(t)
            q == toward[p][d]
            r == toward'[p][d]
<1>1. Left(s, c) /\ rseq' = rseq /\ p \in Sides /\ q \in Seq(Message)
  <2>1. p \in Sides
    BY PeerType
  <2>2. q \in Seq(Message)
    BY <2>1 DEF TypeOK
  <2>. QED  BY <2>1, <2>2, LeaveFacts DEF Leaves
<1>2. /\ Trying(t, d, "response")' => Trying(t, d, "response")
      /\ Trying(t, d, "header")' => Trying(t, d, "header")
      /\ Trying(t, d, "catchup")' => Trying(t, d, "catchup")
      /\ CaughtUp(p, d)' => CaughtUp(p, d)
      /\ socket'[p] = d => socket[p] = d
  BY <1>1, LeaveStays
<1>3. /\ Trying(t, d, "response") => q = <<>> /\ ~CaughtUp(p, d)
      /\ Trying(t, d, "header") =>
           /\ socket[p] # d
           /\ \A k \in 1 .. Len(q) : q[k].kind \in Answers \cup {"header"}
      /\ Trying(t, d, "header") \/ Trying(t, d, "catchup") =>
           \A k \in 1 .. Len(q) :
             q[k].kind = "header" => q[k].num = ToInt32(rseq[t])
  BY DEF LinkInv, OrderInv, OrderAt
<1>4. \/ r = q
      \/ q # <<>> /\ r = Tail(q)
  BY <1>1 DEF Left
<1>5. \/ r = q
      \/ /\ q # <<>>
         /\ Len(q) \in Nat /\ Len(r) = Len(q) - 1
         /\ \A k \in 1 .. Len(q) - 1 : r[k] = q[k + 1]
  BY <1>1, <1>4, TailFacts
<1>. HIDE DEF p, q, r
<1>6. CASE r = q
  BY <1>1, <1>2, <1>3, <1>6 DEF p, r
<1>7. CASE q # <<>> /\ Len(q) \in Nat /\ Len(r) = Len(q) - 1
             /\ \A k \in 1 .. Len(q) - 1 : r[k] = q[k + 1]
  <2>1. ~Trying(t, d, "response")
    BY <1>3, <1>7
  <2>2. \A k \in 1 .. Len(r) : k + 1 \in 1 .. Len(q) /\ r[k] = q[k + 1]
    BY <1>7
  <2>. QED  BY <1>1, <1>2, <1>3, <2>1, <2>2 DEF p, r
<1>. QED  BY <1>5, <1>6, <1>7

LEMMA LeaveComplete ==
  ASSUME TypeOK, TypeOK', LinkInv, NEW s \in Sides, NEW c \in Conns,
         Leaves(s, c)
  PROVE  CompleteInv'
<1>. SUFFICES ASSUME NEW t \in Sides, NEW d \in Conns, d \notin broken'
     PROVE  LET q == toward'[t][d]
                r == rseq'[t]
                w == Len(written'[Peer(t)])
            IN  /\ Trying(Peer(t), d, "header")' =>
                     /\ Trying(t, d, "response")' => Len(q) = 2
                     /\ Trying(t, d, "header")' => Len(q) = 1
                     /\ Trying(t, d, "catchup")' => Len(q) = 0
                /\ CaughtUp(Peer(t), d)' =>
                     /\ Trying(t, d, "header")' =>
                          Len(q) = 2 /\ r + Len(q[2].buf) = w
                     /\ Trying(t, d, "catchup")' =>
                          Len(q) >= 1 /\ r + Len(q[1].buf) + Len(q) - 1 = w
                     /\ socket'[t] = d => r + Len(q) = w
  BY DEF CompleteInv, CompleteAt, CaughtUp, Trying
<1>. DEFINE p == Peer(t)
            q == toward[t][d]
            r == rseq[t]
            w == Len(written[p])
<1>1. /\ Left(s, c) /\ rseq' = rseq /\ broken' = broken
      /\ p \in Sides
      /\ s # p => written'[p] = written[p]
      /\ attempt[s] # NoConn => written' = written
  BY LeaveFacts, PeerType DEF Leaves
<1>2. /\ \A st \in {"response", "header", "catchup"} :
           /\ Trying(t, d, st)' => Trying(t, d, st)
           /\ Trying(p, d, st)' => Trying(p, d, st)
      /\ CaughtUp(p, d)' => CaughtUp(p, d) /\ (p # s \/ d # c)
      /\ socket'[t] = d => socket[t] = d
  BY <1>1, LeaveStays
<1>3. OnConn(t, d)' => toward'[t][d] = q
  BY <1>1, LeaveStays DEF Left
<1>4. CaughtUp(p, d)' => written'[p] = written[p]
  <2>1. CASE s = p
    <3>1. CaughtUp(p, d)' => attempt[s] # NoConn
      BY <2>1, <1>1, <1>2, ConnsAssumption
         DEF CaughtUp, Trying, Left, OnConn
    <3>. QED  BY <1>1, <3>1
  <2>. QED  BY <1>1, <2>1
<1>5. /\ Trying(p, d, "header") =>
           /\ Trying(t, d, "response") => Len(q) = 2
           /\ Trying(t, d, "header") => Len(q) = 1
           /\ Trying(t, d, "catchup") => Len(q) = 0
      /\ CaughtUp(p, d) =>
           /\ Trying(t, d, "header") => Len(q) = 2 /\ r + Len(q[2].buf) = w
           /\ Trying(t, d, "catchup") =>
                Len(q) >= 1 /\ r + Len(q[1].buf) + Len(q) - 1 = w
           /\ socket[t] = d => r + Len(q) = w
  BY <1>1 DEF LinkInv, CompleteInv, CompleteAt
<1>6. \/ OnConn(t, d)'
      \/ ~Trying(t, d, "response")' /\ ~Trying(t, d, "header")'
           /\ ~Trying(t, d, "catchup")' /\ socket'[t] # d
  BY DEF OnConn, Trying
<1>7. CASE OnConn(t, d)'
  <2>. HIDE DEF p, q, r
  <2>. QED  BY <1>1, <1>2, <1>3, <1>4, <1>5, <1>7 DEF p, r
<1>. QED  BY <1>6, <1>7

(* A side that leaves keeps the invariant.                                 *)
LEMMA LeaveStep ==
  ASSUME TypeOK, TypeOK', LinkInv, NEW s \in Sides, NEW c \in Conns,
         Leaves(s, c)
  PROVE  LinkInv'
  BY LeavePlace, LeaveWaiting, LeaveShape, LeaveOrder, LeaveComplete
     DEF LinkInv

-----------------------------------------------------------------------------
(* Write: the framed packet goes to a peer that is catching up or up.      *)

LEMMA WriteStep ==
  ASSUME TypeOK, TypeOK', LinkInv, NEW s \in Sides, NEW len \in Lengths,
         Write(s, len)
  PROVE  LinkInv'
<1>. DEFINE c == socket[s]
            p == Peer(s)
            n == Len(written[s])
            m == Framed(n + 1)
<1>1. /\ c \in Conns /\ c # NoConn /\ attempt[s] = NoConn
      /\ p \in Sides /\ p # s /\ Peer(p) = s /\ (\A t \in Sides : t = s \/ t = p)
  BY TypedReads, PeerType, ConnsAssumption DEF Write, Up, LinkInv
<1>2. /\ socket' = socket /\ attempt' = attempt /\ stage' = stage
      /\ open' = open /\ broken' = broken /\ rseq' = rseq
      /\ requests' = requests /\ pending' = pending
  BY DEF Write, sideVars, readerVars, serverVars
<1>3. /\ n \in Nat /\ Len(written'[s]) = n + 1
      /\ \A t \in Sides : t # s => written'[t] = written[t]
      /\ \A t \in Sides : Len(written[t]) \in Nat
  <2>1. BackUp(s, len)
    BY DEF Write
  <2>. QED  BY SMTT(60), <2>1, BackUpGrows DEF TypeOK
<1>4. m \in Message /\ m.kind = "packet" /\ m.num = n + 1
  BY <1>3, MessageType DEF Framed
<1>5. /\ \A t \in Sides, d \in Conns : toward[t][d] \in Seq(Message)
      /\ \A t \in Sides : rseq[t] \in Nat
  BY DEF TypeOK
<1>6. /\ \A t \in Sides, d \in Conns :
           t # p \/ d # c => toward'[t][d] = toward[t][d]
      /\ \/ toward'[p][c] = toward[p][c]
         \/ c \notin broken /\ toward'[p][c] = Append(toward[p][c], m)
      /\ c \notin broken /\ OnConn(p, c) =>
           toward'[p][c] = Append(toward[p][c], m)
  <2>1. toward' = Sent(toward, s, c, m)
    BY DEF Write
  <2>2. toward \in [Sides -> [Conns -> Seq(Message)]]
    BY DEF TypeOK
  <2>3. \A t \in Sides, d \in Conns :
          toward'[t][d] = IF t = Peer(s) /\ d = c /\ Carries(s, c)
                          THEN Append(toward[t][d], m) ELSE toward[t][d]
    <3>. HIDE DEF m, c, p, n
    <3>. QED  BY <1>1, <1>4, <2>1, SentStep
  <2>4. OnConn(p, c) => c \in open[Peer(s)]
    <3>. HIDE DEF c
    <3>. QED  BY <1>1 DEF LinkInv, PlaceInv
  <2>. QED  BY <1>1, <2>3, <2>4 DEF Carries
<1>. HIDE DEF c, p, n, m
<1>7. socket[s] = c /\ Len(written[s]) = n
  BY DEF c, n
<1>8. /\ ~Trying(p, c, "response") /\ ~Trying(p, c, "header")
      /\ \A d \in Conns, st \in {"response", "header", "catchup"} :
           ~Trying(s, d, st)
      /\ \A d \in Conns : CaughtUp(s, d) <=> d = c
  <2>1. \A d \in Conns, st \in {"response", "header", "catchup"} :
          ~Trying(s, d, st)
    BY <1>1, ConnsAssumption DEF Trying
  <2>2. \A d \in Conns : CaughtUp(s, d) <=> d = c
    BY <1>7, <2>1 DEF CaughtUp
  <2>3. ~Trying(p, c, "response") /\ ~Trying(p, c, "header")
    BY <1>1, <1>7, <2>2 DEF LinkInv, OrderInv, OrderAt
  <2>. QED  BY <2>1, <2>2, <2>3
<1>9. c \notin broken =>
        /\ Trying(p, c, "catchup") =>
             /\ Len(toward[p][c]) >= 1
             /\ rseq[p] + Len(toward[p][c][1].buf) + Len(toward[p][c]) - 1 = n
        /\ socket[p] = c => rseq[p] + Len(toward[p][c]) = n
  BY <1>1, <1>7, <1>8 DEF LinkInv, CompleteInv, CompleteAt
<1>10. ASSUME c \notin broken, toward'[p][c] = Append(toward[p][c], m)
       PROVE  /\ Trying(p, c, "catchup") =>
                   /\ CatchupShape(toward'[p][c], rseq[p], n + 1)
                   /\ Len(toward'[p][c]) >= 1
                   /\ rseq[p] + Len(toward'[p][c][1].buf)
                        + Len(toward'[p][c]) - 1 = n + 1
              /\ socket[p] = c =>
                   /\ PacketShape(toward'[p][c], rseq[p], n + 1)
                   /\ rseq[p] + Len(toward'[p][c]) = n + 1
  <2>. DEFINE q == toward[p][c]
              x == toward'[p][c]
  <2>1. /\ q \in Seq(Message) /\ Len(q) \in Nat /\ Len(x) = Len(q) + 1
        /\ \A k \in 1 .. Len(q) : x[k] = q[k]
        /\ x[Len(q) + 1] = m
    BY <1>1, <1>4, <1>5, <1>10, AppendFacts
  <2>2. /\ Trying(p, c, "catchup") => CatchupShape(q, rseq[p], n)
        /\ socket[p] = c => PacketShape(q, rseq[p], n)
    BY <1>1, <1>7 DEF LinkInv, ShapeInv, ShapeAt
  <2>3. /\ Trying(p, c, "catchup") =>
             Len(q) >= 1 /\ rseq[p] + Len(q[1].buf) + Len(q) - 1 = n
        /\ socket[p] = c => rseq[p] + Len(q) = n
    BY <1>9, <1>10
  <2>4. Len(q) >= 1 => Len(q[1].buf) \in Nat
    BY <2>1, BufferLength
  <2>5. rseq[p] \in Nat
    BY <1>1, <1>5
  <2>. HIDE DEF q, x
  <2>6. Trying(p, c, "catchup") =>
          /\ CatchupShape(x, rseq[p], n + 1)
          /\ Len(x) >= 1
          /\ rseq[p] + Len(x[1].buf) + Len(x) - 1 = n + 1
    <3>. SUFFICES ASSUME Trying(p, c, "catchup")
         PROVE  /\ CatchupShape(x, rseq[p], n + 1)
                /\ Len(x) >= 1
                /\ rseq[p] + Len(x[1].buf) + Len(x) - 1 = n + 1
      OBVIOUS
    <3>1. /\ Len(q) >= 1 /\ Len(x) >= 1 /\ x[1] = q[1]
          /\ rseq[p] + Len(q[1].buf) + Len(x) - 1 = n + 1
      <4>1. Len(q) >= 1 /\ rseq[p] + Len(q[1].buf) + Len(q) - 1 = n
        BY <2>3
      <4>2. Len(x) >= 1 /\ x[1] = q[1]
        BY <2>1, <4>1
      <4>3. rseq[p] + Len(q[1].buf) + Len(x) - 1 = n + 1
        BY <1>3, <2>1, <2>4, <2>5, <4>1
      <4>. QED  BY <4>1, <4>2, <4>3
    <3>2. q[1].kind = "catchup" /\ Contiguous(q[1].buf, rseq[p])
      BY <2>2, <3>1 DEF CatchupShape
    <3>3. ASSUME NEW k \in 2 .. Len(x)
          PROVE  /\ x[k].kind = "packet"
                 /\ x[k].num = rseq[p] + Len(q[1].buf) + k - 1
      <4>1. CASE k = Len(q) + 1
        BY <1>3, <1>4, <2>1, <2>3, <2>4, <2>5, <3>1, <4>1
      <4>2. CASE k \in 2 .. Len(q)
        BY <2>1, <2>2, <3>1, <4>2 DEF CatchupShape
      <4>. QED  BY <2>1, <4>1, <4>2
    <3>. QED  BY <1>3, <3>1, <3>2, <3>3 DEF CatchupShape
  <2>7. socket[p] = c =>
          /\ PacketShape(x, rseq[p], n + 1)
          /\ rseq[p] + Len(x) = n + 1
    <3>. SUFFICES ASSUME socket[p] = c
         PROVE  /\ PacketShape(x, rseq[p], n + 1)
                /\ rseq[p] + Len(x) = n + 1
      OBVIOUS
    <3>1. rseq[p] + Len(x) = n + 1
      BY <1>3, <2>1, <2>3, <2>5
    <3>2. ASSUME NEW k \in 1 .. Len(x)
          PROVE  x[k].kind = "packet" /\ x[k].num = rseq[p] + k
      <4>1. CASE k = Len(q) + 1
        BY <1>3, <1>4, <2>1, <2>3, <2>5, <4>1
      <4>2. CASE k \in 1 .. Len(q)
        BY <2>1, <2>2, <4>2 DEF PacketShape
      <4>. QED  BY <2>1, <4>1, <4>2
    <3>. QED  BY <1>3, <3>1, <3>2 DEF PacketShape
  <2>. QED  BY <2>6, <2>7 DEF x
<1>11. PlaceInv'
  BY <1>2 DEF LinkInv, PlaceInv, OnConn, CaughtUp, Trying
<1>12. WaitingInv'
  <2>1. c \notin requests \cup pending
    BY <1>1, <1>7, PeerType DEF LinkInv, PlaceInv, OnConn, CaughtUp
  <2>2. requests \subseteq Conns /\ pending \subseteq Conns
    BY DEF TypeOK
  <2>3. \A t \in Sides, d \in requests \cup pending :
          toward'[t][d] = toward[t][d]
    BY <1>6, <2>1, <2>2
  <2>. QED  BY <1>2, <2>3, PeerType DEF LinkInv, WaitingInv, Trying
<1>13. ShapeInv'
  <2>. SUFFICES ASSUME NEW t \in Sides, NEW d \in Conns
       PROVE  LET q == toward'[t][d]
                  w == Len(written'[Peer(t)])
              IN  /\ Trying(t, d, "response") => ResponseShape(q)
                  /\ Trying(t, d, "header") => HeaderShape(q, rseq[t], w)
                  /\ Trying(t, d, "catchup") => CatchupShape(q, rseq[t], w)
                  /\ socket[t] = d => PacketShape(q, rseq[t], w)
    BY <1>2 DEF ShapeInv, ShapeAt, Trying
  <2>1. /\ Trying(t, d, "response") => ResponseShape(toward[t][d])
        /\ Trying(t, d, "header") =>
             HeaderShape(toward[t][d], rseq[t], Len(written[Peer(t)]))
        /\ Trying(t, d, "catchup") =>
             CatchupShape(toward[t][d], rseq[t], Len(written[Peer(t)]))
        /\ socket[t] = d =>
             PacketShape(toward[t][d], rseq[t], Len(written[Peer(t)]))
    BY DEF LinkInv, ShapeInv, ShapeAt
  <2>2. /\ Peer(t) \in Sides /\ Len(written[Peer(t)]) \in Nat
        /\ Len(written'[Peer(t)]) \in Nat
        /\ Len(written[Peer(t)]) <= Len(written'[Peer(t)])
    <3>1. CASE t = s
      <4>1. Peer(t) = p /\ written'[p] = written[p]
        BY <1>1, <1>3, <3>1 DEF p
      <4>. QED  BY <1>1, <1>3, <4>1
    <3>2. CASE t = p
      BY <1>1, <1>3, <1>7, <3>2
    <3>. QED  BY <1>1, <3>1, <3>2
  <2>3. CASE toward'[t][d] = toward[t][d]
    BY <1>5, <2>1, <2>2, <2>3, ShapeMonotonic
  <2>4. CASE /\ t = p /\ d = c /\ c \notin broken
             /\ toward'[p][c] = Append(toward[p][c], m)
    BY <1>1, <1>3, <1>8, <1>10, <2>4
  <2>. QED  BY <1>6, <2>3, <2>4
<1>14. OrderInv'
  <2>. SUFFICES ASSUME NEW t \in Sides, NEW d \in Conns
       PROVE  LET q == toward'[Peer(t)][d]
              IN  /\ Trying(t, d, "response") =>
                       q = <<>> /\ ~CaughtUp(Peer(t), d)
                  /\ Trying(t, d, "header") =>
                       /\ socket[Peer(t)] # d
                       /\ \A k \in 1 .. Len(q) :
                            q[k].kind \in Answers \cup {"header"}
                  /\ Trying(t, d, "header") \/ Trying(t, d, "catchup") =>
                       \A k \in 1 .. Len(q) :
                         q[k].kind = "header" => q[k].num = ToInt32(rseq[t])
    BY <1>2 DEF OrderInv, OrderAt, CaughtUp, Trying
  <2>1. CASE t = s
    BY <1>8, <2>1
  <2>2. CASE t = p
    BY <1>1, <1>6, <2>2 DEF LinkInv, OrderInv, OrderAt
  <2>. QED  BY <1>1, <2>1, <2>2
<1>15. CompleteInv'
  <2>. SUFFICES ASSUME NEW t \in Sides, NEW d \in Conns, d \notin broken
       PROVE  LET q == toward'[t][d]
                  r == rseq[t]
                  w == Len(written'[Peer(t)])
              IN  /\ Trying(Peer(t), d, "header") =>
                       /\ Trying(t, d, "response") => Len(q) = 2
                       /\ Trying(t, d, "header") => Len(q) = 1
                       /\ Trying(t, d, "catchup") => Len(q) = 0
                  /\ CaughtUp(Peer(t), d) =>
                       /\ Trying(t, d, "header") =>
                            Len(q) = 2 /\ r + Len(q[2].buf) = w
                       /\ Trying(t, d, "catchup") =>
                            Len(q) >= 1 /\ r + Len(q[1].buf) + Len(q) - 1 = w
                       /\ socket[t] = d => r + Len(q) = w
    BY <1>2 DEF CompleteInv, CompleteAt, CaughtUp, Trying
  <2>1. CASE t = s
    <3>1. toward'[t][d] = toward[t][d] /\ written'[Peer(t)] = written[Peer(t)]
      <4>1. t # p /\ Peer(t) = p /\ p # s
        BY <1>1, <1>7, <2>1 DEF p
      <4>. QED  BY <1>1, <1>3, <1>6, <4>1
    <3>. QED  BY <3>1 DEF LinkInv, CompleteInv, CompleteAt
  <2>2. CASE t = p /\ d # c
    BY <1>1, <1>8, <2>2
  <2>3. CASE t = p /\ d = c
    <3>1. CASE OnConn(p, c)
      BY <1>1, <1>3, <1>6, <1>8, <1>10, <2>3, <3>1
    <3>2. CASE ~OnConn(p, c)
      BY <1>1, <2>3, <3>2 DEF OnConn, Trying
    <3>. QED  BY <3>1, <3>2
  <2>. QED  BY <1>1, <2>1, <2>2, <2>3
<1>. QED  BY <1>11, <1>12, <1>13, <1>14, <1>15 DEF LinkInv

(* A step at one connection leaves every other connection as it is.        *)
Untouched(d) ==
  /\ d \in broken' <=> d \in broken
  /\ \A t \in Sides :
       /\ toward'[t][d] = toward[t][d]
       /\ attempt'[t] = d <=> attempt[t] = d
       /\ attempt[t] = d => stage'[t] = stage[t]
       /\ socket'[t] = d <=> socket[t] = d
       /\ OnConn(t, d) => rseq'[t] = rseq[t]

Links(t, d) == ShapeAt(t, d) /\ OrderAt(t, d) /\ CompleteAt(t, d)

LEMMA UntouchedLinks ==
  ASSUME LinkInv, NEW d \in Conns, Untouched(d), NEW t \in Sides,
         written' = written
  PROVE  Links(t, d)'
<1>1. Peer(t) \in Sides
  BY PeerType
<1>2. Links(t, d)
  BY DEF LinkInv, ShapeInv, OrderInv, CompleteInv, Links
<1>3. /\ toward'[t][d] = toward[t][d]
      /\ toward'[Peer(t)][d] = toward[Peer(t)][d]
      /\ d \in broken' <=> d \in broken
  BY <1>1 DEF Untouched
<1>4. \A u \in Sides :
        /\ \A st \in {"response", "header", "catchup"} :
             Trying(u, d, st)' <=> Trying(u, d, st)
        /\ socket'[u] = d <=> socket[u] = d
        /\ CaughtUp(u, d)' <=> CaughtUp(u, d)
        /\ OnConn(u, d) => rseq'[u] = rseq[u]
  BY DEF Untouched, Trying, CaughtUp
<1>5. \A st \in {"response", "header", "catchup"} :
        Trying(t, d, st) => rseq'[t] = rseq[t]
  BY <1>4 DEF Trying, OnConn
<1>6. socket[t] = d => rseq'[t] = rseq[t]
  BY <1>4 DEF OnConn
<1>7. ShapeAt(t, d)'
  BY <1>2, <1>3, <1>4, <1>5, <1>6 DEF Links, ShapeAt
<1>8. OrderAt(t, d)'
  BY <1>1, <1>2, <1>3, <1>4, <1>5 DEF Links, OrderAt
<1>9. CompleteAt(t, d)'
  BY <1>1, <1>2, <1>3, <1>4, <1>5, <1>6 DEF Links, CompleteAt
<1>. QED  BY <1>7, <1>8, <1>9 DEF Links

LEMMA UntouchedWaiting ==
  ASSUME TypeOK, LinkInv, requests' \subseteq requests, pending' \subseteq pending,
         \A d \in requests' \cup pending' : Untouched(d)
  PROVE  WaitingInv'
<1>1. \A d \in requests' \cup pending' :
        /\ toward'["client"][d] = toward["client"][d]
        /\ toward'["server"][d] = toward["server"][d]
        /\ \A st \in {"response", "header", "catchup"} :
             Trying("client", d, st)' <=> Trying("client", d, st)
        /\ d \in broken' <=> d \in broken
  BY PeerType DEF Untouched, Trying
<1>. QED  BY <1>1 DEF LinkInv, WaitingInv

(* So a step at connection c is checked at the two ends of c.              *)
LEMMA OneConnection ==
  ASSUME LinkInv, NEW c \in Conns, NEW s \in Sides, written' = written,
         \A d \in Conns : d # c => Untouched(d),
         PlaceInv', WaitingInv', Links(s, c)', Links(Peer(s), c)'
  PROVE  LinkInv'
<1>1. \A t \in Sides, d \in Conns : Links(t, d)'
  BY UntouchedLinks, PeerType
<1>. QED  BY <1>1 DEF Links, LinkInv, ShapeInv, OrderInv, CompleteInv

-----------------------------------------------------------------------------
(* What is left of a stream when its head is taken.                        *)

LEMMA PacketTail ==
  ASSUME NEW q \in Seq(Message), q # <<>>, NEW r \in Nat, NEW w \in Nat,
         PacketShape(q, r, w)
  PROVE  PacketShape(Tail(q), r + 1, w)
<1>. DEFINE x == Tail(q)
<1>1. /\ Len(x) = Len(q) - 1 /\ Len(q) \in Nat /\ Len(q) >= 1
      /\ \A k \in 1 .. Len(q) - 1 : x[k] = q[k + 1]
  BY TailFacts
<1>. HIDE DEF x
<1>2. ASSUME NEW k \in 1 .. Len(x)
      PROVE  x[k].kind = "packet" /\ x[k].num = r + 1 + k
  <2>1. k + 1 \in 1 .. Len(q) /\ x[k] = q[k + 1]
    BY <1>1
  <2>2. q[k + 1].kind = "packet" /\ q[k + 1].num = r + (k + 1)
    BY <2>1 DEF PacketShape
  <2>. QED  BY <2>1, <2>2
<1>3. r + 1 + Len(x) <= w
  BY <1>1 DEF PacketShape
<1>. QED  BY <1>2, <1>3 DEF PacketShape, x

LEMMA CatchupTail ==
  ASSUME NEW q \in Seq(Message), q # <<>>, NEW r \in Nat, NEW w \in Nat,
         CatchupShape(q, r, w)
  PROVE  PacketShape(Tail(q), r + Len(q[1].buf), w)
<1>. DEFINE x == Tail(q)
            b == Len(q[1].buf)
<1>1. /\ Len(x) = Len(q) - 1 /\ Len(q) \in Nat /\ Len(q) >= 1
      /\ \A k \in 1 .. Len(q) - 1 : x[k] = q[k + 1]
  BY TailFacts
<1>2. b \in Nat
  BY <1>1, BufferLength
<1>3. /\ \A k \in 2 .. Len(q) : q[k].kind = "packet" /\ q[k].num = r + b + k - 1
      /\ r + b + Len(q) - 1 <= w
  BY <1>1 DEF CatchupShape
<1>. HIDE DEF x, b
<1>4. ASSUME NEW k \in 1 .. Len(x)
      PROVE  x[k].kind = "packet" /\ x[k].num = r + b + k
  <2>1. k + 1 \in 2 .. Len(q) /\ x[k] = q[k + 1]
    BY <1>1
  <2>2. q[k + 1].kind = "packet" /\ q[k + 1].num = r + b + (k + 1) - 1
    BY <1>3, <2>1
  <2>. QED  BY <1>2, <2>1, <2>2
<1>5. r + b + Len(x) <= w
  BY <1>1, <1>2, <1>3
<1>. QED  BY <1>4, <1>5 DEF PacketShape, x, b

-----------------------------------------------------------------------------
(* ReadWire takes a packet from the socket.                                *)

LEMMA ReadWireStep ==
  ASSUME TypeOK, TypeOK', LinkInv, NEW s \in Sides, ReadWire(s)
  PROVE  LinkInv'
<1>0. PICK c \in Conns : socket[s] = c
  BY TypedReads DEF ReadWire, LinkInv
<1>. DEFINE p == Peer(s)
            q == toward[s][c]
            r == rseq[s]
            w == Len(written[p])
<1>1. /\ c # NoConn /\ attempt[s] = NoConn /\ q # <<>>
      /\ p \in Sides /\ p # s /\ Peer(p) = s
      /\ \A t \in Sides : t = s \/ t = p
  BY <1>0, TypedReads, PeerType, ConnsAssumption
     DEF ReadWire, Up, Arrived, LinkInv, Kinds
<1>2. /\ socket' = socket /\ attempt' = attempt /\ stage' = stage
      /\ open' = open /\ broken' = broken /\ written' = written
      /\ requests' = requests /\ pending' = pending
  BY DEF ReadWire, sideVars, writerVars, serverVars
<1>3. /\ q \in Seq(Message) /\ r \in Nat /\ w \in Nat
      /\ rseq'[s] = r + 1
      /\ \A t \in Sides : t # s => rseq'[t] = rseq[t]
  BY <1>1 DEF ReadWire, TypeOK
<1>4. \A t \in Sides, d \in Conns :
        toward'[t][d] = IF t = s /\ d = c THEN Tail(q) ELSE toward[t][d]
  <2>1. toward' = Consumed(s, c)
    BY <1>0 DEF ReadWire
  <2>. QED  BY <1>1, <2>1, ConsumedAt
<1>5. /\ Len(Tail(q)) = Len(q) - 1 /\ Len(q) \in Nat /\ Len(q) >= 1
      /\ \A k \in 1 .. Len(q) - 1 : Tail(q)[k] = q[k + 1]
  BY <1>1, <1>3, TailFacts
<1>7. /\ ShapeAt(s, c) /\ ShapeAt(p, c) /\ OrderAt(p, c)
      /\ CompleteAt(s, c) /\ CompleteAt(p, c)
  BY <1>1 DEF LinkInv, ShapeInv, OrderInv, CompleteInv
<1>8. /\ PacketShape(q, r, w)
      /\ c \notin broken => (CaughtUp(p, c) => r + Len(q) = w)
  <2>1. toward[s][c] = q /\ rseq[s] = r /\ Len(written[Peer(s)]) = w
    OBVIOUS
  <2>. HIDE DEF q, r, w, p
  <2>. QED  BY <1>0, <1>7, <2>1 DEF ShapeAt, CompleteAt, p
<1>9. Len(written[Peer(s)]) = w /\ toward[s][c] = q
  OBVIOUS
<1>. HIDE DEF p, q, r, w
<1>10. /\ \A st \in {"response", "header", "catchup"} : ~Trying(s, c, st)
       /\ CaughtUp(s, c)
  BY <1>1, <1>0 DEF Trying, CaughtUp
<1>11. \A t \in Sides :
         /\ \A st \in {"response", "header", "catchup"} :
              Trying(t, c, st)' <=> Trying(t, c, st)
         /\ CaughtUp(t, c)' <=> CaughtUp(t, c)
  BY <1>2 DEF Trying, CaughtUp
<1>12. Links(s, c)'
  <2>1. ShapeAt(s, c)'
    <3>1. PacketShape(Tail(q), r + 1, w)
      BY <1>1, <1>3, <1>8, PacketTail
    <3>. QED  BY <1>1, <1>2, <1>3, <1>4, <1>9, <1>10, <1>11, <3>1 DEF ShapeAt
  <2>2. OrderAt(s, c)'
    BY <1>10, <1>11 DEF OrderAt
  <2>3. CompleteAt(s, c)'
    <3>1. c \notin broken => (CaughtUp(p, c) => r + 1 + Len(Tail(q)) = w)
      <4>1. \A x, y, z \in Nat : x + y = z => x + 1 + (y - 1) = z
        OBVIOUS
      <4>2. PICK n : n = Len(q)
        OBVIOUS
      <4>3. PICK m : m = Len(Tail(q))
        OBVIOUS
      <4>4. n \in Nat /\ m = n - 1 /\ r \in Nat /\ w \in Nat
        BY <1>3, <1>5, <4>2, <4>3
      <4>5. r + n = w => r + 1 + m = w
        BY <4>1, <4>4
      <4>6. r + Len(q) = w => r + 1 + Len(Tail(q)) = w
        BY <4>2, <4>3, <4>5
      <4>. QED  BY <1>8, <4>6
    <3>. QED  BY <1>1, <1>2, <1>3, <1>4, <1>9, <1>10, <1>11, <3>1
              DEF CompleteAt, p
  <2>. QED  BY <2>1, <2>2, <2>3 DEF Links
<1>13. Links(p, c)'
  <2>1. ShapeAt(p, c)'
    BY <1>1, <1>2, <1>3, <1>4, <1>7, <1>11 DEF ShapeAt
  <2>2. OrderAt(p, c)'
    <3>1. ~Trying(p, c, "response") /\ ~Trying(p, c, "header")
      BY <1>0, <1>1, <1>7, <1>10 DEF OrderAt
    <3>2. \A k \in 1 .. Len(Tail(q)) : Tail(q)[k].kind # "header"
      BY <1>5, <1>8 DEF PacketShape
    <3>. QED  BY <1>1, <1>4, <1>11, <3>1, <3>2 DEF OrderAt
  <2>3. CompleteAt(p, c)'
    BY <1>1, <1>2, <1>3, <1>4, <1>7, <1>11 DEF CompleteAt
  <2>. QED  BY <2>1, <2>2, <2>3 DEF Links
<1>14. \A d \in Conns : d # c => Untouched(d)
  BY <1>0, <1>1, <1>2, <1>3, <1>4, ConnsAssumption DEF Untouched, OnConn
<1>15. PlaceInv'
  BY <1>2 DEF LinkInv, PlaceInv, OnConn, CaughtUp, Trying
<1>16. WaitingInv'
  <2>1. c \notin requests \cup pending
    BY <1>0, <1>1, <1>10, PeerType DEF LinkInv, PlaceInv, OnConn
  <2>. QED  BY <1>2, <1>14, <2>1, UntouchedWaiting DEF TypeOK
<1>. QED  BY <1>1, <1>2, <1>12, <1>13, <1>14, <1>15, <1>16, OneConnection
          DEF p

-----------------------------------------------------------------------------
(* Revive takes the CatchupBuffer and starts using the connection.         *)

LEMMA ReviveStep ==
  ASSUME TypeOK, TypeOK', LinkInv, NEW s \in Sides, Revive(s)
  PROVE  LinkInv'
<1>0. PICK c \in Conns : attempt[s] = c
  BY TypedReads DEF Revive, LinkInv
<1>. DEFINE p == Peer(s)
            q == toward[s][c]
            r == rseq[s]
            b == Len(q[1].buf)
            w == Len(written[p])
<1>1. /\ c # NoConn /\ stage[s] = "catchup" /\ socket[s] = NoConn
      /\ q # <<>> /\ Head(q).kind = "catchup"
      /\ p \in Sides /\ p # s /\ Peer(p) = s
      /\ \A t \in Sides : t = s \/ t = p
  BY <1>0, PeerType, ConnsAssumption
     DEF Revive, Arrived, LinkInv, PlaceInv
<1>2. /\ open' = open /\ broken' = broken /\ written' = written
      /\ requests' = requests /\ pending' = pending
      /\ socket'[s] = c /\ attempt'[s] = NoConn /\ stage'[s] = "idle"
      /\ \A t \in Sides : t # s =>
           /\ socket'[t] = socket[t] /\ attempt'[t] = attempt[t]
           /\ stage'[t] = stage[t] /\ rseq'[t] = rseq[t]
  BY <1>0 DEF Revive, ReviveReader, TypeOK, writerVars, serverVars
<1>3. q \in Seq(Message) /\ r \in Nat /\ w \in Nat
  BY <1>1 DEF TypeOK
<1>4. \A t \in Sides, d \in Conns :
        toward'[t][d] = IF t = s /\ d = c THEN Tail(q) ELSE toward[t][d]
  <2>1. toward' = Consumed(s, c)
    BY <1>0 DEF Revive
  <2>. QED  BY <1>1, <2>1, ConsumedAt
<1>5. /\ Len(Tail(q)) = Len(q) - 1 /\ Len(q) \in Nat /\ Len(q) >= 1
      /\ \A k \in 1 .. Len(q) - 1 : Tail(q)[k] = q[k + 1]
      /\ Head(q) = q[1]
  BY <1>1, <1>3, TailFacts
<1>6. b \in Nat /\ rseq'[s] = r + b
  <2>1. b \in Nat
    BY <1>3, <1>5, BufferLength
  <2>2. rseq'[s] = r + Len(Head(q).buf)
    BY <1>0 DEF Revive, ReviveReader, TypeOK
  <2>. QED  BY <1>5, <2>1, <2>2
<1>7. /\ ShapeAt(s, c) /\ ShapeAt(p, c) /\ OrderAt(p, c)
      /\ CompleteAt(s, c) /\ CompleteAt(p, c)
  BY <1>1 DEF LinkInv, ShapeInv, OrderInv, CompleteInv
<1>8. Len(written[Peer(s)]) = w /\ toward[s][c] = q /\ rseq[s] = r
      /\ Len(q[1].buf) = b
  OBVIOUS
<1>. HIDE DEF p, q, r, b, w
<1>9. /\ \A st \in {"response", "header", "catchup"} : ~Trying(s, c, st)'
      /\ Trying(s, c, "catchup") /\ CaughtUp(s, c) /\ CaughtUp(s, c)'
  BY <1>0, <1>1, <1>2 DEF Trying, CaughtUp
<1>10. /\ \A st \in {"response", "header", "catchup"} :
            Trying(p, c, st)' <=> Trying(p, c, st)
       /\ CaughtUp(p, c)' <=> CaughtUp(p, c)
       /\ socket'[p] = socket[p]
  BY <1>1, <1>2 DEF Trying, CaughtUp
<1>11. PacketShape(Tail(q), r + b, w)
  <2>1. CatchupShape(q, r, w)
    BY <1>7, <1>8, <1>9 DEF ShapeAt
  <2>. QED  BY <1>1, <1>3, <1>8, <2>1, CatchupTail
<1>12. Links(s, c)'
  <2>1. ShapeAt(s, c)'
    BY <1>1, <1>2, <1>4, <1>6, <1>8, <1>9, <1>11 DEF ShapeAt
  <2>2. OrderAt(s, c)'
    BY <1>9 DEF OrderAt
  <2>3. CompleteAt(s, c)'
    <3>1. c \notin broken => (CaughtUp(p, c) => r + b + Len(Tail(q)) = w)
      <4>1. c \notin broken => (CaughtUp(p, c) => r + b + Len(q) - 1 = w)
        BY <1>7, <1>8, <1>9 DEF CompleteAt, p
      <4>. QED  BY <1>3, <1>5, <1>6, <4>1
    <3>. QED  BY <1>1, <1>2, <1>4, <1>6, <1>8, <1>9, <1>10, <3>1
              DEF CompleteAt, p
  <2>. QED  BY <2>1, <2>2, <2>3 DEF Links
<1>13. Links(p, c)'
  <2>1. ShapeAt(p, c)'
    BY <1>1, <1>2, <1>4, <1>7, <1>10 DEF ShapeAt
  <2>2. OrderAt(p, c)'
    <3>1. ~Trying(p, c, "response") /\ ~Trying(p, c, "header")
      BY <1>1, <1>5, <1>7, <1>8 DEF OrderAt, Answers
    <3>2. \A k \in 1 .. Len(Tail(q)) : Tail(q)[k].kind # "header"
      BY <1>11 DEF PacketShape
    <3>. QED  BY <1>1, <1>4, <1>10, <3>1, <3>2 DEF OrderAt
  <2>3. CompleteAt(p, c)'
    BY <1>1, <1>2, <1>4, <1>7, <1>9, <1>10 DEF CompleteAt
  <2>. QED  BY <2>1, <2>2, <2>3 DEF Links
<1>14. \A d \in Conns : d # c => Untouched(d)
  BY <1>0, <1>1, <1>2, <1>4, ConnsAssumption DEF Untouched, OnConn
<1>15. c \notin requests \cup pending
  BY <1>0, <1>1, <1>9, PeerType DEF LinkInv, PlaceInv, OnConn
<1>16. PlaceInv'
  <2>1. \A t \in Sides, d \in Conns :
          /\ OnConn(t, d)' <=> OnConn(t, d)
          /\ CaughtUp(t, d)' <=> CaughtUp(t, d)
    BY <1>0, <1>1, <1>2, ConnsAssumption DEF OnConn, CaughtUp, Trying
  <2>2. \A t \in Sides :
          /\ attempt'[t] = NoConn <=> stage'[t] = "idle"
          /\ stage'[t] = "catchup" => socket'[t] = NoConn
          /\ attempt'[t] # NoConn => socket'[t] # attempt'[t]
    BY <1>1, <1>2 DEF LinkInv, PlaceInv
  <2>3. /\ attempt'["client"] # NoConn => socket'["client"] = NoConn
        /\ stage'["server"] # "response"
    BY <1>1, <1>2, PeerType DEF LinkInv, PlaceInv
  <2>4. requests \subseteq Conns /\ pending \subseteq Conns
    BY DEF TypeOK
  <2>. QED  BY <1>2, <2>1, <2>2, <2>3, <2>4, PeerType DEF LinkInv, PlaceInv
<1>17. WaitingInv'
  BY <1>2, <1>14, <1>15, UntouchedWaiting DEF TypeOK
<1>. QED  BY <1>1, <1>2, <1>12, <1>13, <1>14, <1>16, <1>17, OneConnection
          DEF p

-----------------------------------------------------------------------------
(* SendCatchup takes the peer's header and sends what the peer lacks.      *)

LEMMA RecoveredFacts ==
  ASSUME TypeOK, NEW s \in Sides, NEW n \in Nat, CanRecover(s, n)
  PROVE  /\ CatchupBuffer(Recovered(s, n)) \in Message
         /\ CatchupBuffer(Recovered(s, n)).kind = "catchup"
         /\ Contiguous(CatchupBuffer(Recovered(s, n)).buf, n)
         /\ n + Len(CatchupBuffer(Recovered(s, n)).buf) = Len(written[s])
<1>. DEFINE m == Len(written[s]) - n
            b == Recovered(s, n)
<1>1. b \in Seq(Int)
  BY RecoveredType
<1>2. m \in Nat /\ Len(written[s]) \in Nat
  BY DEF TypeOK, CanRecover
<1>3. Len(b) = m /\ \A k \in 1 .. m : b[k] = n + k
  BY <1>2 DEF Recovered
<1>4. CatchupBuffer(b) \in Message
  BY <1>1, MessageType
<1>5. CatchupBuffer(b).kind = "catchup" /\ CatchupBuffer(b).buf = b
  BY DEF CatchupBuffer
<1>. HIDE DEF b
<1>. QED  BY <1>2, <1>3, <1>4, <1>5 DEF Contiguous, b

LEMMA SendCatchupStep ==
  ASSUME TypeOK, TypeOK', ReaderInv, WriterInv, LinkInv,
         NEW s \in Sides, SendCatchup(s)
  PROVE  LinkInv'
<1>0. PICK c \in Conns : attempt[s] = c
  BY TypedReads DEF SendCatchup, LinkInv
<1>. DEFINE p == Peer(s)
            q == toward[s][c]
            x == toward[p][c]
            r == rseq[s]
            n == rseq[p]
            w == Len(written[p])
            z == Tail(q)
            m == CatchupBuffer(Recovered(s, Head(q).num))
<1>1. /\ c # NoConn /\ stage[s] = "header"
      /\ q # <<>> /\ Head(q).kind = "header" /\ CanRecover(s, Head(q).num)
      /\ socket[s] = NoConn
      /\ p \in Sides /\ p # s /\ Peer(p) = s
      /\ \A t \in Sides : t = s \/ t = p
  BY <1>0, PeerType, ConnsAssumption DEF SendCatchup, Arrived, CanRecover
<1>2. /\ open' = open /\ broken' = broken /\ written' = written
      /\ requests' = requests /\ pending' = pending
      /\ socket' = socket /\ attempt' = attempt /\ rseq' = rseq
      /\ stage'[s] = "catchup"
      /\ \A t \in Sides : t # s => stage'[t] = stage[t]
  BY DEF SendCatchup, TypeOK, writerVars, readerVars, serverVars
<1>3. /\ q \in Seq(Message) /\ x \in Seq(Message)
      /\ r \in Nat /\ n \in Nat /\ w \in Nat /\ Len(written[s]) \in Nat
  <2>1. q \in Seq(Message) /\ x \in Seq(Message)
    BY <1>1 DEF TypeOK
  <2>2. r \in Nat /\ n \in Nat
    BY <1>1 DEF TypeOK
  <2>3. written[p] \in Seq(Nat) /\ written[s] \in Seq(Nat)
    BY <1>1 DEF TypeOK
  <2>. QED  BY <2>1, <2>2, <2>3
<1>4. /\ Len(z) = Len(q) - 1 /\ Len(q) \in Nat /\ Len(q) >= 1
      /\ \A k \in 1 .. Len(q) - 1 : z[k] = q[k + 1]
      /\ Head(q) = q[1]
  BY <1>1, <1>3, TailFacts
<1>5. /\ Links(s, c) /\ Links(p, c)
  BY <1>1 DEF LinkInv, ShapeInv, OrderInv, CompleteInv, Links
<1>6. /\ Len(written[Peer(s)]) = w /\ toward[s][c] = q /\ rseq[s] = r
      /\ toward[Peer(s)][c] = x /\ rseq[p] = n
  OBVIOUS
<1>7. m \in Message
  <2>1. Head(q).num \in Int
    BY <1>0, <1>1, TypedReads DEF SendCatchup, LinkInv, Kinds, Message
  <2>. QED  BY <1>1, <2>1, RecoveredType, MessageType
<1>8. \A t \in Sides, d \in Conns :
        toward'[t][d] = IF t = s /\ d = c THEN z
                        ELSE IF t = p /\ d = c /\ Carries(s, c)
                        THEN Append(x, m) ELSE toward[t][d]
  <2>1. toward' = Replied(s, c, m)
    BY <1>0 DEF SendCatchup
  <2>. HIDE DEF m
  <2>2. \A t \in Sides, d \in Conns :
          Replied(s, c, m)[t][d] =
            IF t = s /\ d = c THEN Tail(toward[t][d])
            ELSE IF t = Peer(s) /\ d = c /\ Carries(s, c)
            THEN Append(toward[t][d], m) ELSE toward[t][d]
    BY <1>1, <1>7, RepliedAt
  <2>. QED  BY <2>1, <2>2
<1>9. m = CatchupBuffer(Recovered(s, q[1].num))
  BY <1>4
<1>. HIDE DEF p, q, z, x, r, n, w, m
<1>10. /\ Trying(s, c, "header") /\ Trying(s, c, "catchup")'
       /\ ~CaughtUp(s, c) /\ CaughtUp(s, c)'
       /\ ~Trying(s, c, "header")' /\ ~Trying(s, c, "response")'
       /\ socket'[s] # c
  BY <1>0, <1>1, <1>2 DEF Trying, CaughtUp
<1>11. /\ \A st \in {"response", "header", "catchup"} :
            Trying(p, c, st)' <=> Trying(p, c, st)
       /\ CaughtUp(p, c)' <=> CaughtUp(p, c)
       /\ socket'[p] = socket[p]
  BY <1>1, <1>2 DEF Trying, CaughtUp
<1>12. /\ ~Trying(p, c, "response") /\ socket[p] # c
       /\ \A k \in 1 .. Len(x) : x[k].kind \in Answers \cup {"header"}
       /\ \A k \in 1 .. Len(x) : x[k].kind = "header" => x[k].num = ToInt32(r)
       /\ \A k \in 1 .. Len(q) :
            Trying(p, c, "header") \/ Trying(p, c, "catchup") =>
              (q[k].kind = "header" => q[k].num = ToInt32(n))
  BY <1>1, <1>5, <1>6, <1>10 DEF Links, OrderAt, p
<1>13. ASSUME Trying(p, c, "header") \/ Trying(p, c, "catchup")
       PROVE  /\ m.kind = "catchup" /\ Contiguous(m.buf, n)
              /\ n + Len(m.buf) = Len(written[s])
  <2>1. q[1].num = ToInt32(n)
    BY <1>1, <1>4, <1>12, <1>13
  <2>2. n <= Len(written[s])
    BY <1>1, <1>6 DEF ReaderInv
  <2>3. ToInt32(n) = n
    BY <1>1, <1>3, <1>4, <2>1, <2>2, AnsweredHeaderIsExact
  <2>4. CanRecover(s, n) /\ m = CatchupBuffer(Recovered(s, n))
    BY <1>1, <1>4, <1>9, <2>1, <2>3
  <2>. QED  BY <1>3, <2>4, RecoveredFacts
<1>14. /\ Trying(p, c, "header") \/ Trying(p, c, "catchup") => c \in open[p]
  BY <1>1 DEF LinkInv, PlaceInv, OnConn, Trying
<1>15. Links(s, c)'
  <2>1. Len(q) <= 2 /\ (Len(q) = 2 => /\ q[2].kind = "catchup"
                                      /\ Contiguous(q[2].buf, r)
                                      /\ r + Len(q[2].buf) <= w)
    BY <1>5, <1>6, <1>10 DEF Links, ShapeAt, HeaderShape
  <2>2. Len(q) = 2 => Len(q[2].buf) \in Nat
    BY <1>3, BufferLength
  <2>3. Len(q) = 2 => z[1] = q[2]
    BY <1>4
  <2>4. CatchupShape(z, r, w)
    <3>1. CASE Len(q) = 1
      BY <1>4, <3>1 DEF CatchupShape
    <3>2. CASE Len(q) = 2
      <4>1. Len(z) = 1
        BY <1>4, <3>2
      <4>. QED  BY <1>3, <2>1, <2>2, <2>3, <3>2, <4>1 DEF CatchupShape
    <3>. QED  BY <1>4, <2>1, <3>1, <3>2
  <2>5. ShapeAt(s, c)'
    <3>1. Len(written'[Peer(s)]) = w /\ toward'[s][c] = z /\ rseq'[s] = r
      <4>1. toward'[s][c] = z
        BY <1>8
      <4>. QED  BY <1>2, <1>6, <4>1
    <3>. QED  BY <1>10, <2>4, <3>1 DEF ShapeAt
  <2>6. OrderAt(s, c)'
    <3>1. \A k \in 1 .. Len(toward'[p][c]) :
            toward'[p][c][k].kind = "header" =>
              toward'[p][c][k].num = ToInt32(r)
      <4>1. CASE toward'[p][c] = x
        BY <4>1, <1>12
      <4>2. CASE toward'[p][c] = Append(x, m)
        <5>1. /\ Len(Append(x, m)) = Len(x) + 1 /\ Len(x) \in Nat
              /\ \A k \in 1 .. Len(x) : Append(x, m)[k] = x[k]
              /\ Append(x, m)[Len(x) + 1] = m
          BY <1>3, <1>7, AppendFacts
        <5>2. m.kind # "header"
          BY DEF m, CatchupBuffer
        <5>3. \A k \in 1 .. Len(x) + 1 : k \in 1 .. Len(x) \/ k = Len(x) + 1
          BY <5>1
        <5>. QED  BY <1>12, <4>2, <5>1, <5>2, <5>3
      <4>. QED  BY <1>1, <1>6, <1>8, <4>1, <4>2 DEF p
    <3>. QED  BY <1>2, <1>6, <1>10, <3>1 DEF OrderAt, p
  <2>7. CompleteAt(s, c)'
    <3>1. c \notin broken => (Trying(p, c, "header") => Len(z) = 0)
      <4>1. c \notin broken => (Trying(p, c, "header") => Len(q) = 1)
        BY <1>5, <1>6, <1>10 DEF Links, CompleteAt, p
      <4>2. Len(q) = 1 => Len(z) = 0
        BY <1>4
      <4>. QED  BY <4>1, <4>2
    <3>2. c \notin broken => (CaughtUp(p, c) =>
            /\ Len(z) >= 1
            /\ r + Len(z[1].buf) + Len(z) - 1 = w)
      <4>1. c \notin broken => (CaughtUp(p, c) =>
              Len(q) = 2 /\ r + Len(q[2].buf) = w)
        BY <1>5, <1>6, <1>10 DEF Links, CompleteAt, p
      <4>2. Len(q) = 2 => Len(z) = 1 /\ z[1] = q[2]
        BY <1>4, <2>3
      <4>3. /\ Len(q) = 2 /\ r + Len(q[2].buf) = w /\ Len(q[2].buf) \in Nat
            /\ Len(z) = 1 /\ z[1] = q[2]
            => Len(z) >= 1 /\ r + Len(z[1].buf) + Len(z) - 1 = w
        BY <1>3
      <4>. QED  BY <2>2, <4>1, <4>2, <4>3
    <3>3. /\ Len(written'[Peer(s)]) = w /\ toward'[s][c] = z /\ rseq'[s] = r
          /\ broken' = broken /\ Peer(s) = p
      <4>1. toward'[s][c] = z
        BY <1>8
      <4>. QED  BY <1>2, <1>6, <4>1 DEF p
    <3>4. /\ Trying(p, c, "header")' => Trying(p, c, "header")
          /\ CaughtUp(p, c)' => CaughtUp(p, c)
      BY <1>11
    <3>. QED  BY <1>10, <3>1, <3>2, <3>3, <3>4 DEF CompleteAt
  <2>. QED  BY <2>5, <2>6, <2>7 DEF Links
<1>16. Links(p, c)'
  <2>. DEFINE y == toward'[p][c]
              e == Append(x, m)
  <2>0. y = toward'[Peer(s)][c]
    BY DEF p
  <2>1. y = x \/ (y = e /\ c \notin broken)
    BY <1>1, <1>6, <1>8 DEF Carries, p
  <2>2. /\ c \notin broken
        /\ Trying(p, c, "header") \/ Trying(p, c, "catchup")
        => y = e
    BY <1>1, <1>8, <1>14 DEF Carries, p
  <2>3. /\ e = Append(x, m) /\ Len(x) \in Nat
        /\ Len(e) = Len(x) + 1
        /\ \A k \in 1 .. Len(x) : e[k] = x[k]
        /\ e[Len(x) + 1] = m
    BY <1>3, <1>7, AppendFacts
  <2>4. c \notin broken =>
          /\ Trying(p, c, "header") => Len(x) = 1
          /\ Trying(p, c, "catchup") => Len(x) = 0
    BY <1>1, <1>5, <1>6, <1>10 DEF Links, CompleteAt, p
  <2>5. /\ Trying(p, c, "header") => HeaderShape(x, n, Len(written[s]))
        /\ Trying(p, c, "catchup") => CatchupShape(x, n, Len(written[s]))
    BY <1>1, <1>5, <1>6 DEF Links, ShapeAt, p
  <2>6. Len(m.buf) \in Nat
    BY <1>7 DEF Message
  <2>. HIDE DEF y, e
  <2>7. Trying(p, c, "header") =>
          /\ HeaderShape(y, n, Len(written[s]))
          /\ c \notin broken => Len(y) = 2 /\ n + Len(y[2].buf) = Len(written[s])
    <3>1. CASE c \notin broken
      <4>. SUFFICES ASSUME Trying(p, c, "header")
           PROVE  /\ HeaderShape(y, n, Len(written[s]))
                  /\ Len(y) = 2 /\ n + Len(y[2].buf) = Len(written[s])
        BY <3>1
      <4>0. Len(x) = 1 /\ y = e
        BY <2>2, <2>4, <3>1
      <4>1. Len(y) = 2 /\ y[1] = x[1] /\ y[2] = m
        BY <2>3, <4>0
      <4>2. x[1].kind = "header"
        BY <2>3, <2>4, <2>5, <3>1 DEF HeaderShape
      <4>3. /\ m.kind = "catchup" /\ Contiguous(m.buf, n)
            /\ n + Len(m.buf) = Len(written[s])
        BY <1>13
      <4>. QED  BY <1>3, <4>1, <4>2, <4>3 DEF HeaderShape
    <3>2. CASE c \in broken
      BY <2>1, <2>5, <3>2
    <3>. QED  BY <3>1, <3>2
  <2>8. Trying(p, c, "catchup") =>
          /\ CatchupShape(y, n, Len(written[s]))
          /\ c \notin broken =>
               Len(y) >= 1 /\ n + Len(y[1].buf) + Len(y) - 1 = Len(written[s])
    <3>1. CASE c \notin broken
      <4>. SUFFICES ASSUME Trying(p, c, "catchup")
           PROVE  /\ CatchupShape(y, n, Len(written[s]))
                  /\ Len(y) >= 1
                  /\ n + Len(y[1].buf) + Len(y) - 1 = Len(written[s])
        BY <3>1
      <4>0. Len(x) = 0 /\ y = e /\ Len(x) + 1 = 1
        BY <2>2, <2>4, <3>1
      <4>1. Len(y) = 1 /\ y[1] = m
        BY <2>3, <4>0
      <4>2. /\ m.kind = "catchup" /\ Contiguous(m.buf, n)
            /\ n + Len(m.buf) = Len(written[s])
        BY <1>13
      <4>. QED  BY <1>3, <2>6, <4>1, <4>2 DEF CatchupShape
    <3>2. CASE c \in broken
      BY <2>1, <2>5, <3>2
    <3>. QED  BY <3>1, <3>2
  <2>9. ShapeAt(p, c)'
    BY <1>1, <1>2, <1>6, <1>11, <1>12, <2>7, <2>8 DEF ShapeAt, y
  <2>10. OrderAt(p, c)'
    <3>1. \A k \in 1 .. Len(z) : k + 1 \in 1 .. Len(q) /\ z[k] = q[k + 1]
      BY <1>4
    <3>2. \A k \in 1 .. Len(z) :
            Trying(p, c, "header") \/ Trying(p, c, "catchup") =>
              (z[k].kind = "header" => z[k].num = ToInt32(n))
      BY <1>12, <3>1
    <3>3. Trying(p, c, "header") =>
            \A k \in 1 .. Len(z) :
              z[k].kind \in Answers \cup {"header"}
      <4>1. Trying(p, c, "header") =>
              \A k \in 1 .. Len(q) : q[k].kind \in Answers \cup {"header"}
        BY <1>1, <1>5, <1>6 DEF Links, OrderAt
      <4>. QED  BY <3>1, <4>1
    <3>4. Peer(p) = s /\ toward'[s][c] = z /\ rseq'[p] = n
      <4>1. toward'[s][c] = z
        BY <1>8
      <4>. QED  BY <1>1, <1>2, <1>6, <4>1
    <3>5. socket'[s] # c /\ ~Trying(p, c, "response")'
      BY <1>10, <1>11, <1>12
    <3>6. /\ Trying(p, c, "header")' => Trying(p, c, "header")
          /\ Trying(p, c, "catchup")' => Trying(p, c, "catchup")
      BY <1>11
    <3>. QED  BY <3>2, <3>3, <3>4, <3>5, <3>6 DEF OrderAt
  <2>11. CompleteAt(p, c)'
    BY <1>1, <1>2, <1>6, <1>10, <1>11, <1>12, <2>7, <2>8 DEF CompleteAt, y
  <2>. QED  BY <2>9, <2>10, <2>11 DEF Links
<1>17. c \notin requests \cup pending
  <2>1. CASE s = "server"
    BY <1>0, <2>1, PeerType DEF LinkInv, PlaceInv, OnConn
  <2>2. CASE s = "client"
    <3>1. Len(q) >= 1 /\ q[1].kind \notin Answers
      BY <1>1, <1>4 DEF Answers
    <3>. QED  BY <1>1, <1>4, <1>6, <2>2, <3>1 DEF LinkInv, WaitingInv
  <2>. QED  BY <2>1, <2>2, PeerType
<1>18. \A d \in Conns : d # c => Untouched(d)
  BY <1>0, <1>1, <1>2, <1>8, ConnsAssumption DEF Untouched, OnConn
<1>19. PlaceInv'
  <2>1. \A t \in Sides, d \in Conns :
          /\ OnConn(t, d)' <=> OnConn(t, d)
          /\ CaughtUp(t, d)' => CaughtUp(t, d) \/ d = c
    BY <1>0, <1>1, <1>2 DEF OnConn, CaughtUp, Trying
  <2>2. \A t \in Sides :
          /\ attempt'[t] = NoConn <=> stage'[t] = "idle"
          /\ stage'[t] = "catchup" => socket'[t] = NoConn
          /\ attempt'[t] # NoConn => socket'[t] # attempt'[t]
    BY <1>1, <1>2 DEF LinkInv, PlaceInv
  <2>3. /\ attempt'["client"] # NoConn => socket'["client"] = NoConn
        /\ stage'["server"] # "response"
    BY <1>1, <1>2, PeerType DEF LinkInv, PlaceInv
  <2>4. requests \subseteq Conns /\ pending \subseteq Conns
    BY DEF TypeOK
  <2>. QED  BY <1>2, <1>17, <2>1, <2>2, <2>3, <2>4, PeerType
            DEF LinkInv, PlaceInv
<1>20. WaitingInv'
  BY <1>2, <1>17, <1>18, UntouchedWaiting DEF TypeOK
<1>. QED  BY <1>1, <1>2, <1>15, <1>16, <1>18, <1>19, <1>20, OneConnection
          DEF p

-----------------------------------------------------------------------------
(* ReadReturning takes the answer and sends the client's header.           *)

LEMMA HeaderType ==
  ASSUME TypeOK, NEW s \in Sides
  PROVE  /\ SequenceHeader(ToInt32(rseq[s])) \in Message
         /\ SequenceHeader(ToInt32(rseq[s])).kind = "header"
         /\ SequenceHeader(ToInt32(rseq[s])).num = ToInt32(rseq[s])
<1>1. rseq[s] \in Int
  BY DEF TypeOK
<1>2. SequenceHeader(ToInt32(rseq[s])) \in Message
  BY <1>1, MessageType, Int32Loss
<1>. QED  BY <1>2 DEF SequenceHeader

LEMMA ReadReturningStep ==
  ASSUME TypeOK, TypeOK', LinkInv, ReadReturning
  PROVE  LinkInv'
<1>. DEFINE s == "client"
            p == "server"
<1>0. PICK c \in Conns : attempt[s] = c
  BY TypedReads, PeerType DEF ReadReturning, LinkInv
<1>. DEFINE q == toward[s][c]
            z == Tail(q)
            x == toward[p][c]
            m == SequenceHeader(ToInt32(rseq[s]))
            y == toward'[p][c]
<1>1. /\ c # NoConn /\ stage[s] = "response"
      /\ q # <<>> /\ Head(q).kind = "RETURNING_CLIENT"
      /\ socket[s] = NoConn
      /\ s \in Sides /\ p \in Sides /\ Peer(s) = p /\ Peer(p) = s /\ p # s
      /\ \A t \in Sides : t = s \/ t = p
  BY <1>0, PeerType, ConnsAssumption
     DEF ReadReturning, Arrived, LinkInv, PlaceInv
<1>2. /\ open' = open /\ broken' = broken /\ written' = written
      /\ requests' = requests /\ pending' = pending
      /\ socket' = socket /\ attempt' = attempt /\ rseq' = rseq
      /\ stage'[s] = "header"
      /\ \A t \in Sides : t # s => stage'[t] = stage[t]
  BY <1>1 DEF ReadReturning, TypeOK, writerVars, readerVars, serverVars
<1>3. q \in Seq(Message) /\ x \in Seq(Message)
  BY <1>1 DEF TypeOK
<1>4. /\ Len(z) = Len(q) - 1 /\ Len(q) \in Nat /\ Len(q) >= 1
      /\ \A k \in 1 .. Len(q) - 1 : z[k] = q[k + 1]
  BY <1>1, <1>3, TailFacts
<1>5. Links(s, c) /\ Links(p, c)
  BY <1>1 DEF LinkInv, ShapeInv, OrderInv, CompleteInv, Links
<1>6. m \in Message /\ m.kind = "header" /\ m.num = ToInt32(rseq[s])
  BY <1>1, HeaderType
<1>7. \A t \in Sides, d \in Conns :
        toward'[t][d] = IF t = s /\ d = c THEN z
                        ELSE IF t = p /\ d = c /\ Carries(s, c)
                        THEN Append(x, m) ELSE toward[t][d]
  <2>1. toward' = Replied(s, c, m)
    BY <1>0 DEF ReadReturning
  <2>. HIDE DEF m
  <2>2. \A t \in Sides, d \in Conns :
          Replied(s, c, m)[t][d] =
            IF t = s /\ d = c THEN Tail(toward[t][d])
            ELSE IF t = Peer(s) /\ d = c /\ Carries(s, c)
            THEN Append(toward[t][d], m) ELSE toward[t][d]
    BY <1>1, <1>6, RepliedAt
  <2>. QED  BY <1>1, <2>1, <2>2
<1>8. toward[s][c] = q /\ toward[p][c] = x
  OBVIOUS
<1>9. /\ Trying(s, c, "response") /\ Trying(s, c, "header")'
      /\ ~CaughtUp(s, c)' /\ ~CaughtUp(s, c) /\ ~Trying(s, c, "catchup")'
      /\ ~Trying(s, c, "header") /\ ~Trying(s, c, "response")'
      /\ socket'[s] # c
  BY <1>0, <1>1, <1>2 DEF Trying, CaughtUp
<1>10. /\ \A st \in {"response", "header", "catchup"} :
            Trying(p, c, st)' <=> Trying(p, c, st)
       /\ CaughtUp(p, c)' <=> CaughtUp(p, c)
       /\ socket'[p] = socket[p]
  BY <1>1, <1>2 DEF Trying, CaughtUp
<1>11. x = <<>> /\ ~CaughtUp(p, c)
  BY <1>1, <1>5, <1>9 DEF Links, OrderAt
<1>12. /\ socket[p] # c /\ ~Trying(p, c, "catchup")
       /\ ~Trying(p, c, "response")
  BY <1>11 DEF CaughtUp, LinkInv, PlaceInv, Trying
<1>13. y = <<>> \/ y = <<m>>
  BY <1>1, <1>7, <1>11
<1>14. (c \notin broken /\ c \in open[p]) => y = <<m>>
  BY <1>1, <1>7, <1>11 DEF Carries
<1>15. toward'[s][c] = z /\ y = toward'[p][c]
  BY <1>1, <1>7
<1>16. /\ \A k \in 1 .. Len(y) : y[k] = m
       /\ Len(y) <= 1 /\ Len(y) \in Nat
       /\ c \notin broken /\ c \in open[p] => Len(y) = 1
  <2>. HIDE DEF y, m
  <2>1. CASE y = <<>>
    BY <1>14, <2>1
  <2>2. CASE y = <<m>>
    BY <2>2
  <2>. QED  BY <1>13, <2>1, <2>2
<1>. HIDE DEF p, s, q, z, x, m, y
<1>17. /\ ResponseShape(q) 
       /\ c \notin broken => (Trying(p, c, "header") => Len(q) = 2)
  BY <1>1, <1>5, <1>8, <1>9 DEF Links, ShapeAt, CompleteAt
<1>18. Links(s, c)'
  <2>1. \A r, w : HeaderShape(z, r, w)
    <3>1. Len(z) = 0 \/ (Len(z) = 1 /\ z[1] = q[2] /\ Len(q) = 2)
      BY <1>4, <1>17 DEF ResponseShape
    <3>2. Len(q) = 2 => q[2].kind = "header"
      BY <1>17 DEF ResponseShape
    <3>3. CASE Len(z) = 0
      BY <3>3 DEF HeaderShape
    <3>4. CASE Len(z) = 1 /\ z[1] = q[2] /\ Len(q) = 2
      BY <3>2, <3>4 DEF HeaderShape
    <3>. QED  BY <3>1, <3>3, <3>4
  <2>2. ShapeAt(s, c)'
    BY <1>9, <1>15, <2>1 DEF ShapeAt
  <2>3. OrderAt(s, c)'
    <3>1. \A k \in 1 .. Len(y) :
            y[k].kind = "header" /\ y[k].num = ToInt32(rseq'[s])
      BY <1>2, <1>6, <1>16
    <3>2. Peer(s) = p /\ toward'[p][c] = y /\ socket'[p] # c
      BY <1>1, <1>10, <1>12, <1>15
    <3>. QED  BY <1>9, <3>1, <3>2 DEF OrderAt
  <2>4. CompleteAt(s, c)'
    <3>1. c \notin broken' => (Trying(p, c, "header")' => Len(z) = 1)
      <4>1. Len(q) = 2 => Len(z) = 1
        BY <1>4
      <4>. QED  BY <1>2, <1>10, <1>17, <4>1
    <3>2. ~CaughtUp(p, c)' /\ Peer(s) = p /\ toward'[s][c] = z
      BY <1>1, <1>10, <1>11, <1>15
    <3>. QED  BY <1>9, <3>1, <3>2 DEF CompleteAt
  <2>. QED  BY <2>2, <2>3, <2>4 DEF Links
<1>19. Links(p, c)'
  <2>1. ShapeAt(p, c)'
    <3>1. \A r, w : HeaderShape(y, r, w)
      <4>1. Len(y) >= 1 => y[1].kind = "header"
        BY <1>6, <1>16
      <4>2. Len(y) <= 2 /\ Len(y) # 2
        BY <1>16
      <4>. QED  BY <4>1, <4>2 DEF HeaderShape
    <3>. QED  BY <1>10, <1>12, <1>15, <3>1 DEF ShapeAt
  <2>2. OrderAt(p, c)'
    <3>1. \A k \in 1 .. Len(z) : k + 1 \in 1 .. Len(q) /\ z[k] = q[k + 1]
      BY <1>4
    <3>2. Trying(p, c, "header") =>
            \A k \in 1 .. Len(q) :
              /\ q[k].kind \in Answers \cup {"header"}
              /\ q[k].kind = "header" => q[k].num = ToInt32(rseq[p])
      BY <1>1, <1>5, <1>8 DEF Links, OrderAt
    <3>3. Trying(p, c, "header") =>
            \A k \in 1 .. Len(z) :
              /\ z[k].kind \in Answers \cup {"header"}
              /\ z[k].kind = "header" => z[k].num = ToInt32(rseq'[p])
      BY <1>2, <3>1, <3>2
    <3>4. Peer(p) = s /\ toward'[s][c] = z
      BY <1>1, <1>15
    <3>. QED  BY <1>9, <1>10, <1>12, <3>3, <3>4 DEF OrderAt
  <2>3. CompleteAt(p, c)'
    <3>1. Trying(p, c, "header") => c \in open[p]
      BY <1>1 DEF LinkInv, PlaceInv, OnConn, Trying
    <3>2. c \notin broken' => (Trying(p, c, "header")' => Len(y) = 1)
      BY <1>2, <1>10, <1>16, <3>1
    <3>3. Peer(p) = s /\ toward'[p][c] = y
      BY <1>1, <1>15
    <3>. QED  BY <1>9, <1>10, <1>12, <3>2, <3>3 DEF CompleteAt
  <2>. QED  BY <2>1, <2>2, <2>3 DEF Links
<1>20. \A d \in Conns : d # c => Untouched(d)
  BY <1>0, <1>1, <1>2, <1>7, ConnsAssumption DEF Untouched, OnConn
<1>21. c \notin requests
  BY <1>1, <1>8 DEF LinkInv, WaitingInv, s
<1>22. PlaceInv'
  <2>1. \A t \in Sides, d \in Conns :
          /\ OnConn(t, d)' <=> OnConn(t, d)
          /\ CaughtUp(t, d)' <=> CaughtUp(t, d)
    BY <1>0, <1>1, <1>2 DEF OnConn, CaughtUp, Trying
  <2>2. \A t \in Sides :
          /\ attempt'[t] = NoConn <=> stage'[t] = "idle"
          /\ stage'[t] = "catchup" => socket'[t] = NoConn
          /\ attempt'[t] # NoConn => socket'[t] # attempt'[t]
    BY <1>0, <1>1, <1>2 DEF LinkInv, PlaceInv
  <2>3. /\ attempt'["client"] # NoConn => socket'["client"] = NoConn
        /\ stage'["server"] # "response"
    BY <1>1, <1>2 DEF LinkInv, PlaceInv, p
  <2>4. requests \subseteq Conns /\ pending \subseteq Conns
    BY DEF TypeOK
  <2>. QED  BY <1>2, <2>1, <2>2, <2>3, <2>4, PeerType DEF LinkInv, PlaceInv
<1>23. WaitingInv'
  <2>1. \A d \in requests \cup pending :
          d # c => /\ toward'[s][d] = toward[s][d]
                   /\ toward'[p][d] = toward[p][d]
                   /\ \A st \in {"response", "header", "catchup"} :
                        Trying(s, d, st)' <=> Trying(s, d, st)
    <3>1. \A d \in requests \cup pending : d \in Conns
      BY DEF TypeOK
    <3>. QED  BY <1>1, <1>20, <3>1 DEF Untouched, Trying
  <2>2. ASSUME c \in pending
        PROVE  /\ \A k \in 1 .. Len(toward'[s][c]) :
                    toward'[s][c][k].kind \in Answers
               /\ \A k \in 1 .. Len(toward'[p][c]) :
                    toward'[p][c][k].kind = "header"
               /\ Len(toward'[p][c]) <= 1
               /\ c \notin broken =>
                    Len(toward'[s][c]) = 0 /\ Len(toward'[p][c]) = 1
    <3>1. /\ \A k \in 1 .. Len(q) : q[k].kind \in Answers
          /\ c \notin broken => Len(q) = 1
          /\ c \in open[p]
      BY <1>8, <1>9, <2>2 DEF LinkInv, WaitingInv, PlaceInv, s, p
    <3>2. \A k \in 1 .. Len(z) : k + 1 \in 1 .. Len(q) /\ z[k] = q[k + 1]
      BY <1>4
    <3>3. \A k \in 1 .. Len(z) : z[k].kind \in Answers
      BY <3>1, <3>2
    <3>4. Len(q) = 1 => Len(z) = 0
      BY <1>4
    <3>. QED  BY <1>6, <1>15, <1>16, <3>1, <3>3, <3>4
  <2>3. s = "client" /\ p = "server"
    BY DEF s, p
  <2>4. ASSUME NEW d \in requests
        PROVE  /\ toward'["client"][d] = <<>> /\ toward'["server"][d] = <<>>
               /\ ~Trying("client", d, "header")'
    BY <1>21, <2>1, <2>3 DEF LinkInv, WaitingInv
  <2>5. ASSUME NEW d \in pending
        PROVE  /\ \A k \in 1 .. Len(toward'["client"][d]) :
                    toward'["client"][d][k].kind \in Answers
               /\ \A k \in 1 .. Len(toward'["server"][d]) :
                    toward'["server"][d][k].kind = "header"
               /\ Len(toward'["server"][d]) <= 1
               /\ d \notin broken =>
                    /\ Trying("client", d, "response")' =>
                         Len(toward'["client"][d]) = 1
                    /\ Trying("client", d, "header")' =>
                         /\ Len(toward'["client"][d]) = 0
                         /\ Len(toward'["server"][d]) = 1
    <3>1. CASE d = c
      BY <1>9, <2>2, <2>3, <3>1
    <3>2. CASE d # c
      BY <2>1, <2>3, <3>2 DEF LinkInv, WaitingInv
    <3>. QED  BY <3>1, <3>2
  <2>. QED  BY <1>2, <2>4, <2>5 DEF WaitingInv
<1>. QED  BY <1>1, <1>2, <1>18, <1>19, <1>20, <1>22, <1>23, OneConnection

-----------------------------------------------------------------------------
(* BeginRecover sends the server's header on a connection that waits.      *)

LEMMA BeginRecoverStep ==
  ASSUME TypeOK, TypeOK', LinkInv, NEW c \in Conns, BeginRecover(c)
  PROVE  LinkInv'
<1>. DEFINE s == "server"
            p == "client"
            q == toward[s][c]
            x == toward[p][c]
            m == SequenceHeader(ToInt32(rseq[s]))
            y == toward'[p][c]
            e == Append(x, m)
<1>1. /\ c # NoConn /\ attempt[s] = NoConn /\ c \in pending
      /\ s \in Sides /\ p \in Sides /\ Peer(s) = p /\ Peer(p) = s /\ p # s
      /\ \A t \in Sides : t = s \/ t = p
  BY PeerType, ConnsAssumption DEF BeginRecover
<1>2. /\ open' = open /\ broken' = broken /\ written' = written
      /\ requests' = requests /\ pending' = pending \ {c}
      /\ socket' = socket /\ rseq' = rseq
      /\ attempt'[s] = c /\ stage'[s] = "header"
      /\ \A t \in Sides : t # s => stage'[t] = stage[t]
                                   /\ attempt'[t] = attempt[t]
  BY <1>1 DEF BeginRecover, TypeOK, writerVars, readerVars
<1>3. q \in Seq(Message) /\ x \in Seq(Message)
  BY <1>1 DEF TypeOK
<1>4. c \in open[s] /\ ~OnConn(s, c) /\ ~CaughtUp(p, c) /\ c \notin requests
  BY <1>1 DEF LinkInv, PlaceInv
<1>5. Links(s, c) /\ Links(p, c)
  BY <1>1 DEF LinkInv, ShapeInv, OrderInv, CompleteInv, Links
<1>6. m \in Message /\ m.kind = "header" /\ m.num = ToInt32(rseq[s])
  BY <1>1, HeaderType
<1>7. \A t \in Sides, d \in Conns :
        toward'[t][d] = IF t = p /\ d = c /\ Carries(s, c)
                        THEN e ELSE toward[t][d]
  <2>1. toward' = Sent(toward, s, c, m)
    BY DEF BeginRecover
  <2>. HIDE DEF m, s, p
  <2>2. \A t \in Sides, d \in Conns :
          toward'[t][d] = IF t = Peer(s) /\ d = c /\ Carries(s, c)
                          THEN Append(toward[t][d], m) ELSE toward[t][d]
    BY <1>1, <1>6, <2>1, SentStep
  <2>. QED  BY <1>1, <2>2
<1>8. toward[s][c] = q /\ toward[p][c] = x
  OBVIOUS
<1>9. /\ e \in Seq(Message) /\ Len(e) = Len(x) + 1 /\ Len(x) \in Nat
      /\ \A k \in 1 .. Len(x) : e[k] = x[k]
      /\ e[Len(x) + 1] = m
  BY <1>3, <1>6, AppendFacts
<1>10. toward'[s][c] = q /\ toward'[p][c] = y
  BY <1>1, <1>7
<1>11. /\ y = x \/ (y = e /\ c \notin broken)
       /\ (c \notin broken /\ c \in open[p]) => y = e
  <2>1. Carries(s, c) <=> c \notin broken /\ c \in open[p]
    BY <1>1 DEF Carries
  <2>2. y = IF Carries(s, c) THEN e ELSE x
    BY <1>1, <1>7
  <2>. QED  BY <2>1, <2>2
<1>12. /\ \A k \in 1 .. Len(x) : x[k].kind \in Answers
       /\ \A k \in 1 .. Len(q) : q[k].kind = "header"
       /\ Len(q) <= 1
       /\ c \notin broken =>
            /\ Trying(p, c, "response") => Len(x) = 1
            /\ Trying(p, c, "header") => Len(x) = 0 /\ Len(q) = 1
  BY <1>1 DEF LinkInv, WaitingInv
<1>13. Len(q) \in Nat
  BY <1>3
<1>. HIDE DEF p, s, q, x, m, y, e
<1>14. /\ Trying(s, c, "header")' /\ ~Trying(s, c, "catchup")'
       /\ ~Trying(s, c, "response")' /\ ~CaughtUp(s, c)' /\ socket'[s] # c
       /\ socket[s] # c
  BY <1>2, <1>4 DEF Trying, CaughtUp, OnConn
<1>15. /\ \A st \in {"response", "header", "catchup"} :
            Trying(p, c, st)' <=> Trying(p, c, st)
       /\ ~CaughtUp(p, c)' /\ ~Trying(p, c, "catchup")
       /\ socket'[p] # c
  BY <1>1, <1>2, <1>4 DEF Trying, CaughtUp
<1>16. Trying(p, c, "response") \/ Trying(p, c, "header") => c \in open[p]
  BY <1>1 DEF LinkInv, PlaceInv, OnConn, Trying
<1>17. /\ Trying(p, c, "response") => ResponseShape(x)
       /\ \A r, w : Len(x) = 0 => HeaderShape(x, r, w)
  <2>1. Trying(p, c, "response") => ResponseShape(x)
    BY <1>5, <1>8 DEF Links, ShapeAt
  <2>. QED  BY <2>1 DEF HeaderShape
<1>18. Links(s, c)'
  <2>1. ShapeAt(s, c)'
    <3>1. \A r, w : HeaderShape(q, r, w)
      <4>1. Len(q) >= 1 => q[1].kind = "header"
        <5>1. Len(q) >= 1 => 1 \in 1 .. Len(q)
          BY <1>13
        <5>. QED  BY <1>12, <5>1
      <4>2. Len(q) <= 2 /\ Len(q) # 2
        <5>1. Len(q) <= 1
          BY <1>12
        <5>. QED  BY <1>13, <5>1
      <4>. QED  BY <4>1, <4>2 DEF HeaderShape
    <3>. QED  BY <1>10, <1>14, <3>1 DEF ShapeAt
  <2>2. OrderAt(s, c)'
    <3>1. \A k \in 1 .. Len(y) :
            /\ y[k].kind \in Answers \cup {"header"}
            /\ y[k].kind = "header" => y[k].num = ToInt32(rseq'[s])
      <4>1. "header" \notin Answers
        BY DEF Answers
      <4>2. CASE y = x
        BY <1>12, <4>1, <4>2
      <4>3. CASE y = e
        <5>1. \A k \in 1 .. Len(e) : k \in 1 .. Len(x) \/ k = Len(x) + 1
          BY <1>9
        <5>. QED  BY <1>2, <1>6, <1>9, <1>12, <4>1, <4>3, <5>1
      <4>. QED  BY <1>11, <4>2, <4>3
    <3>2. Peer(s) = p
      BY <1>1
    <3>. QED  BY <1>10, <1>14, <1>15, <3>1, <3>2 DEF OrderAt
  <2>3. CompleteAt(s, c)'
    <3>1. c \notin broken' => (Trying(p, c, "header")' => Len(q) = 1)
      BY <1>2, <1>12, <1>15
    <3>2. Peer(s) = p
      BY <1>1
    <3>. QED  BY <1>10, <1>14, <1>15, <3>1, <3>2 DEF CompleteAt
  <2>. QED  BY <2>1, <2>2, <2>3 DEF Links
<1>19. ASSUME Trying(p, c, "response")
       PROVE  /\ ResponseShape(y)
              /\ c \notin broken => Len(y) = 2
  <2>1. CASE y = e /\ c \notin broken
    <3>1. Len(x) = 1
      BY <1>12, <1>19, <2>1
    <3>2. Len(y) = 2 /\ y[1] = x[1] /\ y[2] = m
      BY <1>9, <2>1, <3>1
    <3>3. x[1].kind \in Answers
      BY <1>12, <3>1
    <3>. QED  BY <1>6, <3>2, <3>3 DEF ResponseShape
  <2>2. CASE y = x
    <3>1. c \notin broken => y = e
      BY <1>11, <1>16, <1>19
    <3>2. y = x /\ y = e => FALSE
      BY <1>9
    <3>. QED  BY <1>17, <1>19, <2>2, <3>1, <3>2
  <2>. QED  BY <1>11, <2>1, <2>2
<1>20. ASSUME Trying(p, c, "header")
       PROVE  /\ HeaderShape(y, rseq[p], Len(written[s]))
              /\ c \notin broken => Len(y) = 1
  <2>1. CASE y = e /\ c \notin broken
    <3>1. Len(x) = 0
      BY <1>12, <1>20, <2>1
    <3>2. Len(y) = 1 /\ y[1] = m
      BY <1>9, <2>1, <3>1
    <3>. QED  BY <1>6, <3>2 DEF HeaderShape
  <2>2. CASE y = x
    <3>1. c \notin broken => y = e
      BY <1>11, <1>16, <1>20
    <3>2. y = x /\ y = e => FALSE
      BY <1>9
    <3>3. HeaderShape(x, rseq[p], Len(written[s]))
      BY <1>1, <1>5, <1>8, <1>20 DEF Links, ShapeAt
    <3>. QED  BY <2>2, <3>1, <3>2, <3>3
  <2>. QED  BY <1>11, <2>1, <2>2
<1>21. Links(p, c)'
  <2>1. ShapeAt(p, c)'
    <3>1. Peer(p) = s /\ written' = written /\ rseq' = rseq
      BY <1>1, <1>2
    <3>. QED  BY <1>10, <1>15, <1>19, <1>20, <3>1 DEF ShapeAt
  <2>2. OrderAt(p, c)'
    <3>1. /\ Trying(p, c, "response") => q = <<>>
          /\ Trying(p, c, "header") =>
               \A k \in 1 .. Len(q) :
                 q[k].kind = "header" => q[k].num = ToInt32(rseq[p])
      BY <1>1, <1>5, <1>8 DEF Links, OrderAt
    <3>2. Peer(p) = s /\ rseq' = rseq
      BY <1>1, <1>2
    <3>. QED  BY <1>10, <1>12, <1>14, <1>15, <3>1, <3>2 DEF OrderAt
  <2>3. CompleteAt(p, c)'
    <3>1. Peer(p) = s /\ broken' = broken
      BY <1>1, <1>2
    <3>. QED  BY <1>10, <1>14, <1>15, <1>19, <1>20, <3>1 DEF CompleteAt
  <2>. QED  BY <2>1, <2>2, <2>3 DEF Links
<1>22. \A d \in Conns : d # c => Untouched(d)
  BY <1>1, <1>2, <1>7, ConnsAssumption DEF Untouched, OnConn
<1>23. PlaceInv'
  <2>1. \A t \in Sides, d \in Conns :
          /\ OnConn(t, d)' => OnConn(t, d) \/ (t = s /\ d = c)
          /\ CaughtUp(t, d)' => CaughtUp(t, d)
    <3>1. ASSUME NEW d \in Conns
          PROVE  /\ OnConn(s, d)' => OnConn(s, d) \/ d = c
                 /\ CaughtUp(s, d)' => CaughtUp(s, d)
      BY <1>1, <1>2 DEF OnConn, CaughtUp, Trying
    <3>2. ASSUME NEW d \in Conns
          PROVE  /\ OnConn(p, d)' => OnConn(p, d)
                 /\ CaughtUp(p, d)' => CaughtUp(p, d)
      BY <1>1, <1>2 DEF OnConn, CaughtUp, Trying
    <3>. QED  BY <1>1, <3>1, <3>2
  <2>2. \A t \in Sides :
          /\ attempt'[t] = NoConn <=> stage'[t] = "idle"
          /\ stage'[t] = "catchup" => socket'[t] = NoConn
          /\ attempt'[t] # NoConn => socket'[t] # attempt'[t]
    BY <1>1, <1>2, <1>4 DEF LinkInv, PlaceInv, OnConn
  <2>3. /\ attempt'["client"] # NoConn => socket'["client"] = NoConn
        /\ stage'["server"] # "response"
    BY <1>1, <1>2 DEF LinkInv, PlaceInv, p, s
  <2>4. requests \subseteq Conns /\ pending \subseteq Conns
    BY DEF TypeOK
  <2>5. \A t \in Sides, d \in Conns : OnConn(t, d)' => d \in open'[t]
    BY <1>2, <1>4, <2>1 DEF LinkInv, PlaceInv
  <2>6. \A d \in requests' \cup pending' :
          /\ d \in open'["server"] /\ ~OnConn("server", d)'
          /\ ~CaughtUp("client", d)'
    BY <1>2, <1>4, <2>1, <2>4, PeerType DEF LinkInv, PlaceInv
  <2>7. requests' \cap pending' = {}
    BY <1>2 DEF LinkInv, PlaceInv
  <2>. QED  BY <2>2, <2>3, <2>5, <2>6, <2>7 DEF PlaceInv
<1>24. WaitingInv'
  BY <1>2, <1>4, <1>22, UntouchedWaiting DEF TypeOK
<1>. QED  BY <1>1, <1>2, <1>18, <1>21, <1>22, <1>23, <1>24, OneConnection

-----------------------------------------------------------------------------
(* The server answers a request, or loses it.                              *)

Answered(c) ==
  LET y == toward'["client"][c]
  IN  /\ c \in requests
      /\ requests' = requests \ {c}
      /\ ResponseShape(y)
      /\ \A t \in Sides, d \in Conns :
           t # "client" \/ d # c => toward'[t][d] = toward[t][d]
      /\ \A t \in Sides, d \in Conns :
           t # "server" \/ d # c => (d \in open'[t] <=> d \in open[t])
      /\ \/ pending' = pending
         \/ /\ pending' = pending \cup {c}
            /\ open' = open
            /\ \A k \in 1 .. Len(y) : y[k].kind \in Answers
            /\ (c \notin broken /\ c \in open["client"]) => Len(y) = 1
      /\ UNCHANGED <<socket, attempt, stage, written, rseq, broken>>

LEMMA AnsweredStep ==
  ASSUME TypeOK, TypeOK', LinkInv, NEW c \in Conns, Answered(c)
  PROVE  LinkInv'
<1>. DEFINE y == toward'["client"][c]
<1>1. /\ "client" \in Sides /\ "server" \in Sides
      /\ Peer("client") = "server" /\ Peer("server") = "client"
      /\ \A t \in Sides : t = "client" \/ t = "server"
  BY PeerType
<1>2. /\ c \in requests /\ c \notin pending
      /\ toward["client"][c] = <<>> /\ toward["server"][c] = <<>>
      /\ ~Trying("client", c, "header") /\ ~CaughtUp("client", c)
      /\ c \in open["server"] /\ ~OnConn("server", c)
  BY DEF Answered, LinkInv, WaitingInv, PlaceInv
<1>3. /\ \A t \in Sides, d \in Conns :
           /\ \A st \in {"response", "header", "catchup"} :
                Trying(t, d, st)' <=> Trying(t, d, st)
           /\ CaughtUp(t, d)' <=> CaughtUp(t, d)
           /\ OnConn(t, d)' <=> OnConn(t, d)
      /\ socket' = socket /\ written' = written
  BY DEF Answered, Trying, CaughtUp, OnConn
<1>4. toward'["server"][c] = <<>> /\ ResponseShape(y)
  BY <1>1, <1>2 DEF Answered
<1>. HIDE DEF y
<1>5. /\ ~Trying("client", c, "header")' /\ ~Trying("client", c, "catchup")'
      /\ socket'["client"] # c
      /\ \A st \in {"response", "header", "catchup"} : ~Trying("server", c, st)'
      /\ ~CaughtUp("server", c)' /\ socket'["server"] # c
      /\ ~CaughtUp("client", c)'
  BY <1>1, <1>2, <1>3 DEF Trying, CaughtUp, OnConn
<1>6. Links("client", c)'
  <2>1. ShapeAt("client", c)'
    BY <1>4, <1>5 DEF ShapeAt, y
  <2>2. OrderAt("client", c)'
    BY <1>1, <1>4, <1>5 DEF OrderAt
  <2>3. CompleteAt("client", c)'
    BY <1>1, <1>5 DEF CompleteAt
  <2>. QED  BY <2>1, <2>2, <2>3 DEF Links
<1>7. Links("server", c)'
  <2>1. ShapeAt("server", c)'
    BY <1>5 DEF ShapeAt
  <2>2. OrderAt("server", c)'
    BY <1>5 DEF OrderAt
  <2>3. CompleteAt("server", c)'
    BY <1>1, <1>5 DEF CompleteAt
  <2>. QED  BY <2>1, <2>2, <2>3 DEF Links
<1>8. \A d \in Conns : d # c => Untouched(d)
  BY DEF Answered, Untouched
<1>9. /\ requests' = requests \ {c}
      /\ pending' = pending \/ pending' = pending \cup {c}
      /\ \A d \in requests \cup pending : d \in Conns
  BY DEF Answered, TypeOK
<1>10. PlaceInv'
  <2>1. \A t \in Sides :
          /\ attempt'[t] = NoConn <=> stage'[t] = "idle"
          /\ stage'[t] = "catchup" => socket'[t] = NoConn
          /\ attempt'[t] # NoConn => socket'[t] # attempt'[t]
    BY DEF Answered, LinkInv, PlaceInv
  <2>2. \A t \in Sides, d \in Conns : OnConn(t, d)' => d \in open'[t]
    BY <1>1, <1>2, <1>3 DEF Answered, LinkInv, PlaceInv
  <2>3. /\ attempt'["client"] # NoConn => socket'["client"] = NoConn
        /\ stage'["server"] # "response"
    BY DEF Answered, LinkInv, PlaceInv
  <2>4. requests' \cap pending' = {}
    BY <1>2, <1>9 DEF LinkInv, PlaceInv
  <2>5. ASSUME NEW d \in requests' \cup pending'
        PROVE  /\ d \in open'["server"] /\ ~OnConn("server", d)'
               /\ ~CaughtUp("client", d)'
    <3>1. /\ d \in Conns /\ d \in open["server"] /\ ~OnConn("server", d)
          /\ ~CaughtUp("client", d)
      BY <1>2, <1>9 DEF LinkInv, PlaceInv
    <3>2. d = c => open' = open
      BY <1>2, <1>9 DEF Answered
    <3>3. d # c => (d \in open'["server"] <=> d \in open["server"])
      BY <1>1, <3>1 DEF Answered
    <3>. QED  BY <1>1, <1>3, <3>1, <3>2, <3>3
  <2>. QED  BY <2>1, <2>2, <2>3, <2>4, <2>5 DEF PlaceInv
<1>11. WaitingInv'
  <2>1. CASE pending' = pending
    BY <1>2, <1>8, <1>9, <2>1, UntouchedWaiting
  <2>2. CASE /\ pending' = pending \cup {c}
             /\ open' = open
             /\ \A k \in 1 .. Len(y) : y[k].kind \in Answers
             /\ (c \notin broken /\ c \in open["client"]) => Len(y) = 1
    <3>1. \A d \in requests' \cup pending :
            /\ d # c /\ d \in Conns
            /\ toward'["client"][d] = toward["client"][d]
            /\ toward'["server"][d] = toward["server"][d]
            /\ \A st \in {"response", "header", "catchup"} :
                 Trying("client", d, st)' <=> Trying("client", d, st)
            /\ d \in broken' <=> d \in broken
      BY <1>1, <1>2, <1>8, <1>9 DEF Untouched, Trying
    <3>2. broken' = broken
      BY DEF Answered
    <3>3. Trying("client", c, "response")' => c \in open["client"]
      BY <1>1, <1>3 DEF LinkInv, PlaceInv, OnConn, Trying
    <3>4. \A k \in 1 .. Len(toward'["server"][c]) :
            toward'["server"][c][k].kind = "header"
      BY <1>4
    <3>5. Len(toward'["server"][c]) <= 1
      BY <1>4
    <3>6. ASSUME NEW d \in pending'
          PROVE  /\ \A k \in 1 .. Len(toward'["client"][d]) :
                      toward'["client"][d][k].kind \in Answers
                 /\ \A k \in 1 .. Len(toward'["server"][d]) :
                      toward'["server"][d][k].kind = "header"
                 /\ Len(toward'["server"][d]) <= 1
                 /\ d \notin broken' =>
                      /\ Trying("client", d, "response")' =>
                           Len(toward'["client"][d]) = 1
                      /\ Trying("client", d, "header")' =>
                           /\ Len(toward'["client"][d]) = 0
                           /\ Len(toward'["server"][d]) = 1
      <4>1. CASE d = c
        BY <1>5, <2>2, <3>2, <3>3, <3>4, <3>5, <4>1 DEF y
      <4>2. CASE d \in pending
        BY <3>1, <4>2 DEF LinkInv, WaitingInv
      <4>. QED  BY <2>2, <4>1, <4>2
    <3>7. ASSUME NEW d \in requests'
          PROVE  /\ toward'["client"][d] = <<>> /\ toward'["server"][d] = <<>>
                 /\ ~Trying("client", d, "header")'
      BY <1>9, <3>1 DEF LinkInv, WaitingInv
    <3>. QED  BY <3>6, <3>7 DEF WaitingInv
  <2>. QED  BY <2>1, <2>2 DEF Answered, y
<1>. QED  BY <1>1, <1>3, <1>6, <1>7, <1>8, <1>10, <1>11, OneConnection

LEMMA AnswerSteps ==
  ASSUME TypeOK, TypeOK', LinkInv, NEW c \in Conns,
         \/ AnswerReturning(c) \/ AnswerNew(c) \/ AnswerAfterReplacement(c)
         \/ AnswerUnknown(c) \/ RequestLost(c)
  PROVE  LinkInv'
<1>. SUFFICES Answered(c)
  BY AnsweredStep
<1>1. /\ "client" \in Sides /\ "server" \in Sides
      /\ Peer("server") = "client"
      /\ toward \in [Sides -> [Conns -> Seq(Message)]]
      /\ open \in [Sides -> SUBSET Conns]
  BY PeerType DEF TypeOK
<1>2. c \in requests
  BY DEF AnswerReturning, AnswerNew, AnswerAfterReplacement, AnswerUnknown,
         RequestLost
<1>3. toward["client"][c] = <<>>
  BY <1>2 DEF LinkInv, WaitingInv
<1>4. /\ requests' = requests \ {c}
      /\ UNCHANGED <<socket, attempt, stage, written, rseq, broken>>
  BY DEF AnswerReturning, AnswerNew, AnswerAfterReplacement, AnswerUnknown,
         RequestLost, sideVars, writerVars, readerVars
<1>5. open' = open \/ open' = Closed("server", c)
  BY DEF AnswerReturning, AnswerNew, AnswerAfterReplacement, AnswerUnknown,
         RequestLost
<1>6. \A t \in Sides, d \in Conns :
        t # "server" \/ d # c => (d \in open'[t] <=> d \in open[t])
  BY <1>1, <1>5 DEF Closed
<1>7. ASSUME NEW k \in Answers, toward' = Sent(toward, "server", c, Response(k))
      PROVE  /\ \A t \in Sides, d \in Conns :
                  t # "client" \/ d # c => toward'[t][d] = toward[t][d]
             /\ ResponseShape(toward'["client"][c])
             /\ \A i \in 1 .. Len(toward'["client"][c]) :
                  toward'["client"][c][i].kind \in Answers
             /\ (c \notin broken /\ c \in open["client"]) =>
                  Len(toward'["client"][c]) = 1
  <2>. DEFINE m == Response(k)
  <2>1. m \in Message /\ m.kind \in Answers
    BY MessageType DEF Response
  <2>. HIDE DEF m
  <2>2. \A t \in Sides, d \in Conns :
          toward'[t][d] = IF t = "client" /\ d = c /\ Carries("server", c)
                          THEN Append(toward[t][d], m) ELSE toward[t][d]
    <3>1. toward' = Sent(toward, "server", c, m)
      BY <1>7 DEF m
    <3>2. \A t \in Sides, d \in Conns :
            toward'[t][d] = IF t = Peer("server") /\ d = c /\ Carries("server", c)
                            THEN Append(toward[t][d], m) ELSE toward[t][d]
      BY <1>1, <2>1, <3>1, SentStep
    <3>. QED  BY <1>1, <3>2
  <2>3. toward'["client"][c] = IF Carries("server", c) THEN <<m>> ELSE <<>>
    <3>1. Append(<<>>, m) = <<m>>
      OBVIOUS
    <3>2. toward'["client"][c] = IF Carries("server", c)
                                 THEN Append(toward["client"][c], m)
                                 ELSE toward["client"][c]
      BY <1>1, <2>2
    <3>. QED  BY <1>3, <3>1, <3>2
  <2>4. CASE toward'["client"][c] = <<m>>
    BY <2>1, <2>2, <2>4 DEF ResponseShape
  <2>5. CASE toward'["client"][c] = <<>> /\ ~Carries("server", c)
    BY <1>1, <2>2, <2>5 DEF ResponseShape, Carries
  <2>. QED  BY <2>3, <2>4, <2>5
<1>8. CASE AnswerReturning(c)
  <2>1. "RETURNING_CLIENT" \in Answers
    BY DEF Answers
  <2>2. /\ toward' = Sent(toward, "server", c, Response("RETURNING_CLIENT"))
        /\ pending' = pending \cup {c} /\ open' = open
    BY <1>8 DEF AnswerReturning
  <2>. QED  BY <1>2, <1>4, <1>6, <1>7, <2>1, <2>2 DEF Answered
<1>9. CASE AnswerNew(c) \/ AnswerUnknown(c)
  <2>1. "NEW_CLIENT" \in Answers /\ "INVALID_KEY" \in Answers
    BY DEF Answers
  <2>2. /\ \/ toward' = Sent(toward, "server", c, Response("NEW_CLIENT"))
           \/ toward' = Sent(toward, "server", c, Response("INVALID_KEY"))
        /\ pending' = pending
    BY <1>9 DEF AnswerNew, AnswerUnknown
  <2>. QED  BY <1>2, <1>4, <1>6, <1>7, <2>1, <2>2 DEF Answered
<1>10. CASE RequestLost(c)
  <2>1. toward' = toward /\ pending' = pending
    BY <1>10 DEF RequestLost
  <2>2. ResponseShape(<<>>)
    BY DEF ResponseShape
  <2>. QED  BY <1>1, <1>2, <1>3, <1>4, <1>6, <2>1, <2>2 DEF Answered
<1>11. CASE AnswerAfterReplacement(c)
  <2>. DEFINE m == Response("RETURNING_CLIENT")
              h == SequenceHeader(ToInt32(0))
  <2>1. pending' = pending /\ "NEW_CLIENT" \in Answers
    BY <1>11 DEF AnswerAfterReplacement, Answers
  <2>2. CASE toward' = Sent(toward, "server", c, Response("NEW_CLIENT"))
    BY <1>2, <1>4, <1>6, <1>7, <2>1, <2>2 DEF Answered
  <2>3. CASE toward' = IF Carries("server", c)
                       THEN [toward EXCEPT !["client"][c] = @ \o <<m, h>>]
                       ELSE toward
    <3>1. <<>> \o <<m, h>> = <<m, h>>
      OBVIOUS
    <3>2. /\ \A t \in Sides, d \in Conns :
               t # "client" \/ d # c => toward'[t][d] = toward[t][d]
          /\ toward'["client"][c] = <<>> \/ toward'["client"][c] = <<m, h>>
      <4>. HIDE DEF m, h
      <4>. QED  BY <1>1, <1>3, <2>3, <3>1
    <3>3. ResponseShape(<<>>) /\ ResponseShape(<<m, h>>)
      BY DEF ResponseShape, Response, SequenceHeader, Answers
    <3>4. ResponseShape(toward'["client"][c])
      BY <3>2, <3>3
    <3>. QED  BY <1>2, <1>4, <1>6, <2>1, <3>2, <3>4 DEF Answered
  <2>. QED  BY <1>11, <2>2, <2>3 DEF AnswerAfterReplacement
<1>. QED  BY <1>8, <1>9, <1>10, <1>11

-----------------------------------------------------------------------------
(* PollReconnect opens a fresh connection.                                 *)

LEMMA PollReconnectStep ==
  ASSUME TypeOK, TypeOK', LinkInv, NEW c \in Conns, PollReconnect(c)
  PROVE  LinkInv'
<1>1. /\ "client" \in Sides /\ "server" \in Sides
      /\ Peer("client") = "server" /\ Peer("server") = "client"
      /\ \A t \in Sides : t = "client" \/ t = "server"
      /\ c # NoConn
  BY PeerType, ConnsAssumption
<1>2. /\ \A t \in Sides : socket[t] # c /\ attempt[t] # c
      /\ c \notin requests /\ c \notin pending
      /\ attempt["client"] = NoConn /\ socket["client"] = NoConn
  BY DEF PollReconnect, InUse
<1>3. /\ socket' = socket /\ rseq' = rseq /\ written' = written
      /\ requests' = requests \cup {c} /\ pending' = pending
      /\ attempt'["client"] = c /\ stage'["client"] = "response"
      /\ attempt'["server"] = attempt["server"]
      /\ stage'["server"] = stage["server"]
      /\ \A d \in Conns : d # c => (d \in broken' <=> d \in broken)
  BY <1>1 DEF PollReconnect, TypeOK, writerVars, readerVars
<1>4. \A t \in Sides, d \in Conns :
        /\ toward'[t][d] = IF d = c THEN <<>> ELSE toward[t][d]
        /\ d \in open'[t] <=> d \in open[t] \/ d = c
  <2>1. /\ toward' = [t \in Sides |-> [toward[t] EXCEPT ![c] = <<>>]]
        /\ open' = [t \in Sides |-> open[t] \cup {c}]
    BY DEF PollReconnect
  <2>2. toward \in [Sides -> [Conns -> Seq(Message)]]
    BY DEF TypeOK
  <2>. QED  BY <2>1, <2>2
<1>5. /\ Trying("client", c, "response")' /\ ~Trying("client", c, "header")'
      /\ ~Trying("client", c, "catchup")' /\ socket'["client"] # c
      /\ ~CaughtUp("client", c)'
      /\ \A st \in {"response", "header", "catchup"} : ~Trying("server", c, st)'
      /\ socket'["server"] # c /\ ~CaughtUp("server", c)'
      /\ ~OnConn("server", c)'
  BY <1>1, <1>2, <1>3 DEF Trying, CaughtUp, OnConn
<1>6. Links("client", c)'
  <2>1. ResponseShape(<<>>)
    BY DEF ResponseShape
  <2>2. ShapeAt("client", c)'
    BY <1>1, <1>4, <1>5, <2>1 DEF ShapeAt
  <2>3. OrderAt("client", c)'
    BY <1>1, <1>4, <1>5 DEF OrderAt
  <2>4. CompleteAt("client", c)'
    BY <1>1, <1>5 DEF CompleteAt
  <2>. QED  BY <2>2, <2>3, <2>4 DEF Links
<1>7. Links("server", c)'
  <2>1. ShapeAt("server", c)'
    BY <1>5 DEF ShapeAt
  <2>2. OrderAt("server", c)'
    BY <1>5 DEF OrderAt
  <2>3. CompleteAt("server", c)'
    BY <1>1, <1>5 DEF CompleteAt
  <2>. QED  BY <2>1, <2>2, <2>3 DEF Links
<1>8. \A d \in Conns : d # c => Untouched(d)
  BY <1>1, <1>2, <1>3, <1>4, ConnsAssumption DEF Untouched
<1>9. \A t \in Sides, d \in Conns :
        /\ OnConn(t, d)' => OnConn(t, d) \/ (t = "client" /\ d = c)
        /\ CaughtUp(t, d)' => CaughtUp(t, d)
  <2>1. ASSUME NEW d \in Conns
        PROVE  /\ OnConn("client", d)' => OnConn("client", d) \/ d = c
               /\ CaughtUp("client", d)' => CaughtUp("client", d)
    BY <1>1, <1>3 DEF OnConn, CaughtUp, Trying
  <2>2. ASSUME NEW d \in Conns
        PROVE  /\ OnConn("server", d)' => OnConn("server", d)
               /\ CaughtUp("server", d)' => CaughtUp("server", d)
    BY <1>1, <1>3 DEF OnConn, CaughtUp, Trying
  <2>. QED  BY <1>1, <2>1, <2>2
<1>10. \A d \in requests \cup pending : d \in Conns
  BY DEF TypeOK
<1>11. PlaceInv'
  <2>1. \A t \in Sides :
          /\ attempt'[t] = NoConn <=> stage'[t] = "idle"
          /\ stage'[t] = "catchup" => socket'[t] = NoConn
          /\ attempt'[t] # NoConn => socket'[t] # attempt'[t]
    BY <1>1, <1>2, <1>3 DEF LinkInv, PlaceInv
  <2>2. \A t \in Sides, d \in Conns : OnConn(t, d)' => d \in open'[t]
    BY <1>4, <1>9 DEF LinkInv, PlaceInv
  <2>3. /\ attempt'["client"] # NoConn => socket'["client"] = NoConn
        /\ stage'["server"] # "response"
    BY <1>2, <1>3 DEF LinkInv, PlaceInv
  <2>4. requests' \cap pending' = {}
    BY <1>2, <1>3 DEF LinkInv, PlaceInv
  <2>5. ASSUME NEW d \in requests' \cup pending'
        PROVE  /\ d \in open'["server"] /\ ~OnConn("server", d)'
               /\ ~CaughtUp("client", d)'
    <3>1. CASE d = c
      BY <1>1, <1>4, <1>5, <3>1
    <3>2. CASE d # c
      <4>1. /\ d \in Conns /\ d \in open["server"] /\ ~OnConn("server", d)
            /\ ~CaughtUp("client", d)
        BY <1>3, <1>10, <3>2 DEF LinkInv, PlaceInv
      <4>. QED  BY <1>1, <1>4, <1>9, <4>1
    <3>. QED  BY <3>1, <3>2
  <2>. QED  BY <2>1, <2>2, <2>3, <2>4, <2>5 DEF PlaceInv
<1>12. WaitingInv'
  <2>1. \A d \in requests \cup pending :
          /\ toward'["client"][d] = toward["client"][d]
          /\ toward'["server"][d] = toward["server"][d]
          /\ \A st \in {"response", "header", "catchup"} :
               Trying("client", d, st)' <=> Trying("client", d, st)
          /\ d \in broken' <=> d \in broken
    BY <1>1, <1>2, <1>8, <1>10 DEF Untouched, Trying
  <2>2. ASSUME NEW d \in requests'
        PROVE  /\ toward'["client"][d] = <<>> /\ toward'["server"][d] = <<>>
               /\ ~Trying("client", d, "header")'
    <3>1. CASE d = c
      BY <1>1, <1>4, <1>5, <3>1
    <3>2. CASE d \in requests
      BY <2>1, <3>2 DEF LinkInv, WaitingInv
    <3>. QED  BY <1>3, <3>1, <3>2
  <2>3. ASSUME NEW d \in pending
        PROVE  /\ \A k \in 1 .. Len(toward'["client"][d]) :
                    toward'["client"][d][k].kind \in Answers
               /\ \A k \in 1 .. Len(toward'["server"][d]) :
                    toward'["server"][d][k].kind = "header"
               /\ Len(toward'["server"][d]) <= 1
               /\ d \notin broken' =>
                    /\ Trying("client", d, "response")' =>
                         Len(toward'["client"][d]) = 1
                    /\ Trying("client", d, "header")' =>
                         /\ Len(toward'["client"][d]) = 0
                         /\ Len(toward'["server"][d]) = 1
    BY <2>1 DEF LinkInv, WaitingInv
  <2>. QED  BY <1>3, <2>2, <2>3 DEF WaitingInv
<1>. QED  BY <1>1, <1>3, <1>6, <1>7, <1>8, <1>11, <1>12, OneConnection

-----------------------------------------------------------------------------
(* A step that changes nothing the two sides share.                        *)

LEMMA StutterStep ==
  ASSUME LinkInv,
         UNCHANGED <<socket, attempt, stage, written, rseq, toward, open,
                     broken, requests, pending>>
  PROVE  LinkInv'
<1>1. PlaceInv'
  BY DEF LinkInv, PlaceInv, OnConn, CaughtUp, Trying
<1>2. WaitingInv'
  BY DEF LinkInv, WaitingInv, Trying
<1>3. \A t \in Sides, d \in Conns : Links(t, d)'
  BY UntouchedLinks DEF Untouched
<1>. QED  BY <1>1, <1>2, <1>3
          DEF Links, LinkInv, ShapeInv, OrderInv, CompleteInv

-----------------------------------------------------------------------------
(* Break: a prefix of what was in flight is left.                          *)

LEMMA PrefixFacts ==
  ASSUME NEW q \in Seq(Message), NEW i \in 0 .. Len(q)
  PROVE  /\ SubSeq(q, 1, i) \in Seq(Message)
         /\ Len(SubSeq(q, 1, i)) = i
         /\ \A k \in 1 .. i : SubSeq(q, 1, i)[k] = q[k]
  OBVIOUS

Prefix(x, q) == Len(x) \in 0 .. Len(q) /\ \A k \in 1 .. Len(x) : x[k] = q[k]

LEMMA PrefixShape ==
  ASSUME NEW q \in Seq(Message), NEW x \in Seq(Message), Prefix(x, q),
         NEW r \in Nat, NEW w \in Nat
  PROVE  /\ ResponseShape(q) => ResponseShape(x)
         /\ HeaderShape(q, r, w) => HeaderShape(x, r, w)
         /\ CatchupShape(q, r, w) => CatchupShape(x, r, w)
         /\ PacketShape(q, r, w) => PacketShape(x, r, w)
<1>1. /\ Len(q) \in Nat /\ Len(x) \in Nat /\ Len(x) <= Len(q)
      /\ \A k \in 1 .. Len(x) : k \in 1 .. Len(q) /\ x[k] = q[k]
  BY DEF Prefix
<1>2. /\ Len(x) >= 1 => x[1] = q[1] /\ Len(q) >= 1
      /\ Len(x) = 2 => x[2] = q[2] /\ Len(q) >= 2
  BY <1>1
<1>3. Len(q) >= 1 => Len(q[1].buf) \in Nat
  BY <1>1, BufferLength
<1>4. ResponseShape(q) => ResponseShape(x)
  BY <1>1, <1>2 DEF ResponseShape
<1>5. HeaderShape(q, r, w) => HeaderShape(x, r, w)
  BY <1>1, <1>2 DEF HeaderShape
<1>6. CatchupShape(q, r, w) => CatchupShape(x, r, w)
  <2>. SUFFICES ASSUME CatchupShape(q, r, w), Len(x) >= 1
       PROVE  /\ x[1].kind = "catchup"
              /\ Contiguous(x[1].buf, r)
              /\ \A k \in 2 .. Len(x) : /\ x[k].kind = "packet"
                                        /\ x[k].num = r + Len(x[1].buf) + k - 1
              /\ r + Len(x[1].buf) + Len(x) - 1 <= w
    BY DEF CatchupShape
  <2>1. \A k \in 2 .. Len(x) : k \in 2 .. Len(q) /\ x[k] = q[k]
    BY <1>1
  <2>. DEFINE b == Len(q[1].buf)
  <2>2. Len(q) >= 1 /\ x[1] = q[1] /\ b \in Nat
    BY <1>1, <1>2, <1>3
  <2>3. /\ q[1].kind = "catchup"
        /\ Contiguous(q[1].buf, r)
        /\ \A k \in 2 .. Len(q) : q[k].kind = "packet"
                                  /\ q[k].num = r + b + k - 1
        /\ r + b + Len(q) - 1 <= w
    BY <2>2 DEF CatchupShape
  <2>4. r + b + Len(x) - 1 <= w
    <3>. HIDE DEF b
    <3>. QED  BY <1>1, <2>2, <2>3
  <2>5. \A k \in 2 .. Len(x) : x[k].kind = "packet" /\ x[k].num = r + b + k - 1
    <3>. HIDE DEF b
    <3>. QED  BY <2>1, <2>3
  <2>. QED  BY <2>2, <2>3, <2>4, <2>5
<1>7. PacketShape(q, r, w) => PacketShape(x, r, w)
  BY <1>1 DEF PacketShape
<1>. QED  BY <1>4, <1>5, <1>6, <1>7

LEMMA BreakStep ==
  ASSUME TypeOK, TypeOK', LinkInv, NEW c \in Conns, Break(c)
  PROVE  LinkInv'
<1>1. /\ "client" \in Sides /\ "server" \in Sides
      /\ \A t \in Sides : Peer(t) \in Sides
      /\ \A t \in Sides : t = "client" \/ t = "server"
  BY PeerType
<1>2. /\ socket' = socket /\ attempt' = attempt /\ stage' = stage
      /\ rseq' = rseq /\ written' = written /\ open' = open
      /\ requests' = requests /\ pending' = pending
      /\ broken' = broken \cup {c}
  BY DEF Break, sideVars, writerVars, readerVars, serverVars
<1>3. /\ toward \in [Sides -> [Conns -> Seq(Message)]]
      /\ toward' \in [Sides -> [Conns -> Seq(Message)]]
  BY DEF TypeOK
<1>4. PICK i \in 0 .. Len(toward["client"][c]),
           j \in 0 .. Len(toward["server"][c]) :
        toward' = [toward EXCEPT !["client"][c] = SubSeq(@, 1, i),
                                 !["server"][c] = SubSeq(@, 1, j)]
  BY DEF Break
<1>5. \A t \in Sides, d \in Conns : d # c => toward'[t][d] = toward[t][d]
  BY <1>1, <1>3, <1>4
<1>6. \A t \in Sides : Prefix(toward'[t][c], toward[t][c])
  <2>1. /\ toward'["client"][c] = SubSeq(toward["client"][c], 1, i)
        /\ toward'["server"][c] = SubSeq(toward["server"][c], 1, j)
    BY <1>1, <1>3, <1>4
  <2>2. Prefix(toward'["client"][c], toward["client"][c])
    <3>. DEFINE q == toward["client"][c]
    <3>1. q \in Seq(Message) /\ i \in 0 .. Len(q)
      BY <1>1, <1>3
    <3>2. toward'["client"][c] = SubSeq(q, 1, i)
      BY <2>1
    <3>. HIDE DEF q
    <3>3. Prefix(SubSeq(q, 1, i), q)
      BY <3>1, PrefixFacts DEF Prefix
    <3>. QED  BY <3>2, <3>3 DEF q
  <2>3. Prefix(toward'["server"][c], toward["server"][c])
    <3>. DEFINE q == toward["server"][c]
    <3>1. q \in Seq(Message) /\ j \in 0 .. Len(q)
      BY <1>1, <1>3
    <3>2. toward'["server"][c] = SubSeq(q, 1, j)
      BY <2>1
    <3>. HIDE DEF q
    <3>3. Prefix(SubSeq(q, 1, j), q)
      BY <3>1, PrefixFacts DEF Prefix
    <3>. QED  BY <3>2, <3>3 DEF q
  <2>. QED  BY <1>1, <2>2, <2>3
<1>7. \A t \in Sides, d \in Conns :
        /\ \A st \in {"response", "header", "catchup"} :
             Trying(t, d, st)' <=> Trying(t, d, st)
        /\ CaughtUp(t, d)' <=> CaughtUp(t, d)
        /\ OnConn(t, d)' <=> OnConn(t, d)
  BY <1>2 DEF Trying, CaughtUp, OnConn
<1>8. \A d \in Conns : d # c => Untouched(d)
  BY <1>2, <1>5 DEF Untouched
<1>9. \A t \in Sides : Links(t, c)'
  <2>. SUFFICES ASSUME NEW t \in Sides
       PROVE  Links(t, c)'
    OBVIOUS
  <2>1. Links(t, c)
    BY DEF LinkInv, ShapeInv, OrderInv, CompleteInv, Links
  <2>2. ShapeAt(t, c)'
    <3>. DEFINE q == toward[t][c]
                x == toward'[t][c]
                r == rseq[t]
                w == Len(written[Peer(t)])
    <3>1. q \in Seq(Message) /\ x \in Seq(Message) /\ Prefix(x, q)
      BY <1>3, <1>6
    <3>2. r \in Nat /\ w \in Nat
      BY <1>1 DEF TypeOK
    <3>3. /\ Trying(t, c, "response") => ResponseShape(q)
          /\ Trying(t, c, "header") => HeaderShape(q, r, w)
          /\ Trying(t, c, "catchup") => CatchupShape(q, r, w)
          /\ socket[t] = c => PacketShape(q, r, w)
      BY <2>1 DEF Links, ShapeAt
    <3>4. x = toward'[t][c] /\ r = rseq'[t] /\ w = Len(written'[Peer(t)])
      BY <1>2
    <3>. HIDE DEF q, x, r, w
    <3>5. /\ ResponseShape(q) => ResponseShape(x)
          /\ HeaderShape(q, r, w) => HeaderShape(x, r, w)
          /\ CatchupShape(q, r, w) => CatchupShape(x, r, w)
          /\ PacketShape(q, r, w) => PacketShape(x, r, w)
      BY <3>1, <3>2, PrefixShape
    <3>. QED  BY <1>2, <1>7, <3>3, <3>4, <3>5 DEF ShapeAt
  <2>3. OrderAt(t, c)'
    <3>. DEFINE q == toward[Peer(t)][c]
                x == toward'[Peer(t)][c]
    <3>1. q \in Seq(Message) /\ x \in Seq(Message) /\ Prefix(x, q)
      BY <1>1, <1>3, <1>6
    <3>2. /\ Trying(t, c, "response") => q = <<>> /\ ~CaughtUp(Peer(t), c)
          /\ Trying(t, c, "header") =>
               /\ socket[Peer(t)] # c
               /\ \A k \in 1 .. Len(q) : q[k].kind \in Answers \cup {"header"}
          /\ Trying(t, c, "header") \/ Trying(t, c, "catchup") =>
               \A k \in 1 .. Len(q) :
                 q[k].kind = "header" => q[k].num = ToInt32(rseq[t])
      BY <2>1 DEF Links, OrderAt
    <3>3. x = toward'[Peer(t)][c]
      OBVIOUS
    <3>. HIDE DEF q, x
    <3>4. q = <<>> => x = <<>>
      BY <3>1 DEF Prefix
    <3>5. \A k \in 1 .. Len(x) : k \in 1 .. Len(q) /\ x[k] = q[k]
      BY <3>1 DEF Prefix
    <3>. QED  BY <1>1, <1>2, <1>7, <3>2, <3>3, <3>4, <3>5 DEF OrderAt
  <2>4. CompleteAt(t, c)'
    BY <1>2 DEF CompleteAt
  <2>. QED  BY <2>2, <2>3, <2>4 DEF Links
<1>10. PlaceInv'
  BY <1>2 DEF LinkInv, PlaceInv, OnConn, CaughtUp, Trying
<1>11. WaitingInv'
  <2>1. \A d \in requests \cup pending : d \in Conns
    BY DEF TypeOK
  <2>2. ASSUME NEW d \in requests
        PROVE  /\ toward'["client"][d] = <<>> /\ toward'["server"][d] = <<>>
               /\ ~Trying("client", d, "header")'
    <3>1. /\ toward["client"][d] = <<>> /\ toward["server"][d] = <<>>
          /\ ~Trying("client", d, "header")
      BY DEF LinkInv, WaitingInv
    <3>2. \A x \in Seq(Message) : Prefix(x, <<>>) => x = <<>>
      BY DEF Prefix
    <3>3. /\ toward'["client"][d] \in Seq(Message)
          /\ toward'["server"][d] \in Seq(Message)
      BY <1>1, <1>3, <2>1
    <3>. QED  BY <1>1, <1>5, <1>6, <1>7, <2>1, <3>1, <3>2, <3>3
  <2>3. ASSUME NEW d \in pending
        PROVE  /\ \A k \in 1 .. Len(toward'["client"][d]) :
                    toward'["client"][d][k].kind \in Answers
               /\ \A k \in 1 .. Len(toward'["server"][d]) :
                    toward'["server"][d][k].kind = "header"
               /\ Len(toward'["server"][d]) <= 1
               /\ d \notin broken' =>
                    /\ Trying("client", d, "response")' =>
                         Len(toward'["client"][d]) = 1
                    /\ Trying("client", d, "header")' =>
                         /\ Len(toward'["client"][d]) = 0
                         /\ Len(toward'["server"][d]) = 1
    <3>1. CASE d # c
      BY <1>1, <1>2, <1>5, <1>7, <2>1, <3>1 DEF LinkInv, WaitingInv
    <3>2. CASE d = c
      <4>1. /\ \A k \in 1 .. Len(toward["client"][d]) :
                 toward["client"][d][k].kind \in Answers
            /\ \A k \in 1 .. Len(toward["server"][d]) :
                 toward["server"][d][k].kind = "header"
            /\ Len(toward["server"][d]) <= 1
        BY DEF LinkInv, WaitingInv
      <4>2. \A t \in Sides :
              /\ Len(toward'[t][d]) <= Len(toward[t][d])
              /\ \A k \in 1 .. Len(toward'[t][d]) :
                   k \in 1 .. Len(toward[t][d])
                   /\ toward'[t][d][k] = toward[t][d][k]
        BY <1>3, <1>6, <3>2 DEF Prefix
      <4>3. \A t \in Sides : Len(toward'[t][d]) \in Nat
        BY <1>3, <3>2
      <4>4. d \in broken'
        BY <1>2, <3>2
      <4>5. Len(toward'["server"][d]) <= 1
        BY <1>1, <1>3, <3>2, <4>1, <4>2, <4>3
      <4>6. \A k \in 1 .. Len(toward'["client"][d]) :
               toward'["client"][d][k].kind \in Answers
        BY <1>1, <4>1, <4>2
      <4>7. \A k \in 1 .. Len(toward'["server"][d]) :
               toward'["server"][d][k].kind = "header"
        BY <1>1, <4>1, <4>2
      <4>. QED  BY <4>4, <4>5, <4>6, <4>7
    <3>. QED  BY <3>1, <3>2
  <2>. QED  BY <1>2, <2>2, <2>3 DEF WaitingInv
<1>. QED  BY <1>1, <1>2, <1>8, <1>9, <1>10, <1>11, OneConnection

-----------------------------------------------------------------------------
(* The actions by which a side leaves its connection.                      *)

LEMMA CloseLeaves ==
  ASSUME TypeOK, NEW s \in Sides, socket[s] # NoConn, attempt[s] = NoConn,
         CloseSocket(s), UNCHANGED <<attempt, stage, rseq, broken, requests,
                                     pending, toward>>,
         \A t \in Sides :
           /\ Len(written'[t]) >= Len(written[t])
           /\ t # s => written'[t] = written[t]
  PROVE  \E c \in Conns : Leaves(s, c)
<1>1. socket[s] \in Conns
  BY DEF TypeOK
<1>2. Leaves(s, socket[s])
  BY DEF Leaves, OnConn, CloseSocket
<1>. QED  BY <1>1, <1>2

LEMMA AttemptLeaves ==
  ASSUME TypeOK, NEW s \in Sides, attempt[s] # NoConn,
         attempt' = [attempt EXCEPT ![s] = NoConn],
         stage' = [stage EXCEPT ![s] = "idle"],
         open' = Closed(s, attempt[s]),
         \/ UNCHANGED toward
         \/ /\ toward[s][attempt[s]] # <<>>
            /\ toward' = Consumed(s, attempt[s]),
         UNCHANGED <<socket, written, rseq, broken, requests, pending>>
  PROVE  \E c \in Conns : Leaves(s, c)
<1>1. attempt[s] \in Conns
  BY DEF TypeOK
<1>2. \A t \in Sides : Len(written[t]) \in Nat
  BY DEF TypeOK
<1>3. Leaves(s, attempt[s])
  BY <1>2 DEF Leaves, OnConn
<1>. QED  BY <1>1, <1>3

LEMMA LeaveSteps ==
  ASSUME TypeOK, TypeOK', LinkInv, NEW s \in Sides,
         \/ \E len \in Lengths : WriteFails(s, len)
         \/ ReadFails(s) \/ RefuseCatchup(s)
         \/ AttemptFails(s) \/ AttemptTimesOut(s)
         \/ s = "client" /\ (KeepaliveCloses \/ ReadRefusal)
         \/ s = "server" /\ ErasedCloses
  PROVE  LinkInv'
<1>. SUFFICES \E c \in Conns : Leaves(s, c)
  BY LeaveStep
<1>. USE DEF readerVars, writerVars, serverVars
<1>0. \A t \in Sides : Len(written[t]) \in Nat
  BY DEF TypeOK
<1>1. ASSUME NEW len \in Lengths, WriteFails(s, len)
      PROVE  \E c \in Conns : Leaves(s, c)
  <2>1. \A t \in Sides : /\ Len(written'[t]) >= Len(written[t])
                         /\ t # s => written'[t] = written[t]
    <3>1. BackUp(s, len)
      BY <1>1 DEF WriteFails
    <3>. QED  BY <1>0, <3>1, BackUpGrows
  <2>. QED  BY <1>1, <2>1, CloseLeaves DEF WriteFails, Up
<1>2. CASE ReadFails(s)
  BY <1>0, <1>2, CloseLeaves DEF ReadFails, Up
<1>3. CASE s = "client" /\ KeepaliveCloses
  BY <1>0, <1>3, CloseLeaves DEF KeepaliveCloses, Up
<1>4. CASE s = "server" /\ ErasedCloses
  BY <1>0, <1>4, CloseLeaves DEF ErasedCloses
<1>5. CASE RefuseCatchup(s)
  <2>1. stage[s] = "header" /\ attempt[s] # NoConn
    BY <1>5 DEF RefuseCatchup, LinkInv, PlaceInv
  <2>. QED  BY <1>5, <2>1, AttemptLeaves DEF RefuseCatchup, GiveUp, Arrived
<1>6. CASE AttemptFails(s) \/ AttemptTimesOut(s)
  BY <1>6, AttemptLeaves DEF AttemptFails, AttemptTimesOut, GiveUp
<1>7. CASE s = "client" /\ ReadRefusal
  <2>1. stage[s] = "response" /\ attempt[s] # NoConn
    BY <1>7 DEF ReadRefusal, LinkInv, PlaceInv
  <2>2. toward[s][attempt[s]] # <<>>
    BY <1>7 DEF ReadRefusal, Arrived
  <2>. QED  BY <1>7, <2>1, <2>2, AttemptLeaves DEF ReadRefusal
<1>. QED  BY <1>1, <1>2, <1>3, <1>4, <1>5, <1>6, <1>7

LEMMA LinkStep ==
  ASSUME TypeOK, TypeOK', ReaderInv, WriterInv, LinkInv, Next
  PROVE  LinkInv'
<1>1. ASSUME NEW s \in Sides, NEW len \in Lengths, Write(s, len)
      PROVE  LinkInv'
  BY <1>1, WriteStep
<1>2. ASSUME NEW s \in Sides,
             \/ \E len \in Lengths : WriteFails(s, len)
             \/ ReadFails(s) \/ RefuseCatchup(s)
             \/ AttemptFails(s) \/ AttemptTimesOut(s)
      PROVE  LinkInv'
  BY <1>2, LeaveSteps
<1>3. CASE KeepaliveCloses \/ ReadRefusal \/ ErasedCloses
  BY <1>3, LeaveSteps, PeerType
<1>4. ASSUME NEW s \in Sides, ReadLocal(s) \/ ReadPart(s)
      PROVE  LinkInv'
  BY <1>4, StutterStep
     DEF ReadLocal, ReadPart, sideVars, writerVars, netVars, serverVars
<1>5. ASSUME NEW s \in Sides, ReadWire(s)
      PROVE  LinkInv'
  BY <1>5, ReadWireStep
<1>6. ASSUME NEW s \in Sides, SendCatchup(s)
      PROVE  LinkInv'
  BY <1>6, SendCatchupStep
<1>7. ASSUME NEW s \in Sides, Revive(s)
      PROVE  LinkInv'
  BY <1>7, ReviveStep
<1>8. ASSUME NEW c \in Conns,
             \/ AnswerReturning(c) \/ AnswerNew(c) \/ AnswerAfterReplacement(c)
             \/ AnswerUnknown(c) \/ RequestLost(c)
      PROVE  LinkInv'
  BY <1>8, AnswerSteps
<1>9. ASSUME NEW c \in Conns, PollReconnect(c)
      PROVE  LinkInv'
  BY <1>9, PollReconnectStep
<1>10. ASSUME NEW c \in Conns, BeginRecover(c)
       PROVE  LinkInv'
  BY <1>10, BeginRecoverStep
<1>11. ASSUME NEW c \in Conns, Break(c)
       PROVE  LinkInv'
  BY <1>11, BreakStep
<1>12. CASE ReadReturning
  BY <1>12, ReadReturningStep
<1>13. CASE SessionEnds
  BY <1>13, StutterStep
     DEF SessionEnds, sideVars, writerVars, readerVars, netVars
<1>. QED  BY <1>1, <1>2, <1>3, <1>4, <1>5, <1>6, <1>7, <1>8, <1>9, <1>10,
             <1>11, <1>12, <1>13 DEF Next, SideNext, ConnNext

-----------------------------------------------------------------------------
(* The writer.                                                             *)

LEMMA WriterStep ==
  ASSUME TypeOK, WriterInv, Next
  PROVE  WriterInv' /\ \A s \in Sides : Len(written[s]) <= Len(written'[s])
<1>1. ASSUME NEW s \in Sides, NEW len \in Lengths, BackUp(s, len)
      PROVE  /\ WriterInv'
             /\ \A t \in Sides : Len(written[t]) <= Len(written'[t])
  <2>1. WriterInv'
    BY <1>1, BackUpWriter
  <2>2. \A t \in Sides : Len(written[t]) \in Nat
    BY DEF TypeOK
  <2>3. /\ Len(written'[s]) = Len(written[s]) + 1
        /\ \A t \in Sides : t # s => written'[t] = written[t]
    BY <1>1, BackUpGrows
  <2>. QED  BY <2>1, <2>2, <2>3
<1>2. ASSUME UNCHANGED writerVars
      PROVE  /\ WriterInv'
             /\ \A t \in Sides : Len(written[t]) <= Len(written'[t])
  BY <1>2 DEF WriterInv, writerVars, TypeOK
<1>3. ASSUME NEW s \in Sides, SideNext(s)
      PROVE  \/ UNCHANGED writerVars
             \/ \E len \in Lengths : BackUp(s, len)
  BY <1>3 DEF SideNext, Write, WriteFails, ReadLocal, ReadPart, ReadWire,
              ReadFails, SendCatchup, RefuseCatchup, Revive, AttemptFails,
              AttemptTimesOut
<1>4. ASSUME NEW c \in Conns, ConnNext(c)
      PROVE  UNCHANGED writerVars
  BY <1>4 DEF ConnNext, PollReconnect, AnswerReturning, AnswerNew,
              AnswerAfterReplacement, AnswerUnknown, RequestLost,
              BeginRecover, Break
<1>5. ASSUME ReadReturning \/ ReadRefusal \/ KeepaliveCloses \/ SessionEnds
               \/ ErasedCloses
      PROVE  UNCHANGED writerVars
  BY <1>5 DEF ReadReturning, ReadRefusal, KeepaliveCloses, SessionEnds,
              ErasedCloses
<1>. QED  BY <1>1, <1>2, <1>3, <1>4, <1>5 DEF Next

-----------------------------------------------------------------------------
(* The reader.                                                             *)

ReaderAt(s) ==
  /\ rseq[s] = Len(delivered[s]) + Len(localBuffer[s])
  /\ Contiguous(delivered[s], 0)
  /\ Contiguous(localBuffer[s], Len(delivered[s]))
  /\ partial[s] \in {0, rseq[s] + 1}
  /\ rseq[s] <= Len(written[Peer(s)])

(* A side whose reader does nothing keeps its part of ReaderInv.           *)
LEMMA ReaderIdle ==
  ASSUME TypeOK, TypeOK', ReaderInv, NEW s \in Sides,
         rseq'[s] = rseq[s], localBuffer'[s] = localBuffer[s],
         partial'[s] = partial[s], delivered'[s] = delivered[s],
         \A t \in Sides : Len(written[t]) <= Len(written'[t])
  PROVE  ReaderAt(s)'
<1>1. ReaderAt(s)
  BY DEF ReaderInv, ReaderAt
<1>2. /\ Peer(s) \in Sides /\ rseq[s] \in Nat
      /\ Len(written[Peer(s)]) \in Nat /\ Len(written'[Peer(s)]) \in Nat
  <2>1. Peer(s) \in Sides
    BY PeerType
  <2>2. rseq[s] \in Nat
    BY DEF TypeOK
  <2>3. written[Peer(s)] \in Seq(Nat) /\ written'[Peer(s)] \in Seq(Nat)
    BY <2>1 DEF TypeOK
  <2>. QED  BY <2>1, <2>2, <2>3
<1>3. rseq[s] <= Len(written'[Peer(s)])
  <2>1. rseq[s] <= Len(written[Peer(s)])
    BY <1>1 DEF ReaderAt
  <2>2. Len(written[Peer(s)]) <= Len(written'[Peer(s)])
    BY <1>2
  <2>. QED  BY <1>2, <2>1, <2>2
<1>. QED  BY <1>1, <1>3 DEF ReaderAt

(* The next packet in order extends what was returned.                     *)
LEMMA ContiguousAppend ==
  ASSUME NEW b \in Seq(Nat), Contiguous(b, 0)
  PROVE  /\ Contiguous(Append(b, Len(b) + 1), 0)
         /\ Len(Append(b, Len(b) + 1)) = Len(b) + 1
<1>. DEFINE e == Append(b, Len(b) + 1)
<1>1. /\ Len(b) \in Nat /\ Len(e) = Len(b) + 1
      /\ \A k \in 1 .. Len(b) : e[k] = b[k]
      /\ e[Len(b) + 1] = Len(b) + 1
  OBVIOUS
<1>2. \A k \in 1 .. Len(b) : b[k] = 0 + k
  BY DEF Contiguous
<1>. HIDE DEF e
<1>3. ASSUME NEW k \in 1 .. Len(e)
      PROVE  e[k] = 0 + k
  <2>1. k \in 1 .. Len(b) \/ k = Len(b) + 1
    BY <1>1
  <2>. QED  BY <1>1, <1>2, <2>1
<1>4. Contiguous(e, 0) /\ Len(e) = Len(b) + 1
  BY <1>1, <1>3 DEF Contiguous
<1>. QED  BY <1>4 DEF e

LEMMA ContiguousTail ==
  ASSUME NEW b \in Seq(Int), b # <<>>, NEW n \in Nat, Contiguous(b, n)
  PROVE  /\ Head(b) = n + 1
         /\ Contiguous(Tail(b), n + 1)
         /\ Len(Tail(b)) = Len(b) - 1
         /\ Len(b) \in Nat
<1>. DEFINE z == Tail(b)
<1>1. /\ Len(b) \in Nat /\ Len(b) >= 1 /\ Len(z) = Len(b) - 1
      /\ \A k \in 1 .. Len(b) - 1 : z[k] = b[k + 1]
      /\ Head(b) = b[1]
  BY HeadTailProperties, LenProperties
<1>2. \A k \in 1 .. Len(b) : b[k] = n + k
  BY DEF Contiguous
<1>. HIDE DEF z
<1>3. ASSUME NEW k \in 1 .. Len(z)
      PROVE  z[k] = n + 1 + k
  <2>1. k + 1 \in 1 .. Len(b) /\ z[k] = b[k + 1]
    BY <1>1
  <2>2. b[k + 1] = n + (k + 1)
    BY <1>2, <2>1
  <2>. QED  BY <2>1, <2>2
<1>4. Contiguous(z, n + 1)
  BY <1>3 DEF Contiguous
<1>5. Head(b) = n + 1
  BY <1>1, <1>2
<1>. QED  BY <1>1, <1>4, <1>5 DEF z

LEMMA ContiguousConcat ==
  ASSUME NEW a \in Seq(Int), NEW b \in Seq(Int), NEW n \in Nat,
         Contiguous(a, n), Contiguous(b, n + Len(a))
  PROVE  /\ Contiguous(a \o b, n)
         /\ Len(a \o b) = Len(a) + Len(b)
<1>. DEFINE e == a \o b
<1>1. /\ Len(a) \in Nat /\ Len(b) \in Nat /\ Len(e) = Len(a) + Len(b)
      /\ \A k \in 1 .. Len(e) :
           e[k] = IF k <= Len(a) THEN a[k] ELSE b[k - Len(a)]
  BY ConcatProperties, LenProperties
<1>2. /\ \A k \in 1 .. Len(a) : a[k] = n + k
      /\ \A k \in 1 .. Len(b) : b[k] = n + Len(a) + k
  BY DEF Contiguous
<1>. HIDE DEF e
<1>3. ASSUME NEW k \in 1 .. Len(e)
      PROVE  e[k] = n + k
  <2>1. CASE k <= Len(a)
    BY SMTT(60), <1>1, <1>2, <2>1
  <2>2. CASE k > Len(a)
    <3>1. k - Len(a) \in 1 .. Len(b) /\ e[k] = b[k - Len(a)]
      BY <1>1, <2>2
    <3>2. b[k - Len(a)] = n + Len(a) + (k - Len(a))
      BY <1>2, <3>1
    <3>. QED  BY <1>1, <3>1, <3>2
  <2>. QED  BY <1>1, <2>1, <2>2
<1>. QED  BY <1>1, <1>3 DEF Contiguous, e

LEMMA ReaderTypes ==
  ASSUME TypeOK, NEW s \in Sides
  PROVE  /\ rseq[s] \in Nat /\ localBuffer[s] \in Seq(Int)
         /\ delivered[s] \in Seq(Nat) /\ Len(delivered[s]) \in Nat
         /\ Len(localBuffer[s]) \in Nat
         /\ Peer(s) \in Sides /\ Len(written[Peer(s)]) \in Nat
<1>1. Peer(s) \in Sides
  BY PeerType
<1>2. rseq[s] \in Nat /\ localBuffer[s] \in Seq(Int)
  BY DEF TypeOK
<1>3. delivered[s] \in Seq(Nat)
  BY DEF TypeOK
<1>4. written[Peer(s)] \in Seq(Nat)
  BY <1>1 DEF TypeOK
<1>. QED  BY <1>1, <1>2, <1>3, <1>4

LEMMA ReadLocalReader ==
  ASSUME TypeOK, TypeOK', ReaderInv, NEW s \in Sides, ReadLocal(s)
  PROVE  ReaderAt(s)'
<1>. DEFINE b == localBuffer[s]
            d == delivered[s]
<1>1. /\ b # <<>> /\ rseq' = rseq /\ partial' = partial /\ written' = written
      /\ localBuffer'[s] = Tail(b)
      /\ delivered'[s] = Append(d, Decrypt(s, Head(b)))
  BY DEF ReadLocal, TypeOK, writerVars
<1>2. /\ b \in Seq(Int) /\ d \in Seq(Nat) /\ Len(d) \in Nat
      /\ Contiguous(d, 0) /\ Contiguous(b, Len(d))
      /\ rseq[s] = Len(d) + Len(b)
      /\ partial[s] \in {0, rseq[s] + 1}
      /\ rseq[s] <= Len(written[Peer(s)])
  BY ReaderTypes DEF ReaderInv
<1>3. \A n : Decrypt(s, n) = IF n = Len(d) + 1 THEN n ELSE 0
  BY DEF Decrypt
<1>. HIDE DEF b, d
<1>4. /\ Head(b) = Len(d) + 1 /\ Contiguous(Tail(b), Len(d) + 1)
      /\ Len(Tail(b)) = Len(b) - 1 /\ Len(b) \in Nat
  BY <1>1, <1>2, ContiguousTail
<1>5. delivered'[s] = Append(d, Len(d) + 1)
  BY <1>1, <1>3, <1>4
<1>6. /\ Contiguous(Append(d, Len(d) + 1), 0)
      /\ Len(Append(d, Len(d) + 1)) = Len(d) + 1
  BY <1>2, ContiguousAppend
<1>7. /\ Contiguous(delivered'[s], 0) /\ Len(delivered'[s]) = Len(d) + 1
      /\ Contiguous(localBuffer'[s], Len(delivered'[s]))
      /\ Len(localBuffer'[s]) = Len(b) - 1
  BY <1>1, <1>4, <1>5, <1>6
<1>8. rseq'[s] = Len(delivered'[s]) + Len(localBuffer'[s])
  BY <1>1, <1>2, <1>4, <1>7
<1>. QED  BY <1>1, <1>2, <1>7, <1>8 DEF ReaderAt

(* What the reader can find at the head of a stream it reads.              *)
LEMMA NextPacket ==
  ASSUME TypeOK, ReaderInv, LinkInv, NEW s \in Sides, Up(s),
         localBuffer[s] = <<>>, Arrived(s, socket[s], "packet")
  PROVE  /\ Head(toward[s][socket[s]]).num = rseq[s] + 1
         /\ rseq[s] + 1 <= Len(written[Peer(s)])
         /\ rseq[s] = Len(delivered[s])
<1>0. PICK c \in Conns : socket[s] = c
  BY TypedReads DEF LinkInv
<1>. DEFINE q == toward[s][c]
<1>1. q \in Seq(Message) /\ q # <<>>
  BY <1>0 DEF TypeOK, Arrived
<1>2. Len(q) \in Nat /\ Len(q) >= 1 /\ Head(q) = q[1]
  BY <1>1, TailFacts
<1>3. PacketShape(q, rseq[s], Len(written[Peer(s)]))
  BY <1>0 DEF LinkInv, ShapeInv, ShapeAt
<1>4. /\ rseq[s] \in Nat /\ Len(written[Peer(s)]) \in Nat
      /\ Len(delivered[s]) \in Nat
  BY ReaderTypes
<1>5. Head(toward[s][socket[s]]) = q[1]
  BY <1>0, <1>2
<1>. HIDE DEF q
<1>6. q[1].num = rseq[s] + 1 /\ rseq[s] + Len(q) <= Len(written[Peer(s)])
  BY <1>2, <1>3 DEF PacketShape
<1>7. rseq[s] = Len(delivered[s])
  <2>1. rseq[s] = Len(delivered[s]) + Len(localBuffer[s])
    BY DEF ReaderInv
  <2>2. Len(localBuffer[s]) = 0
    OBVIOUS
  <2>. QED  BY <1>4, <2>1, <2>2
<1>. QED  BY <1>2, <1>4, <1>5, <1>6, <1>7

LEMMA ReadWireReader ==
  ASSUME TypeOK, TypeOK', ReaderInv, LinkInv, NEW s \in Sides,
         ReadWire(s) \/ ReadPart(s)
  PROVE  ReaderAt(s)'
<1>. DEFINE d == delivered[s]
            n == Head(toward[s][socket[s]]).num
            w == Len(written[Peer(s)])
<1>1. /\ n = rseq[s] + 1 /\ rseq[s] + 1 <= w /\ rseq[s] = Len(d)
      /\ localBuffer[s] = <<>> /\ written' = written
      /\ localBuffer' = localBuffer
  BY NextPacket DEF ReadWire, ReadPart, writerVars
<1>2. /\ d \in Seq(Nat) /\ Len(d) \in Nat /\ Contiguous(d, 0)
      /\ partial[s] \in {0, rseq[s] + 1}
  BY ReaderTypes DEF ReaderInv
<1>3. Len(written'[Peer(s)]) = w /\ localBuffer'[s] = <<>>
  BY <1>1
<1>4. \A k : Contiguous(<<>>, k)
  BY DEF Contiguous
<1>5. CASE ReadPart(s)
  <2>1. /\ partial'[s] = n /\ rseq'[s] = rseq[s] /\ delivered'[s] = d
    BY <1>5 DEF ReadPart, TypeOK
  <2>. HIDE DEF d, n, w
  <2>. QED  BY <1>1, <1>2, <1>3, <1>4, <2>1 DEF ReaderAt
<1>6. CASE ReadWire(s)
  <2>1. /\ partial'[s] = 0 /\ rseq'[s] = rseq[s] + 1
        /\ delivered'[s] = Append(d, IF partial[s] \in {0, n}
                                     THEN Decrypt(s, n) ELSE 0)
    BY <1>6 DEF ReadWire, TypeOK
  <2>2. Decrypt(s, n) = IF n = Len(d) + 1 THEN n ELSE 0
    BY DEF Decrypt
  <2>. HIDE DEF d, n, w
  <2>3. delivered'[s] = Append(d, Len(d) + 1)
    BY <1>1, <1>2, <2>1, <2>2
  <2>4. /\ Contiguous(Append(d, Len(d) + 1), 0)
        /\ Len(Append(d, Len(d) + 1)) = Len(d) + 1
    BY <1>2, ContiguousAppend
  <2>5. Contiguous(delivered'[s], 0) /\ Len(delivered'[s]) = Len(d) + 1
    BY <2>3, <2>4
  <2>6. /\ rseq'[s] = Len(delivered'[s]) + Len(localBuffer'[s])
        /\ rseq'[s] <= Len(written'[Peer(s)])
    <3>1. Len(localBuffer'[s]) = 0
      BY <1>3
    <3>2. rseq'[s] = Len(delivered'[s]) + Len(localBuffer'[s])
      <4>1. rseq'[s] = Len(d) + 1
        BY <1>1, <2>1
      <4>2. Len(delivered'[s]) + Len(localBuffer'[s]) = (Len(d) + 1) + 0
        BY <2>5, <3>1
      <4>3. (Len(d) + 1) + 0 = Len(d) + 1
        BY <1>2
      <4>. QED  BY <4>1, <4>2, <4>3
    <3>3. rseq'[s] <= Len(written'[Peer(s)])
      BY <1>1, <1>3, <2>1
    <3>. QED  BY <3>2, <3>3
  <2>7. Contiguous(localBuffer'[s], Len(delivered'[s]))
    BY <1>3, <1>4
  <2>. QED  BY <2>1, <2>5, <2>6, <2>7 DEF ReaderAt
<1>. QED  BY <1>5, <1>6

LEMMA ReviveReaderAt ==
  ASSUME TypeOK, TypeOK', ReaderInv, LinkInv, NEW s \in Sides, Revive(s)
  PROVE  ReaderAt(s)'
<1>0. PICK c \in Conns : attempt[s] = c
  BY TypedReads DEF Revive, LinkInv
<1>. DEFINE q == toward[s][c]
            a == localBuffer[s]
            b == q[1].buf
            w == Len(written[Peer(s)])
<1>1. q \in Seq(Message) /\ q # <<>> /\ Trying(s, c, "catchup")
  BY <1>0 DEF TypeOK, Arrived, Revive, Trying
<1>2. Len(q) \in Nat /\ Len(q) >= 1 /\ Head(q) = q[1] /\ Head(q) \in Message
  BY <1>1, TailFacts
<1>3. b \in Seq(Int)
  BY <1>2 DEF Message
<1>4. CatchupShape(q, rseq[s], w)
  BY <1>1 DEF LinkInv, ShapeInv, ShapeAt
<1>5. /\ rseq[s] \in Nat /\ w \in Nat /\ Len(delivered[s]) \in Nat
      /\ a \in Seq(Int) /\ Len(a) \in Nat
  BY ReaderTypes
<1>6. /\ written' = written /\ delivered' = delivered /\ partial'[s] = 0
      /\ localBuffer'[s] = a \o b /\ rseq'[s] = rseq[s] + Len(b)
  <2>1. Head(toward[s][c]).buf = b
    BY <1>2
  <2>2. ReviveReader(s, b) /\ written' = written /\ delivered' = delivered
    BY <1>0, <2>1 DEF Revive, writerVars
  <2>. HIDE DEF b
  <2>. QED  BY <1>3, <2>2, ReviveReaderFacts
<1>7. /\ Contiguous(delivered[s], 0) /\ Contiguous(a, Len(delivered[s]))
      /\ rseq[s] = Len(delivered[s]) + Len(a)
  BY DEF ReaderInv
<1>8. Len(written'[Peer(s)]) = w
  BY <1>6
<1>9. Len(b) \in Nat
  BY <1>3
<1>10. Contiguous(b, rseq[s]) /\ rseq[s] + Len(b) <= w
  <2>1. Contiguous(q[1].buf, rseq[s])
    BY <1>2, <1>4 DEF CatchupShape
  <2>2. rseq[s] + Len(q[1].buf) + Len(q) - 1 <= w
    BY <1>2, <1>4 DEF CatchupShape
  <2>. HIDE DEF q, w
  <2>. QED  BY <1>2, <1>5, <1>9, <2>1, <2>2
<1>. HIDE DEF q, a, b, w
<1>11. /\ Contiguous(a \o b, Len(delivered[s]))
       /\ Len(a \o b) = Len(a) + Len(b)
  BY <1>3, <1>5, <1>7, <1>10, ContiguousConcat
<1>12. /\ rseq'[s] = Len(delivered'[s]) + Len(localBuffer'[s])
       /\ rseq'[s] <= Len(written'[Peer(s)])
  <2>1. Len(delivered'[s]) = Len(delivered[s])
    BY <1>6
  <2>2. Len(localBuffer'[s]) = Len(a) + Len(b)
    BY <1>6, <1>11
  <2>3. rseq'[s] = rseq[s] + Len(b)
    BY <1>6
  <2>4. rseq[s] = Len(delivered[s]) + Len(a) /\ rseq[s] + Len(b) <= w
    BY <1>7, <1>10
  <2>5. /\ rseq[s] \in Nat /\ w \in Nat /\ Len(delivered[s]) \in Nat
        /\ Len(a) \in Nat /\ Len(b) \in Nat
    BY <1>5, <1>9
  <2>6. rseq'[s] = Len(delivered'[s]) + Len(localBuffer'[s])
    <3>1. \A x, y, z \in Nat : (x + y) + z = x + (y + z)
      OBVIOUS
    <3>2. rseq'[s] = (Len(delivered[s]) + Len(a)) + Len(b)
      BY <2>3, <2>4
    <3>3. rseq'[s] = Len(delivered[s]) + (Len(a) + Len(b))
      BY <2>5, <3>1, <3>2
    <3>. QED  BY <2>1, <2>2, <3>3
  <2>7. rseq'[s] <= Len(written'[Peer(s)])
    BY <1>8, <2>3, <2>4
  <2>. QED  BY <2>6, <2>7
<1>. QED  BY <1>6, <1>7, <1>11, <1>12 DEF ReaderAt

LEMMA ReaderStep ==
  ASSUME TypeOK, TypeOK', ReaderInv, LinkInv, Next,
         \A s \in Sides : Len(written[s]) <= Len(written'[s])
  PROVE  ReaderInv'
<1>. SUFFICES \A t \in Sides : ReaderAt(t)'
  BY DEF ReaderInv, ReaderAt
<1>1. ASSUME UNCHANGED readerVars
      PROVE  \A t \in Sides : ReaderAt(t)'
  BY <1>1, ReaderIdle DEF readerVars
<1>2. ASSUME NEW s \in Sides,
             ReadLocal(s) \/ ReadPart(s) \/ ReadWire(s) \/ Revive(s)
      PROVE  \A t \in Sides : ReaderAt(t)'
  <2>1. ReaderAt(s)'
    BY <1>2, ReadLocalReader, ReadWireReader, ReviveReaderAt
  <2>2. ASSUME NEW t \in Sides, t # s
        PROVE  /\ rseq'[t] = rseq[t] /\ localBuffer'[t] = localBuffer[t]
               /\ partial'[t] = partial[t] /\ delivered'[t] = delivered[t]
    <3>1. CASE ReadLocal(s)
      BY <2>2, <3>1 DEF ReadLocal, TypeOK
    <3>2. CASE ReadPart(s)
      BY <2>2, <3>2 DEF ReadPart, TypeOK
    <3>3. CASE ReadWire(s)
      BY <2>2, <3>3 DEF ReadWire, TypeOK
    <3>4. CASE Revive(s)
      <4>. DEFINE b == Head(toward[s][attempt[s]]).buf
      <4>1. /\ stage[s] # "idle" /\ Arrived(s, attempt[s], "catchup")
            /\ ReviveReader(s, b) /\ delivered' = delivered
        BY <3>4 DEF Revive
      <4>2. Head(toward[s][attempt[s]]) \in Message
        BY <4>1, TypedReads DEF LinkInv, Kinds
      <4>3. b \in Seq(Int)
        BY <4>2 DEF Message
      <4>. HIDE DEF b
      <4>. QED  BY <2>2, <4>1, <4>3, ReviveReaderFacts
    <3>. QED  BY <1>2, <3>1, <3>2, <3>3, <3>4
  <2>. QED  BY <2>1, <2>2, ReaderIdle
<1>3. ASSUME NEW s \in Sides, SideNext(s)
      PROVE  \/ UNCHANGED readerVars
             \/ ReadLocal(s) \/ ReadPart(s) \/ ReadWire(s) \/ Revive(s)
  BY <1>3 DEF SideNext, Write, WriteFails, ReadFails, SendCatchup,
              RefuseCatchup, AttemptFails, AttemptTimesOut
<1>4. ASSUME NEW c \in Conns, ConnNext(c)
      PROVE  UNCHANGED readerVars
  BY <1>4 DEF ConnNext, PollReconnect, AnswerReturning, AnswerNew,
              AnswerAfterReplacement, AnswerUnknown, RequestLost,
              BeginRecover, Break
<1>5. ASSUME ReadReturning \/ ReadRefusal \/ KeepaliveCloses \/ SessionEnds
               \/ ErasedCloses
      PROVE  UNCHANGED readerVars
  BY <1>5 DEF ReadReturning, ReadRefusal, KeepaliveCloses, SessionEnds,
              ErasedCloses
<1>. QED  BY <1>1, <1>2, <1>3, <1>4, <1>5 DEF Next

-----------------------------------------------------------------------------
(* The registry.                                                           *)

NoRefusal(net) ==
  \A c \in Conns : \A k \in 1 .. Len(net["client"][c]) :
    net["client"][c][k].kind # "INVALID_KEY"

LEMMA NoRefusalSent ==
  ASSUME NEW net \in [Sides -> [Conns -> Seq(Message)]], NoRefusal(net),
         NEW s \in Sides, NEW c \in Conns, NEW m \in Message,
         m.kind # "INVALID_KEY"
  PROVE  NoRefusal(Sent(net, s, c, m))
<1>. DEFINE x == Sent(net, s, c, m)
<1>1. \A t \in Sides, d \in Conns :
        x[t][d] = IF t = Peer(s) /\ d = c /\ Carries(s, c)
                  THEN Append(net[t][d], m) ELSE net[t][d]
  BY ZenonT(60), SentAt
<1>. HIDE DEF x
<1>2. ASSUME NEW d \in Conns, NEW k \in 1 .. Len(x["client"][d])
      PROVE  x["client"][d][k].kind # "INVALID_KEY"
  <2>. DEFINE q == net["client"][d]
              e == Append(q, m)
  <2>1. x["client"][d] = q \/ x["client"][d] = e
    BY <1>1, PeerType
  <2>2. q \in Seq(Message)
    BY PeerType
  <2>3. /\ Len(e) = Len(q) + 1 /\ Len(q) \in Nat
        /\ \A i \in 1 .. Len(q) : e[i] = q[i]
        /\ e[Len(q) + 1] = m
    BY <2>2, AppendFacts
  <2>4. \A i \in 1 .. Len(q) : q[i].kind # "INVALID_KEY"
    BY DEF NoRefusal
  <2>. HIDE DEF q, e
  <2>5. CASE x["client"][d] = q
    BY <2>4, <2>5
  <2>6. CASE x["client"][d] = e
    <3>1. k \in 1 .. Len(q) \/ k = Len(q) + 1
      BY <2>3, <2>6
    <3>. QED  BY <2>3, <2>4, <2>6, <3>1
  <2>. QED  BY <2>1, <2>5, <2>6
<1>. QED  BY <1>2 DEF NoRefusal, x

LEMMA NoRefusalConsumed ==
  ASSUME TypeOK, NoRefusal(toward), NEW s \in Sides, NEW c \in Conns,
         toward[s][c] # <<>>
  PROVE  NoRefusal(Consumed(s, c))
<1>. DEFINE x == Consumed(s, c)
<1>1. \A t \in Sides, d \in Conns :
        x[t][d] = IF t = s /\ d = c THEN Tail(toward[t][d]) ELSE toward[t][d]
  BY ConsumedAt
<1>. HIDE DEF x
<1>2. ASSUME NEW d \in Conns, NEW k \in 1 .. Len(x["client"][d])
      PROVE  x["client"][d][k].kind # "INVALID_KEY"
  <2>. DEFINE q == toward["client"][d]
              z == Tail(q)
  <2>1. x["client"][d] = q \/ (q # <<>> /\ x["client"][d] = z)
    BY <1>1, PeerType
  <2>2. q \in Seq(Message)
    BY PeerType DEF TypeOK
  <2>3. q # <<>> => /\ Len(z) = Len(q) - 1 /\ Len(q) \in Nat
                    /\ \A i \in 1 .. Len(q) - 1 : z[i] = q[i + 1]
    BY <2>2, TailFacts
  <2>4. \A i \in 1 .. Len(q) : q[i].kind # "INVALID_KEY"
    BY DEF NoRefusal
  <2>. HIDE DEF q, z
  <2>5. CASE x["client"][d] = q
    BY <2>4, <2>5
  <2>6. CASE q # <<>> /\ x["client"][d] = z
    <3>1. k + 1 \in 1 .. Len(q) /\ z[k] = q[k + 1]
      BY <2>3, <2>6
    <3>. QED  BY <2>4, <2>6, <3>1
  <2>. QED  BY <2>1, <2>5, <2>6
<1>. QED  BY <1>2 DEF NoRefusal, x

(* Side s takes a message and answers it.                                  *)
LEMMA NoRefusalReplied ==
  ASSUME TypeOK, NoRefusal(toward), NEW s \in Sides, NEW c \in Conns,
         toward[s][c] # <<>>, NEW m \in Message, m.kind # "INVALID_KEY"
  PROVE  NoRefusal(Replied(s, c, m))
<1>1. NoRefusal(Consumed(s, c))
  BY NoRefusalConsumed
<1>2. Consumed(s, c) \in [Sides -> [Conns -> Seq(Message)]]
  BY ConsumedAt
<1>. QED  BY <1>1, <1>2, NoRefusalSent DEF Replied

LEMMA RegistryStep ==
  ASSUME TypeOK, TypeOK', LinkInv, RegistryInv, Next
  PROVE  RegistryInv'
<1>. SUFFICES /\ registry = "erased" => registry' = "erased"
              /\ shuttingDown' => shuttingDown \/ registry = "erased"
              /\ registry' # "erased" => NoRefusal(toward')
  BY DEF RegistryInv, NoRefusal
<1>. USE DEF sideVars, serverVars, netVars
<1>0. /\ toward \in [Sides -> [Conns -> Seq(Message)]]
      /\ registry # "erased" => NoRefusal(toward)
      /\ "client" \in Sides /\ "server" \in Sides
      /\ \A s \in Sides, len \in Nat : Framed(Len(written[s]) + 1) \in Message
      /\ \A s \in Sides : Framed(Len(written[s]) + 1).kind = "packet"
  <2>1. \A s \in Sides : Len(written[s]) + 1 \in Int
    BY DEF TypeOK
  <2>. QED  BY <2>1, PeerType, MessageType
            DEF TypeOK, RegistryInv, NoRefusal, Framed
<1>1. ASSUME NEW s \in Sides, NEW len \in Lengths, Write(s, len)
      PROVE  /\ registry' = registry /\ shuttingDown' = shuttingDown
             /\ registry # "erased" => NoRefusal(toward')
  <2>1. socket[s] \in Conns
    BY <1>1, TypedReads DEF Write, LinkInv
  <2>2. Framed(Len(written[s]) + 1) \in Message
    BY <1>0, LengthsAssumption
  <2>. QED  BY <1>0, <1>1, <2>1, <2>2, NoRefusalSent DEF Write
<1>2. ASSUME UNCHANGED <<shuttingDown, toward>>,
             registry = "erased" => registry' = "erased"
      PROVE  /\ registry = "erased" => registry' = "erased"
             /\ shuttingDown' => shuttingDown \/ registry = "erased"
             /\ registry' # "erased" => NoRefusal(toward')
  BY <1>0, <1>2
<1>3. ASSUME NEW s \in Sides,
             \/ \E len \in Lengths : WriteFails(s, len)
             \/ ReadLocal(s) \/ ReadPart(s) \/ ReadFails(s)
             \/ AttemptFails(s) \/ AttemptTimesOut(s)
      PROVE  UNCHANGED <<shuttingDown, toward, registry>>
  BY <1>3 DEF WriteFails, ReadLocal, ReadPart, ReadFails, AttemptFails,
              AttemptTimesOut
<1>4. ASSUME \/ KeepaliveCloses \/ SessionEnds \/ ErasedCloses
             \/ \E c \in Conns : RequestLost(c)
      PROVE  /\ UNCHANGED <<shuttingDown, toward>>
             /\ registry = "erased" => registry' = "erased"
  BY <1>4 DEF KeepaliveCloses, SessionEnds, ErasedCloses, RequestLost
<1>5. ASSUME NEW s \in Sides, ReadWire(s)
      PROVE  /\ registry' = registry /\ shuttingDown' = shuttingDown
             /\ registry # "erased" => NoRefusal(toward')
  <2>1. socket[s] \in Conns /\ toward[s][socket[s]] # <<>>
    BY <1>5, TypedReads DEF ReadWire, LinkInv, Kinds
  <2>. QED  BY <1>0, <1>5, <2>1, NoRefusalConsumed DEF ReadWire
<1>6. ASSUME NEW s \in Sides, RefuseCatchup(s) \/ Revive(s)
      PROVE  /\ registry' = registry /\ shuttingDown' = shuttingDown
             /\ registry # "erased" => NoRefusal(toward')
  <2>1. attempt[s] \in Conns /\ toward[s][attempt[s]] # <<>>
    BY <1>6, TypedReads DEF RefuseCatchup, Revive, LinkInv, Kinds
  <2>. QED  BY <1>0, <1>6, <2>1, NoRefusalConsumed DEF RefuseCatchup, Revive
<1>7. ASSUME NEW s \in Sides, SendCatchup(s)
      PROVE  /\ registry' = registry /\ shuttingDown' = shuttingDown
             /\ registry # "erased" => NoRefusal(toward')
  <2>. DEFINE c == attempt[s]
              n == Head(toward[s][c]).num
              m == CatchupBuffer(Recovered(s, n))
  <2>1. c \in Conns /\ toward[s][c] # <<>> /\ n \in Int
    BY <1>7, TypedReads DEF SendCatchup, LinkInv, Kinds, Message
  <2>2. m \in Message
    BY <1>7, <2>1, RecoveredType, MessageType DEF SendCatchup
  <2>3. m.kind # "INVALID_KEY"
    BY DEF CatchupBuffer
  <2>4. /\ toward' = Replied(s, c, m)
        /\ registry' = registry /\ shuttingDown' = shuttingDown
    BY <1>7 DEF SendCatchup
  <2>. HIDE DEF c, m
  <2>. QED  BY <1>0, <2>1, <2>2, <2>3, <2>4, NoRefusalReplied
<1>8. ASSUME NEW c \in Conns, PollReconnect(c)
      PROVE  /\ registry' = registry /\ shuttingDown' = shuttingDown
             /\ registry # "erased" => NoRefusal(toward')
  <2>1. /\ registry' = registry /\ shuttingDown' = shuttingDown
        /\ toward' = [s \in Sides |-> [toward[s] EXCEPT ![c] = <<>>]]
    BY <1>8 DEF PollReconnect
  <2>2. \A d \in Conns :
          toward'["client"][d] = IF d = c THEN <<>> ELSE toward["client"][d]
    BY <1>0, <2>1
  <2>. QED  BY <1>0, <2>1, <2>2 DEF NoRefusal
<1>9. ASSUME NEW c \in Conns, BeginRecover(c)
      PROVE  /\ registry' = registry /\ shuttingDown' = shuttingDown
             /\ registry # "erased" => NoRefusal(toward')
  BY <1>0, <1>9, HeaderType, NoRefusalSent DEF BeginRecover
<1>10. ASSUME ReadReturning
       PROVE  /\ registry' = registry /\ shuttingDown' = shuttingDown
              /\ registry # "erased" => NoRefusal(toward')
  <2>1. attempt["client"] \in Conns /\ toward["client"][attempt["client"]] # <<>>
    BY <1>0, <1>10, TypedReads DEF ReadReturning, LinkInv, Kinds
  <2>. QED  BY <1>0, <1>10, <2>1, HeaderType, NoRefusalReplied
            DEF ReadReturning
<1>11. ASSUME NEW c \in Conns,
              AnswerReturning(c) \/ AnswerNew(c) \/ AnswerUnknown(c)
       PROVE  /\ registry = "erased" => registry' = "erased"
              /\ shuttingDown' = shuttingDown
              /\ registry' # "erased" => NoRefusal(toward')
  <2>1. \A k \in Answers : /\ Response(k) \in Message
                           /\ Response(k).kind = k
    BY MessageType DEF Response
  <2>2. CASE AnswerReturning(c)
    <3>1. Response("RETURNING_CLIENT") \in Message
          /\ Response("RETURNING_CLIENT").kind # "INVALID_KEY"
      BY <2>1 DEF Answers
    <3>. QED  BY <1>0, <2>2, <3>1, NoRefusalSent DEF AnswerReturning
  <2>3. CASE AnswerNew(c)
    <3>1. Response("NEW_CLIENT") \in Message
          /\ Response("NEW_CLIENT").kind # "INVALID_KEY"
      BY <2>1 DEF Answers
    <3>. QED  BY <1>0, <2>3, <3>1, NoRefusalSent DEF AnswerNew
  <2>4. CASE AnswerUnknown(c)
    BY <2>4 DEF AnswerUnknown
  <2>. QED  BY <1>11, <2>2, <2>3, <2>4
<1>12. ASSUME NEW c \in Conns, AnswerAfterReplacement(c)
       PROVE  /\ registry' = registry /\ shuttingDown' = shuttingDown
              /\ registry # "erased" => NoRefusal(toward')
  <2>. DEFINE m == Response("RETURNING_CLIENT")
              h == SequenceHeader(ToInt32(0))
              q == toward["client"][c]
  <2>1. registry' = registry /\ shuttingDown' = shuttingDown /\ c \in requests
    BY <1>12 DEF AnswerAfterReplacement
  <2>2. q = <<>>
    BY <2>1 DEF LinkInv, WaitingInv
  <2>3. Response("NEW_CLIENT") \in Message
        /\ Response("NEW_CLIENT").kind # "INVALID_KEY"
    BY MessageType DEF Answers, Response
  <2>4. CASE toward' = Sent(toward, "server", c, Response("NEW_CLIENT"))
    BY <1>0, <2>1, <2>3, <2>4, NoRefusalSent
  <2>5. CASE toward' = IF Carries("server", c)
                       THEN [toward EXCEPT !["client"][c] = @ \o <<m, h>>]
                       ELSE toward
    <3>1. <<>> \o <<m, h>> = <<m, h>>
      OBVIOUS
    <3>2. \A d \in Conns :
            \/ toward'["client"][d] = toward["client"][d]
            \/ toward'["client"][d] = <<m, h>>
      <4>. HIDE DEF m, h
      <4>. QED  BY <1>0, <2>2, <2>5, <3>1
    <3>3. \A k \in 1 .. 2 : <<m, h>>[k].kind # "INVALID_KEY"
      BY DEF Response, SequenceHeader
    <3>4. Len(<<m, h>>) = 2
      OBVIOUS
    <3>. HIDE DEF m, h
    <3>. QED  BY <1>0, <2>1, <3>2, <3>3, <3>4 DEF NoRefusal
  <2>. QED  BY <1>12, <2>4, <2>5 DEF AnswerAfterReplacement
<1>13. ASSUME NEW c \in Conns, Break(c)
       PROVE  /\ registry' = registry /\ shuttingDown' = shuttingDown
              /\ registry # "erased" => NoRefusal(toward')
  <2>1. registry' = registry /\ shuttingDown' = shuttingDown
    BY <1>13 DEF Break
  <2>2. PICK i \in 0 .. Len(toward["client"][c]),
             j \in 0 .. Len(toward["server"][c]) :
          toward' = [toward EXCEPT !["client"][c] = SubSeq(@, 1, i),
                                   !["server"][c] = SubSeq(@, 1, j)]
    BY <1>13 DEF Break
  <2>. DEFINE q == toward["client"][c]
              x == SubSeq(q, 1, i)
  <2>3. /\ toward'["client"][c] = x
        /\ \A d \in Conns : d # c => toward'["client"][d] = toward["client"][d]
    BY <1>0, <2>2
  <2>4. Len(x) = i /\ (\A k \in 1 .. i : x[k] = q[k]) /\ Len(q) \in Nat
    <3>1. q \in Seq(Message)
      BY <1>0
    <3>. HIDE DEF q
    <3>. QED  BY <3>1, PrefixFacts DEF q
  <2>. HIDE DEF x
  <2>5. \A k \in 1 .. Len(x) : k \in 1 .. Len(q) /\ x[k] = q[k]
    BY <2>2, <2>4
  <2>. QED  BY <1>0, <2>1, <2>3, <2>5 DEF NoRefusal
<1>14. CASE ReadRefusal
  <2>. DEFINE c == attempt["client"]
              q == toward["client"][c]
  <2>1. c \in Conns /\ q # <<>> /\ q \in Seq(Message)
    <3>1. c \in Conns /\ q # <<>>
      BY <1>0, <1>14, TypedReads DEF ReadRefusal, LinkInv, Kinds
    <3>. QED  BY <1>0, <3>1
  <2>2. registry' = registry /\ toward' = Consumed("client", c)
    BY <1>14 DEF ReadRefusal
  <2>3. shuttingDown' = shuttingDown \/ Head(q).kind = "INVALID_KEY"
    BY <1>14 DEF ReadRefusal, Arrived
  <2>4. Head(q) = q[1] /\ Len(q) \in Nat /\ Len(q) >= 1
    BY <2>1, TailFacts
  <2>5. Head(q).kind = "INVALID_KEY" => registry = "erased"
    <3>1. 1 \in 1 .. Len(q)
      BY <2>4
    <3>. QED  BY <2>1, <2>4, <3>1 DEF RegistryInv
  <2>6. registry # "erased" => NoRefusal(toward')
    BY <1>0, <2>1, <2>2, NoRefusalConsumed
  <2>. QED  BY <2>2, <2>3, <2>5, <2>6
<1>. QED  BY <1>1, <1>2, <1>3, <1>4, <1>5, <1>6, <1>7, <1>8, <1>9, <1>10,
             <1>11, <1>12, <1>13, <1>14 DEF Next, SideNext, ConnNext

-----------------------------------------------------------------------------
(* The invariant.                                                          *)

LEMMA IInvParts == IInv <=> TypeOK /\ ReaderInv /\ WriterInv /\ LinkInv
                              /\ RegistryInv
  BY DEF IInv, LinkInv

LEMMA InitInv == Init => IInv
<1>. SUFFICES ASSUME Init PROVE IInv
  OBVIOUS
<1>1. PICK c \in Conns, l \in [Sides -> {x \in Lengths : x <= MaxBackupBytes}] :
        /\ socket = [s \in Sides |-> c]
        /\ attempt = [s \in Sides |-> NoConn]
        /\ stage = [s \in Sides |-> "idle"]
        /\ shuttingDown = FALSE
        /\ written = [s \in Sides |-> <<l[s]>>]
        /\ evicted = [s \in Sides |-> 0]
        /\ rseq = [s \in Sides |-> 1]
        /\ localBuffer = [s \in Sides |-> <<>>]
        /\ partial = [s \in Sides |-> 0]
        /\ delivered = [s \in Sides |-> <<1>>]
        /\ toward = [s \in Sides |-> [d \in Conns |-> <<>>]]
        /\ open = [s \in Sides |-> {c}]
        /\ broken = {}
        /\ requests = {}
        /\ pending = {}
        /\ registry = "kept"
        /\ faults = 0
  BY DEF Init
<1>2. /\ \A s \in Sides : l[s] \in Nat /\ l[s] >= 1 /\ l[s] <= MaxBackupBytes
      /\ c # NoConn
      /\ \A s \in Sides : Peer(s) \in Sides
  <2>1. \A s \in Sides : l[s] \in Lengths /\ l[s] <= MaxBackupBytes
    OBVIOUS
  <2>2. \A n \in Lengths : n \in Nat /\ n # 0
    BY LengthsAssumption
  <2>3. \A n \in Nat : n # 0 => n >= 1
    OBVIOUS
  <2>4. c # NoConn
    BY ConnsAssumption
  <2>5. \A s \in Sides : Peer(s) \in Sides
    BY PeerType
  <2>. QED  BY <2>1, <2>2, <2>3, <2>4, <2>5
<1>3. TypeOK
  <2>1. \A s \in Sides : <<l[s]>> \in Seq(Nat)
    BY <1>2
  <2>2. <<1>> \in Seq(Nat) /\ <<>> \in Seq(Int) /\ <<>> \in Seq(Message)
    OBVIOUS
  <2>3. /\ written \in [Sides -> Seq(Nat)]
        /\ delivered \in [Sides -> Seq(Nat)]
        /\ localBuffer \in [Sides -> Seq(Int)]
        /\ toward \in [Sides -> [Conns -> Seq(Message)]]
    BY <1>1, <2>1, <2>2
  <2>4. faults \in 0 .. MaxFaults
    BY <1>1, BoundsAssumption
  <2>5. /\ socket \in [Sides -> Conns \cup {NoConn}]
        /\ attempt \in [Sides -> Conns \cup {NoConn}]
        /\ stage \in [Sides -> Stages]
        /\ shuttingDown \in BOOLEAN
    BY <1>1 DEF Stages
  <2>6. /\ evicted \in [Sides -> Nat]
        /\ rseq \in [Sides -> Nat]
        /\ partial \in [Sides -> Int]
    BY <1>1
  <2>7. /\ open \in [Sides -> SUBSET Conns]
        /\ broken \subseteq Conns
        /\ requests \subseteq Conns
        /\ pending \subseteq Conns
        /\ registry \in {"kept", "replaced", "erased"}
    BY <1>1
  <2>. QED  BY <2>3, <2>4, <2>5, <2>6, <2>7 DEF TypeOK
<1>4. ReaderInv
  <2>. SUFFICES ASSUME NEW s \in Sides
       PROVE  /\ rseq[s] = Len(delivered[s]) + Len(localBuffer[s])
              /\ Contiguous(delivered[s], 0)
              /\ Contiguous(localBuffer[s], Len(delivered[s]))
              /\ partial[s] \in {0, rseq[s] + 1}
              /\ rseq[s] <= Len(written[Peer(s)])
    BY DEF ReaderInv
  <2>1. /\ rseq[s] = 1 /\ delivered[s] = <<1>> /\ localBuffer[s] = <<>>
        /\ partial[s] = 0 /\ Len(written[Peer(s)]) = 1
    BY <1>1, <1>2
  <2>2. Contiguous(<<1>>, 0) /\ Contiguous(<<>>, 1)
    BY DEF Contiguous
  <2>. QED  BY <2>1, <2>2
<1>5. WriterInv
  <2>. SUFFICES ASSUME NEW s \in Sides
       PROVE  /\ \A i, j \in 0 .. Len(written[s]) :
                   i <= j => BytesUpTo(written[s], j)
                               - BytesUpTo(written[s], i) >= j - i
              /\ evicted[s] <= Len(written[s])
              /\ TotalBytes(written[s]) - BytesUpTo(written[s], evicted[s])
                   <= MaxBackupBytes
    BY DEF WriterInv
  <2>1. written[s] = <<l[s]>> /\ evicted[s] = 0
    BY <1>1
  <2>2. /\ Len(written[s]) = 1
        /\ BytesUpTo(written[s], 0) = 0 /\ BytesUpTo(written[s], 1) = l[s]
        /\ TotalBytes(written[s]) = l[s]
    BY <2>1 DEF BytesUpTo, TotalBytes
  <2>3. \A i \in 0 .. 1 : i = 0 \/ i = 1
    OBVIOUS
  <2>4. \A i, j \in 0 .. Len(written[s]) :
          i <= j => BytesUpTo(written[s], j) - BytesUpTo(written[s], i) >= j - i
    BY <1>2, <2>2, <2>3
  <2>. QED  BY <1>2, <2>1, <2>2, <2>4, BackupAssumption
<1>6. \A s \in Sides, d \in Conns :
        /\ \A st \in {"response", "header", "catchup"} : ~Trying(s, d, st)
        /\ socket[s] = d <=> d = c
        /\ CaughtUp(s, d) <=> d = c
        /\ OnConn(s, d) <=> d = c
        /\ toward[s][d] = <<>>
  BY <1>1, ConnsAssumption DEF Trying, CaughtUp, OnConn
<1>7. PlaceInv
  <2>1. \A s \in Sides, d \in Conns : OnConn(s, d) => d \in open[s]
    BY <1>1, <1>6
  <2>. QED  BY <1>1, <2>1, PeerType DEF PlaceInv
<1>8. WaitingInv
  BY <1>1 DEF WaitingInv
<1>9. \A s \in Sides, d \in Conns : Links(s, d)
  <2>. SUFFICES ASSUME NEW s \in Sides, NEW d \in Conns
       PROVE  Links(s, d)
    OBVIOUS
  <2>1. rseq[s] = 1 /\ Len(written[Peer(s)]) = 1 /\ toward[s][d] = <<>>
    BY <1>1, <1>2, <1>6
  <2>2. PacketShape(<<>>, 1, 1)
    BY DEF PacketShape
  <2>3. ShapeAt(s, d)
    BY <1>6, <2>1, <2>2 DEF ShapeAt
  <2>4. OrderAt(s, d)
    BY <1>6 DEF OrderAt
  <2>5. CompleteAt(s, d)
    BY <1>2, <1>6, <2>1 DEF CompleteAt
  <2>. QED  BY <2>3, <2>4, <2>5 DEF Links
<1>10. RegistryInv
  <2>1. \A d \in Conns : toward["client"][d] = <<>>
    BY <1>6, PeerType
  <2>. QED  BY <1>1, <2>1 DEF RegistryInv
<1>. QED  BY <1>3, <1>4, <1>5, <1>7, <1>8, <1>9, <1>10, IInvParts
          DEF LinkInv, ShapeInv, OrderInv, CompleteInv, Links

LEMMA StepInv == IInv /\ [Next]_vars => IInv'
<1>. SUFFICES ASSUME IInv, [Next]_vars PROVE IInv'
  OBVIOUS
<1>1. CASE Next
  <2>1. TypeOK /\ ReaderInv /\ WriterInv /\ LinkInv /\ RegistryInv
    BY IInvParts
  <2>2. TypeOK'
    BY <1>1, <2>1, TypeStep DEF LinkInv
  <2>3. WriterInv' /\ \A s \in Sides : Len(written[s]) <= Len(written'[s])
    BY <1>1, <2>1, WriterStep
  <2>4. LinkInv'
    BY <1>1, <2>1, <2>2, LinkStep
  <2>5. ReaderInv'
    BY <1>1, <2>1, <2>2, <2>3, ReaderStep
  <2>6. RegistryInv'
    BY <1>1, <2>1, <2>2, RegistryStep
  <2>. QED  BY <2>2, <2>3, <2>4, <2>5, <2>6, IInvParts DEF LinkInv, IInv
<1>2. CASE UNCHANGED vars
  <2>. USE <1>2 DEF vars, sideVars, writerVars, readerVars, netVars, serverVars
  <2>1. TypeOK'
    BY DEF IInv, TypeOK
  <2>2. ReaderInv' /\ WriterInv'
    BY DEF IInv, ReaderInv, WriterInv
  <2>3. LinkInv'
    BY StutterStep, IInvParts
  <2>4. RegistryInv'
    BY DEF IInv, RegistryInv
  <2>. QED  BY <2>1, <2>2, <2>3, <2>4 DEF IInv, LinkInv
<1>. QED  BY <1>1, <1>2

(* IInv holds in every state the two sides, the network and the handlers   *)
(* can reach: the inductive invariant of Connection::Recover.              *)
THEOREM Invariance == Spec => []IInv
<1>. QED  BY InitInv, StepInv, PTL DEF Spec

(* Every variable keeps its type.  The proof needs PlaceInv: the messages  *)
(* an attempt sends and takes are on a connection it really holds.         *)
THEOREM TypeCorrect == Spec => []TypeOK
<1>1. IInv => TypeOK
  BY DEF IInv
<1>. QED  BY <1>1, Invariance, PTL

(* BackedReader::Read returns the packets of the peer's BackedWriter in    *)
(* order, none missing, none twice, and Decrypt never throws, over any     *)
(* number of breaks, refusals and recoveries.                              *)
THEOREM Delivery == Spec => []InOrderDelivery
<1>1. IInv => InOrderDelivery
  <2>. SUFFICES ASSUME IInv, NEW s \in Sides,
                       NEW k \in 1 .. Len(delivered[s])
       PROVE  delivered[s][k] = k
    BY DEF InOrderDelivery
  <2>1. Contiguous(delivered[s], 0)
    BY DEF IInv, ReaderInv
  <2>2. delivered[s][k] = 0 + k
    BY <2>1 DEF Contiguous
  <2>3. k \in Int
    OBVIOUS
  <2>. QED  BY <2>2, <2>3
<1>. QED  BY <1>1, Invariance, PTL

(* BackedReader::sequence_number_ never runs ahead of what the peer wrote  *)
(* or of what Read has returned or will return.                            *)
THEOREM Announced == Spec => []AnnouncedIsHeld
<1>1. IInv => AnnouncedIsHeld
  BY DEF IInv, ReaderInv, AnnouncedIsHeld
<1>. QED  BY <1>1, Invariance, PTL

(* When both ends have been revived on one working connection, nothing is  *)
(* missing between them.                                                   *)
THEOREM Complete == Spec => []ConnectedMeansComplete
<1>1. IInv => ConnectedMeansComplete
  <2>. SUFFICES ASSUME IInv, NEW s \in Sides, NEW c \in Conns,
                       socket[s] = c, socket[Peer(s)] = c, c \notin broken
       PROVE  Len(written[Peer(s)]) = rseq[s] + Len(toward[s][c])
    BY DEF ConnectedMeansComplete, IInv, TypeOK
  <2>1. CompleteAt(s, c)
    BY DEF IInv, CompleteInv
  <2>. QED  BY <2>1 DEF CompleteAt, CaughtUp
<1>. QED  BY <1>1, Invariance, PTL

(* The client's PollReconnect gives up for good only when the registry has *)
(* forgotten the session.                                                  *)
THEOREM Shutdown == Spec => []ShutdownMeansErased
<1>1. IInv => ShutdownMeansErased
  BY DEF IInv, RegistryInv, ShutdownMeansErased
<1>. QED  BY <1>1, Invariance, PTL

-----------------------------------------------------------------------------
(* Action properties and refinement.                                       *)

LEMMA SocketStep ==
  ASSUME TypeOK, PlaceInv, Next, NEW s \in Sides, socket[s] # NoConn
  PROVE  socket'[s] \in {socket[s], NoConn}
<1>. DEFINE Kept == socket'[s] \in {socket[s], NoConn}
<1>0. socket \in [Sides -> Conns \cup {NoConn}]
  BY DEF TypeOK
<1>1. UNCHANGED socket => Kept
  OBVIOUS
<1>2. ASSUME NEW t \in Sides, socket' = [socket EXCEPT ![t] = NoConn]
      PROVE  Kept
  BY <1>0, <1>2
<1>3. ASSUME NEW t \in Sides, SideNext(t) PROVE Kept
  <2>1. ASSUME NEW len \in Lengths, Write(t, len) \/ WriteFails(t, len)
        PROVE  Kept
    BY <2>1, <1>1, <1>2 DEF Write, WriteFails, sideVars, CloseSocket
  <2>2. ReadLocal(t) \/ ReadPart(t) \/ ReadWire(t) => Kept
    BY <1>1 DEF ReadLocal, ReadPart, ReadWire, sideVars
  <2>3. ReadFails(t) => Kept
    BY <1>2 DEF ReadFails, CloseSocket
  <2>4. SendCatchup(t) \/ RefuseCatchup(t) \/ AttemptFails(t)
          \/ AttemptTimesOut(t) => Kept
    BY <1>1 DEF SendCatchup, RefuseCatchup, AttemptFails, AttemptTimesOut
  <2>5. Revive(t) => Kept
    <3>. SUFFICES ASSUME Revive(t) PROVE Kept
      OBVIOUS
    <3>1. stage[t] = "catchup" /\ socket' = [socket EXCEPT ![t] = attempt[t]]
      BY DEF Revive
    <3>2. socket[t] = NoConn
      BY <3>1 DEF PlaceInv
    <3>. QED  BY <1>0, <3>1, <3>2
  <2>. QED  BY <1>3, <2>1, <2>2, <2>3, <2>4, <2>5 DEF SideNext
<1>4. ASSUME NEW c \in Conns, ConnNext(c) PROVE Kept
  BY <1>4, <1>1 DEF ConnNext, PollReconnect, AnswerReturning, AnswerNew,
     AnswerAfterReplacement, AnswerUnknown, RequestLost, BeginRecover, Break,
     sideVars
<1>5. ReadReturning \/ ReadRefusal \/ SessionEnds => Kept
  BY <1>1 DEF ReadReturning, ReadRefusal, SessionEnds, sideVars
<1>6. KeepaliveCloses \/ ErasedCloses => Kept
  BY <1>2 DEF KeepaliveCloses, ErasedCloses, CloseSocket, Sides
<1>. QED  BY <1>3, <1>4, <1>5, <1>6 DEF Next

(* No step swaps a live connection for another one: Recover takes a new    *)
(* socket only where BackedWriter::Recover has found the old one closed,   *)
(* and recover_mutex_ keeps it closed until Revive.                        *)
THEOREM NotReplaced == Spec => LiveSocketIsNotReplaced
<1>1. IInv /\ [Next]_vars =>
        [\A s \in Sides :
           socket[s] # NoConn => socket'[s] \in {socket[s], NoConn}]_vars
  BY SocketStep DEF IInv
<1>. QED  BY <1>1, Invariance, PTL DEF Spec, LiveSocketIsNotReplaced

-----------------------------------------------------------------------------
(* What a writer refuses.                                                  *)

(* The bound on the packets of a side.                                     *)
WrittenInv == \A s \in Sides : Len(written[s]) <= MaxPackets

LEMMA InitWritten ==
  ASSUME MaxPackets >= 1, Init
  PROVE  WrittenInv
<1>1. PICK l \in [Sides -> Lengths] : written = [s \in Sides |-> <<l[s]>>]
  BY DEF Init
<1>2. \A s \in Sides : written[s] = <<l[s]>> /\ Len(<<l[s]>>) = 1
  BY <1>1
<1>. QED  BY <1>2 DEF WrittenInv

(* While the numbers are below 2^31 they arrive as they were sent.         *)
LEMMA SmallIsExact ==
  ASSUME NEW n \in Nat, n < HalfRange
  PROVE  ToInt32(n) = n
  BY RangeAssumption DEF ToInt32

(* The header a side finds from a peer that still waits on the same        *)
(* connection announces the number of the peer's reader.                   *)
LEMMA HeaderAnnounces ==
  ASSUME IInv, NEW s \in Sides, NEW c \in Conns, Arrived(s, c, "header"),
         attempt[Peer(s)] = c
  PROVE  Head(toward[s][c]).num = ToInt32(rseq[Peer(s)])
<1>1. Peer(s) \in Sides /\ Peer(Peer(s)) = s
  BY PeerType
<1>2. stage[Peer(s)] \in {"response", "header", "catchup"}
  BY <1>1, ConnsAssumption DEF IInv, TypeOK, PlaceInv, Stages
<1>3. OrderAt(Peer(s), c)
  BY <1>1 DEF IInv, OrderInv
<1>4. toward[s][c] \in Seq(Message) /\ toward[s][c] # <<>>
  BY DEF IInv, TypeOK, Arrived
<1>5. Len(toward[s][c]) >= 1 /\ Head(toward[s][c]) = toward[s][c][1]
  BY <1>4
<1>6. toward[s][c][1].kind = "header"
  BY <1>5 DEF Arrived
<1>. QED  BY <1>1, <1>2, <1>3, <1>4, <1>5, <1>6 DEF OrderAt, Trying

(* An attempt that ends over the peer's header ends because the writer     *)
(* throws.                                                                 *)
LEMMA OnlyTheWriterRefuses ==
  ASSUME IInv, Next, NEW s \in Sides, stage[s] = "header",
         toward'[s][attempt[s]] # toward[s][attempt[s]], attempt'[s] = NoConn
  PROVE  ~CanRecover(s, Head(toward[s][attempt[s]]).num)
<1>. DEFINE Refused == ~CanRecover(s, Head(toward[s][attempt[s]]).num)
<1>0. attempt \in [Sides -> Conns \cup {NoConn}]
  BY DEF IInv, TypeOK
<1>1. attempt[s] # NoConn
  BY DEF IInv, PlaceInv
<1>2. attempt' # attempt
  BY <1>1
<1>3. toward' # toward
  OBVIOUS
<1>4. ASSUME NEW t \in Sides, SideNext(t) PROVE Refused
  <2>1. ASSUME NEW len \in Lengths, Write(t, len) \/ WriteFails(t, len)
        PROVE  Refused
    BY <2>1, <1>2 DEF Write, WriteFails, sideVars
  <2>2. ReadLocal(t) \/ ReadPart(t) \/ ReadWire(t) \/ ReadFails(t) => Refused
    BY <1>2 DEF ReadLocal, ReadPart, ReadWire, ReadFails, sideVars
  <2>3. SendCatchup(t) => Refused
    BY <1>2 DEF SendCatchup
  <2>4. RefuseCatchup(t) => Refused
    <3>. SUFFICES ASSUME RefuseCatchup(t) PROVE Refused
      OBVIOUS
    <3>1. attempt' = [attempt EXCEPT ![t] = NoConn]
      BY DEF RefuseCatchup, GiveUp
    <3>2. t = s
      BY <3>1, <1>0, <1>1
    <3>. QED  BY <3>2 DEF RefuseCatchup
  <2>5. Revive(t) => Refused
    <3>. SUFFICES ASSUME Revive(t) PROVE Refused
      OBVIOUS
    <3>1. attempt' = [attempt EXCEPT ![t] = NoConn] /\ stage[t] = "catchup"
      BY DEF Revive
    <3>. QED  BY <3>1, <1>0, <1>1
  <2>6. AttemptFails(t) \/ AttemptTimesOut(t) => Refused
    BY <1>3 DEF AttemptFails, AttemptTimesOut
  <2>. QED  BY <1>4, <2>1, <2>2, <2>3, <2>4, <2>5, <2>6 DEF SideNext
<1>5. ASSUME NEW c \in Conns, ConnNext(c) PROVE Refused
  <2>1. CASE PollReconnect(c) \/ BeginRecover(c)
    BY <2>1, <1>0, <1>1, ConnsAssumption, PeerType DEF PollReconnect, BeginRecover
  <2>2. CASE ~(PollReconnect(c) \/ BeginRecover(c))
    BY <2>2, <1>2, <1>5 DEF ConnNext, AnswerReturning, AnswerNew,
       AnswerAfterReplacement, AnswerUnknown, RequestLost, Break, sideVars
  <2>. QED  BY <2>1, <2>2
<1>6. ReadReturning \/ SessionEnds \/ KeepaliveCloses \/ ErasedCloses => Refused
  BY <1>2 DEF ReadReturning, SessionEnds, KeepaliveCloses, ErasedCloses, sideVars
<1>7. ReadRefusal => Refused
  BY <1>0, <1>1, PeerType DEF ReadRefusal
<1>. QED  BY <1>4, <1>5, <1>6, <1>7 DEF Next

LEMMA RefusalStep ==
  ASSUME IInv, WrittenInv, MaxPackets \in 1 .. HalfRange - 1, Next, NEW s \in Sides,
         stage[s] = "header", Arrived(s, attempt[s], "header"),
         toward'[s][attempt[s]] # toward[s][attempt[s]],
         attempt'[s] = NoConn, attempt[Peer(s)] = attempt[s]
  PROVE  socket[s] # NoConn \/ rseq[Peer(s)] < evicted[s]
<1>. DEFINE n == rseq[Peer(s)]
            w == Len(written[s])
<1>1. attempt[s] \in Conns
  BY DEF IInv, TypeOK, PlaceInv
<1>2. Peer(s) \in Sides /\ Peer(Peer(s)) = s
  BY PeerType
<1>3. n \in Nat /\ w \in Nat /\ evicted[s] \in Nat
  BY <1>2 DEF IInv, TypeOK
<1>4. n <= w
  BY <1>2 DEF IInv, ReaderInv
<1>5. n < HalfRange
  BY <1>3, <1>4, RangeAssumption, BoundsAssumption DEF WrittenInv
<1>6. Head(toward[s][attempt[s]]).num = n
  BY <1>1, <1>3, <1>5, HeaderAnnounces, SmallIsExact
<1>7. ~CanRecover(s, n)
  BY <1>6, OnlyTheWriterRefuses
<1>. QED  BY <1>3, <1>4, <1>7 DEF CanRecover

LEMMA WrittenStep ==
  ASSUME TypeOK, WrittenInv, [Next]_vars
  PROVE  WrittenInv'
<1>1. UNCHANGED written => WrittenInv'
  BY DEF WrittenInv
<1>2. ASSUME NEW t \in Sides, NEW len \in Lengths, BackUp(t, len)
      PROVE  WrittenInv'
  <2>. DEFINE m == Append(written[t], TotalBytes(written[t]) + len)
  <2>1. Len(written[t]) < MaxPackets /\ written' = [written EXCEPT ![t] = m]
    BY <1>2 DEF BackUp
  <2>2. Len(m) = Len(written[t]) + 1
    BY DEF TypeOK
  <2>3. Len(written[t]) + 1 <= MaxPackets
    BY <2>1, BoundsAssumption DEF TypeOK
  <2>. QED  BY <2>1, <2>2, <2>3 DEF TypeOK, WrittenInv
<1>3. ASSUME NEW t \in Sides, SideNext(t) PROVE WrittenInv'
  <2>1. ASSUME NEW len \in Lengths, Write(t, len) \/ WriteFails(t, len)
        PROVE  WrittenInv'
    BY <2>1, <1>2 DEF Write, WriteFails
  <2>2. ~(\E len \in Lengths : Write(t, len) \/ WriteFails(t, len)) => UNCHANGED written
    BY <1>3 DEF SideNext, ReadLocal, ReadPart, ReadWire, ReadFails, SendCatchup,
       RefuseCatchup, Revive, AttemptFails, AttemptTimesOut, writerVars
  <2>. QED  BY <1>1, <2>1, <2>2
<1>4. ASSUME NEW c \in Conns, ConnNext(c) PROVE UNCHANGED written
  BY <1>4 DEF ConnNext, PollReconnect, AnswerReturning, AnswerNew,
     AnswerAfterReplacement, AnswerUnknown, RequestLost, BeginRecover, Break,
     writerVars
<1>5. ReadReturning \/ ReadRefusal \/ KeepaliveCloses \/ SessionEnds \/ ErasedCloses
        => UNCHANGED written
  BY DEF ReadReturning, ReadRefusal, KeepaliveCloses, SessionEnds, ErasedCloses,
     writerVars
<1>6. vars' = vars => UNCHANGED written
  BY DEF vars, writerVars
<1>. QED  BY <1>1, <1>3, <1>4, <1>5, <1>6 DEF Next

(* A returning peer is refused only when it lacks a packet that the backup *)
(* has dropped, or the connection is in use, as long as the numbers of     *)
(* packets fit the int32 in which they are announced.                      *)
THEOREM BacklogIsResent ==
  ASSUME MaxPackets \in 1 .. HalfRange - 1
  PROVE  Spec => RetainedBacklogIsResent
<1>1. Init => WrittenInv
  BY InitWritten
<1>2. TypeOK /\ WrittenInv /\ [Next]_vars => WrittenInv'
  BY WrittenStep
<1>3. IInv => TypeOK
  BY DEF IInv
<1>4. IInv /\ WrittenInv /\ [Next]_vars =>
        [\A s \in Sides :
           LET c == attempt[s]
           IN  /\ stage[s] = "header" /\ Arrived(s, c, "header")
               /\ toward'[s][c] # toward[s][c]
               /\ attempt'[s] = NoConn
               /\ attempt[Peer(s)] = c
               => \/ socket[s] # NoConn
                  \/ rseq[Peer(s)] < evicted[s]]_vars
  BY RefusalStep
<1>. QED  BY <1>1, <1>2, <1>3, <1>4, Invariance, PTL DEF Spec, RetainedBacklogIsResent

-----------------------------------------------------------------------------
(* A write of Recovery is a Send of ReliableStream.                        *)
LEMMA BackUpSends ==
  ASSUME TypeOK, NEW s \in Sides, NEW len \in Lengths, BackUp(s, len),
         UNCHANGED delivered
  PROVE  Stream!Send(s)
<1>1. written \in [Sides -> Seq(Nat)]
  BY DEF TypeOK
<1>2. PICK n : written' = [written EXCEPT ![s] = Append(written[s], n)]
  BY DEF BackUp
<1>3. Len(written'[s]) = Len(written[s]) + 1
  BY <1>1, <1>2
<1>4. \A t \in Sides : t # s => written'[t] = written[t]
  BY <1>1, <1>2
<1>. QED  BY <1>3, <1>4 DEF Stream!Send

(* A reader that returns the next packet makes a Deliver.                  *)
LEMMA ReadDelivers ==
  ASSUME TypeOK, NEW s \in Sides, UNCHANGED written,
         Len(delivered[s]) < Len(written[Peer(s)]),
         delivered' = [delivered EXCEPT ![s] = Append(@, Len(delivered[s]) + 1)]
  PROVE  Stream!Deliver(s)
<1>1. Stream!Peer(s) = Peer(s) /\ Peer(s) \in Sides
  BY PeerType DEF Stream!Peer, Peer
<1>. QED  BY <1>1 DEF Stream!Deliver

LEMMA ReadLocalDelivers ==
  ASSUME TypeOK, ReaderInv, NEW s \in Sides, ReadLocal(s)
  PROVE  Stream!Deliver(s)
<1>1. /\ localBuffer[s] \in Seq(Int) /\ localBuffer[s] # <<>>
      /\ delivered[s] \in Seq(Nat)
      /\ Len(written[Peer(s)]) \in Nat
  BY PeerType DEF TypeOK, ReadLocal
<1>2. /\ rseq[s] = Len(delivered[s]) + Len(localBuffer[s])
      /\ Contiguous(localBuffer[s], Len(delivered[s]))
      /\ rseq[s] <= Len(written[Peer(s)])
  BY DEF ReaderInv
<1>3. Len(localBuffer[s]) \in Nat /\ Len(localBuffer[s]) >= 1
      /\ Head(localBuffer[s]) = localBuffer[s][1]
  BY <1>1
<1>4. Head(localBuffer[s]) = Len(delivered[s]) + 1
  BY <1>2, <1>3 DEF Contiguous
<1>5. Len(delivered[s]) < Len(written[Peer(s)])
  <2>1. \A d, l, r, w \in Nat : r = d + l /\ l >= 1 /\ r <= w => d < w
    OBVIOUS
  <2>2. Len(delivered[s]) \in Nat /\ rseq[s] \in Nat
    BY <1>1 DEF TypeOK
  <2>. QED  BY <1>1, <1>2, <1>3, <2>1, <2>2
<1>6. Decrypt(s, Head(localBuffer[s])) = Len(delivered[s]) + 1
  BY <1>4 DEF Decrypt
<1>. QED  BY <1>5, <1>6, ReadDelivers DEF ReadLocal, writerVars

LEMMA ReadWireDelivers ==
  ASSUME TypeOK, ReaderInv, ShapeInv, NEW s \in Sides, ReadWire(s)
  PROVE  Stream!Deliver(s)
<1>1. PICK c : c = socket[s]
  OBVIOUS
<1>2. PICK q : q = toward[s][c]
  OBVIOUS
<1>3. c \in Conns /\ q \in Seq(Message) /\ q # <<>>
      /\ localBuffer[s] = <<>>
  BY <1>1, <1>2 DEF TypeOK, ReadWire, Up, Arrived
<1>4. /\ delivered[s] \in Seq(Nat) /\ rseq[s] \in Nat
      /\ Len(written[Peer(s)]) \in Nat
  BY PeerType DEF TypeOK
<1>5. PacketShape(q, rseq[s], Len(written[Peer(s)]))
  BY <1>1, <1>2, <1>3 DEF ShapeInv, ShapeAt
<1>6. Len(q) \in Nat /\ Len(q) >= 1 /\ Head(q) = q[1]
  BY <1>3
<1>7. rseq[s] = Len(delivered[s])
  <2>1. rseq[s] = Len(delivered[s]) + Len(localBuffer[s])
    BY DEF ReaderInv
  <2>. QED  BY <1>3, <1>4, <2>1
<1>8. Head(q).num = Len(delivered[s]) + 1
      /\ Len(delivered[s]) < Len(written[Peer(s)])
  BY <1>4, <1>5, <1>6, <1>7 DEF PacketShape
<1>9. partial[s] \in {0, Head(q).num}
  BY <1>7, <1>8 DEF ReaderInv
<1>10. Decrypt(s, Head(q).num) = Len(delivered[s]) + 1
  BY <1>8 DEF Decrypt
<1>11. delivered' = [delivered EXCEPT ![s] = Append(@, Len(delivered[s]) + 1)]
  BY <1>1, <1>2, <1>9, <1>10 DEF ReadWire
<1>. QED  BY <1>8, <1>11, ReadDelivers DEF ReadWire, writerVars

LEMMA InitRefines == Init => Stream!Init
<1>. SUFFICES ASSUME Init PROVE Stream!Init
  OBVIOUS
<1>1. PICK l \in [Sides -> {x \in Lengths : x <= MaxBackupBytes}] :
        /\ written = [s \in Sides |-> <<l[s]>>]
        /\ delivered = [s \in Sides |-> <<1>>]
  BY DEF Init
<1>2. \A s \in Sides : Len(written[s]) = 1
  BY <1>1
<1>. QED  BY <1>1, <1>2 DEF Stream!Init, Stream!Sides, Sides

LEMMA StepRefines == IInv /\ [Next]_vars => [Stream!Next]_(Stream!vars)
<1>. SUFFICES ASSUME IInv, [Next]_vars
     PROVE  Stream!Next \/ UNCHANGED Stream!vars
  OBVIOUS
<1>0. TypeOK /\ ReaderInv /\ ShapeInv /\ Stream!Sides = Sides
  BY DEF IInv, Stream!Sides, Sides
<1>1. UNCHANGED <<written, delivered>> => UNCHANGED Stream!vars
  BY DEF Stream!vars
<1>2. ASSUME NEW s \in Sides, SideNext(s)
      PROVE  Stream!Next \/ UNCHANGED Stream!vars
  <2>1. ASSUME NEW len \in Lengths, Write(s, len) \/ WriteFails(s, len)
        PROVE  Stream!Next
    <3>1. BackUp(s, len) /\ UNCHANGED delivered
      BY <2>1 DEF Write, WriteFails, readerVars
    <3>. QED  BY <1>0, <3>1, BackUpSends DEF Stream!Next
  <2>2. ReadLocal(s) \/ ReadWire(s) => Stream!Next
    BY <1>0, ReadLocalDelivers, ReadWireDelivers DEF Stream!Next
  <2>3. ReadPart(s) \/ ReadFails(s) \/ SendCatchup(s) \/ RefuseCatchup(s)
          \/ Revive(s) \/ AttemptFails(s) \/ AttemptTimesOut(s)
          => UNCHANGED <<written, delivered>>
    BY DEF ReadPart, ReadFails, SendCatchup, RefuseCatchup, Revive,
       AttemptFails, AttemptTimesOut, writerVars, readerVars
  <2>. QED  BY <1>1, <1>2, <2>1, <2>2, <2>3 DEF SideNext
<1>3. ASSUME NEW c \in Conns, ConnNext(c)
      PROVE  UNCHANGED <<written, delivered>>
  BY <1>3 DEF ConnNext, PollReconnect, AnswerReturning, AnswerNew,
     AnswerAfterReplacement, AnswerUnknown, RequestLost, BeginRecover, Break,
     writerVars, readerVars
<1>4. ReadReturning \/ ReadRefusal \/ KeepaliveCloses \/ SessionEnds
        \/ ErasedCloses => UNCHANGED <<written, delivered>>
  BY DEF ReadReturning, ReadRefusal, KeepaliveCloses, SessionEnds,
     ErasedCloses, writerVars, readerVars
<1>5. UNCHANGED vars => UNCHANGED <<written, delivered>>
  BY DEF vars, writerVars, readerVars
<1>. QED  BY <1>1, <1>2, <1>3, <1>4, <1>5 DEF Next

(* Recovery implements ReliableStream: every write is one Send, every      *)
(* packet BackedReader::Read returns is the next Deliver, and breaking,    *)
(* reconnecting and recovering are invisible.                              *)
THEOREM Refinement == Spec => ImplementsStream
<1>. QED  BY InitRefines, StepRefines, Invariance, PTL
          DEF Spec, ImplementsStream, Stream!Spec
=============================================================================
