------------------------ MODULE ClientProgramProofs ------------------------
(***************************************************************************)
(* The predictor of ClientProgram swallows no output, and TypeOK.          *)
(***************************************************************************)
EXTENDS ClientProgram, SequenceTheorems, FiniteSetTheorems, WellFoundedInduction,
        TLAPS

-----------------------------------------------------------------------------
(* How often a character occurs                                            *)

Places(c, s) == {k \in 1 .. Len(s) : s[k] = c}

LEMMA OccursType ==
  ASSUME NEW s \in Seq(Chars), NEW c
  PROVE  /\ IsFiniteSet(Places(c, s))
         /\ Occurs(c, s) = Cardinality(Places(c, s)) /\ Occurs(c, s) \in Nat
<1>1. IsFiniteSet(1 .. Len(s))
  BY FS_Interval
<1>2. Places(c, s) \in SUBSET (1 .. Len(s))
  BY DEF Places
<1>3. IsFiniteSet(Places(c, s))
  BY <1>1, <1>2, FS_Subset
<1>4. Occurs(c, s) = Cardinality(Places(c, s))
  <2>1. DOMAIN s = 1 .. Len(s)
    BY LenProperties
  <2>. QED  BY <2>1, Zenon DEF Occurs, Places
<1>. QED  BY <1>3, <1>4, FS_CardinalityType

LEMMA PartTypes ==
  ASSUME NEW s \in Seq(Chars), NEW n \in 0 .. Len(s)
  PROVE  SubSeq(s, 1, n) \in Seq(Chars) /\ SubSeq(s, n + 1, Len(s)) \in Seq(Chars)
  OBVIOUS

LEMMA OccursEmpty ==
  ASSUME NEW c
  PROVE  Occurs(c, <<>>) = 0
<1>1. {k \in DOMAIN <<>> : <<>>[k] = c} = {}
  OBVIOUS
<1>. QED  BY <1>1, FS_EmptySet DEF Occurs

LEMMA OccursAppend ==
  ASSUME NEW s \in Seq(Chars), NEW e \in Chars, NEW c
  PROVE  Occurs(c, Append(s, e)) = Occurs(c, s) + (IF e = c THEN 1 ELSE 0)
<1>. DEFINE n == Len(s) + 1
            a == Append(s, e)
<1>1. /\ a \in Seq(Chars) /\ Len(a) = n /\ a[n] = e
      /\ \A k \in 1 .. Len(s) : a[k] = s[k]
  OBVIOUS
<1>2. Len(s) \in Nat /\ n \notin Places(c, s)
  BY DEF Places
<1>3. Places(c, a) = IF e = c THEN Places(c, s) \cup {n} ELSE Places(c, s)
  <2>. HIDE DEF a
  <2>1. \A k : k \in 1 .. n <=> k \in 1 .. Len(s) \/ k = n
    BY <1>2
  <2>. QED  BY <1>1, <1>2, <2>1 DEF Places
<1>4. Cardinality(Places(c, s) \cup {n}) = Cardinality(Places(c, s)) + 1
  BY <1>2, OccursType, FS_AddElement
<1>5. Occurs(c, a) = Cardinality(Places(c, a))
  BY <1>1, OccursType
<1>6. Occurs(c, s) = Cardinality(Places(c, s)) /\ Occurs(c, s) \in Nat
  BY OccursType
<1>. HIDE DEF a, n
<1>7. e = c => Occurs(c, a) = Occurs(c, s) + 1
  BY <1>3, <1>4, <1>5, <1>6
<1>8. e # c => Occurs(c, a) = Occurs(c, s)
  BY <1>3, <1>5, <1>6
<1>. QED  BY <1>6, <1>7, <1>8 DEF a

(* A sequence has what its two parts have.                                 *)
LEMMA OccursOnce ==
  ASSUME NEW e \in Chars, NEW c
  PROVE  Occurs(c, Append(<<>>, e)) = IF e = c THEN 1 ELSE 0
<1>1. Occurs(c, <<>>) = 0
  BY OccursEmpty
<1>2. <<>> \in Seq(Chars)
  OBVIOUS
<1>3. Occurs(c, Append(<<>>, e)) = Occurs(c, <<>>) + (IF e = c THEN 1 ELSE 0)
  BY <1>2, OccursAppend
<1>. QED  BY <1>1, <1>3

LEMMA OccursSplit ==
  ASSUME NEW s \in Seq(Chars), NEW n \in 0 .. Len(s), NEW c
  PROVE  Occurs(c, s) =
           Occurs(c, SubSeq(s, 1, n)) + Occurs(c, SubSeq(s, n + 1, Len(s)))
<1>. DEFINE a == SubSeq(s, 1, n)
            b == SubSeq(s, n + 1, Len(s))
            U == {k \in Places(c, s) : k > n}
            F == [k \in Places(c, b) |-> k + n]
<1>0. Len(s) \in Nat /\ n \in Nat /\ n <= Len(s)
  OBVIOUS
<1>1. a \in Seq(Chars) /\ Len(a) = n /\ \A k \in 1 .. n : a[k] = s[k]
  BY <1>0, SubSeqProperties
<1>2. /\ b \in Seq(Chars) /\ Len(b) = Len(s) - n
      /\ \A k \in 1 .. Len(s) - n : b[k] = s[n + k]
  BY <1>0
<1>. HIDE DEF a, b
<1>3. Places(c, s) = Places(c, a) \cup U /\ Places(c, a) \cap U = {}
  BY <1>0, <1>1 DEF Places
<1>4. IsFiniteSet(U)
  BY OccursType, FS_Subset
<1>5. F \in Bijection(Places(c, b), U)
  <2>1. \A k \in Places(c, b) : k \in Nat /\ k + n \in U
    BY <1>0, <1>2 DEF Places
  <2>2. F \in [Places(c, b) -> U]
    BY <2>1
  <2>3. \A j, k \in Places(c, b) : F[j] = F[k] => j = k
    BY <1>0, <2>1
  <2>4. \A u \in U : \E k \in Places(c, b) : F[k] = u
    <3>. SUFFICES ASSUME NEW u \in U PROVE \E k \in Places(c, b) : F[k] = u
      OBVIOUS
    <3>1. u - n \in 1 .. Len(b) /\ b[u - n] = s[u] /\ s[u] = c /\ u \in Nat
      BY <1>0, <1>2 DEF Places
    <3>2. u - n \in Places(c, b)
      BY <3>1 DEF Places
    <3>. QED  BY <1>0, <3>1, <3>2
  <2>. QED  BY <2>2, <2>3, <2>4 DEF Bijection, Injection, IsInjective, Surjection
<1>6. Cardinality(U) = Cardinality(Places(c, b))
  BY <1>2, <1>5, OccursType, FS_Bijection DEF ExistsBijection
<1>. HIDE DEF U
<1>7. Cardinality(Places(c, s)) = Cardinality(Places(c, a)) + Cardinality(U)
  <2>1. IsFiniteSet(Places(c, a)) /\ Cardinality({}) = 0
    BY <1>1, OccursType, FS_EmptySet
  <2>2. Cardinality(Places(c, a)) \in Nat /\ Cardinality(U) \in Nat
    BY <1>4, <2>1, FS_CardinalityType
  <2>3. Cardinality(Places(c, a) \cup U) =
          Cardinality(Places(c, a)) + Cardinality(U) - Cardinality(Places(c, a) \cap U)
    BY <1>4, <2>1, FS_Union
  <2>4. Cardinality(Places(c, a) \cap U) = 0
    BY <1>3, <2>1, Zenon
  <2>5. Cardinality(Places(c, s)) = Cardinality(Places(c, a) \cup U)
    BY <1>3, Zenon
  <2>. QED  BY <2>2, <2>3, <2>4, <2>5
<1>8. /\ Occurs(c, s) = Cardinality(Places(c, s))
      /\ Occurs(c, a) = Cardinality(Places(c, a))
      /\ Occurs(c, b) = Cardinality(Places(c, b))
  BY <1>1, <1>2, OccursType
<1>. QED  BY <1>1, <1>2, <1>6, <1>7, <1>8 DEF a, b

-----------------------------------------------------------------------------
(* What is matched is a prefix of both: there is a longest common prefix.  *)

LEMMA MatchFacts ==
  ASSUME NEW s \in Seq(Chars), pending \in Seq(Chars)
  PROVE  /\ Match(s) \in 0 .. Len(s) /\ Match(s) \in 0 .. Len(pending)
         /\ SubSeq(s, 1, Match(s)) = SubSeq(pending, 1, Match(s))
<1>. DEFINE C == CommonPrefixes({s, pending})
            T == {Len(s) - Len(p) : p \in C}
<1>1. \A p \in C : IsPrefix(p, s) /\ IsPrefix(p, pending) /\ p \in Seq(Chars)
  <2>. SUFFICES ASSUME NEW p \in C
                PROVE  IsPrefix(p, s) /\ IsPrefix(p, pending) /\ p \in Seq(Chars)
    OBVIOUS
  <2>1. PICK q \in {s, pending} : p \in Prefixes(q)
    BY DEF CommonPrefixes
  <2>2. PICK l \in 0 .. Len(q) : p = SubSeq(q, 1, l)
    BY <2>1 DEF Prefixes
  <2>3. p \in Seq(Chars)
    BY <2>1, <2>2
  <2>. QED  BY <2>3 DEF CommonPrefixes
<1>2. <<>> \in C
  <2>1. SubSeq(s, 1, 0) = <<>> /\ SubSeq(pending, 1, 0) = <<>> /\ Len(<<>>) = 0
    BY SubSeqEmpty
  <2>2. <<>> \in Prefixes(s)
    BY <2>1 DEF Prefixes
  <2>3. IsPrefix(<<>>, s) /\ IsPrefix(<<>>, pending)
    BY <2>1 DEF IsPrefix
  <2>. QED  BY <2>2, <2>3 DEF CommonPrefixes
<1>3. \A p \in C : Len(p) \in Nat /\ Len(p) <= Len(s) /\ Len(p) <= Len(pending)
  BY <1>1 DEF IsPrefix
<1>. HIDE DEF C
<1>4. \E m \in C : \A p \in C : Len(p) <= Len(m)
  <2>1. T \subseteq Nat /\ T # {}
    BY <1>2, <1>3
  <2>. HIDE DEF T
  <2>2. \E x \in T : \A y \in T : ~(<<y, x>> \in OpToRel(<, Nat))
    BY <2>1, NatLessThanWellFounded, WFMin
  <2>3. PICK x \in T : \A y \in T : ~(<<y, x>> \in OpToRel(<, Nat))
    BY <2>2
  <2>4. \A y \in T : ~(y < x)
    BY <2>1, <2>3 DEF OpToRel
  <2>5. PICK m \in C : x = Len(s) - Len(m)
    BY DEF T
  <2>6. \A p \in C : Len(s) - Len(p) \in T
    BY DEF T
  <2>. QED  BY <1>3, <2>4, <2>5, <2>6
<1>5. LongestCommonPrefix({s, pending}) \in C
  BY <1>4 DEF LongestCommonPrefix, C
<1>6. PICK p \in C : Match(s) = Len(p)
  BY <1>5 DEF Match
<1>7. /\ SubSeq(p, 1, Len(p)) = SubSeq(s, 1, Len(p))
      /\ SubSeq(p, 1, Len(p)) = SubSeq(pending, 1, Len(p))
  BY <1>1 DEF IsPrefix
<1>. QED  BY <1>3, <1>6, <1>7

-----------------------------------------------------------------------------
(* The predictor                                                           *)

(* What awaits its echo has been shown and not been dropped.               *)
CreditInv == \A c \in Chars : credit[c] >= Occurs(c, pending)

EchoType == pending \in Seq(Chars) /\ credit \in [Chars -> Int]

LEMMA NewestFacts ==
  ASSUME NEW s \in Seq(Chars)
  PROVE  /\ Newest(s) \in Seq(Chars)
         /\ \A c \in Chars : Occurs(c, Newest(s)) <= Occurs(c, s)
<1>. DEFINE n == Len(s) - PendingLimit
<1>1. CASE Len(s) > PendingLimit
  <2>1. n \in 0 .. Len(s) /\ Newest(s) = SubSeq(s, n + 1, Len(s))
    BY <1>1, BoundsAssumption DEF Newest
  <2>. HIDE DEF n
  <2>2. SubSeq(s, 1, n) \in Seq(Chars) /\ Newest(s) \in Seq(Chars)
    BY <2>1, PartTypes
  <2>3. \A c \in Chars : Occurs(c, s) = Occurs(c, SubSeq(s, 1, n)) + Occurs(c, Newest(s))
    BY <2>1, OccursSplit
  <2>4. \A c \in Chars : /\ Occurs(c, SubSeq(s, 1, n)) \in Nat
                         /\ Occurs(c, Newest(s)) \in Nat
    BY <2>2, OccursType
  <2>. QED  BY <2>2, <2>3, <2>4
<1>2. CASE ~(Len(s) > PendingLimit)
  <2>1. Newest(s) = s
    BY <1>2 DEF Newest
  <2>. QED  BY <2>1, OccursType
<1>. QED  BY <1>1, <1>2

LEMMA PredictStep ==
  ASSUME EchoType, CreditInv, NEW key, Predict(key)
  PROVE  EchoType' /\ CreditInv'
<1>. USE DEF EchoType
<1>1. CASE key \in Chars
  <2>. DEFINE a == Append(pending, key)
  <2>1. pending' = Newest(a) /\ credit' = [credit EXCEPT ![key] = @ + 1]
    BY <1>1, KeysAssumption DEF Predict
  <2>2. a \in Seq(Chars)
    BY <1>1
  <2>3. \A c \in Chars : /\ Occurs(c, a) = Occurs(c, pending) + (IF key = c THEN 1 ELSE 0)
                         /\ Occurs(c, pending) \in Nat
    BY <1>1, OccursAppend, OccursType
  <2>. HIDE DEF a
  <2>4. /\ pending' \in Seq(Chars)
        /\ \A c \in Chars : Occurs(c, pending') <= Occurs(c, a) /\ Occurs(c, pending') \in Nat
    BY <2>1, <2>2, NewestFacts, OccursType
  <2>5. \A c \in Chars : credit'[c] = credit[c] + (IF key = c THEN 1 ELSE 0)
    BY <2>1
  <2>6. ASSUME NEW c \in Chars PROVE credit'[c] >= Occurs(c, pending')
    <3>1. /\ credit[c] \in Int /\ credit[c] >= Occurs(c, pending)
          /\ Occurs(c, pending) \in Nat /\ Occurs(c, pending') \in Nat
          /\ Occurs(c, pending') <= Occurs(c, a)
      BY <2>3, <2>4 DEF CreditInv
    <3>2. CASE key = c
      BY <2>3, <2>5, <3>1, <3>2
    <3>3. CASE key # c
      BY <2>3, <2>5, <3>1, <3>3
    <3>. QED  BY <3>2, <3>3
  <2>. QED  BY <1>1, <2>1, <2>4, <2>6 DEF CreditInv
<1>2. CASE key \notin Chars /\ key = Backspace /\ pending # <<>>
  <2>. DEFINE n == Len(pending) - 1
              e == Last(pending)
  <2>1. pending' = Front(pending) /\ credit' = [credit EXCEPT ![e] = @ - 1]
    BY <1>2 DEF Predict
  <2>2. n \in 0 .. Len(pending) /\ n + 1 = Len(pending) /\ Len(pending) \in 1 .. Len(pending)
    BY <1>2
  <2>3. pending' = SubSeq(pending, 1, n) /\ e = pending[Len(pending)] /\ e \in Chars
    BY <2>1, <2>2 DEF Front, Last
  <2>4. SubSeq(pending, n + 1, Len(pending)) = Append(<<>>, e)
    <3>. DEFINE b == SubSeq(pending, n + 1, Len(pending))
    <3>1. b \in Seq(Chars) /\ Len(b) = 1 /\ b[1] = e
      BY <2>2, <2>3
    <3>. DEFINE d == Append(<<>>, e)
    <3>2. d \in Seq(Chars) /\ Len(d) = 1 /\ d[1] = e
      BY <2>3
    <3>. HIDE DEF b, d, e
    <3>3. \A k \in 1 .. Len(b) : b[k] = d[k]
      BY <3>1, <3>2
    <3>4. b = d
      BY <3>1, <3>2, <3>3, SeqEqual
    <3>. QED  BY <3>4 DEF b, d
  <2>. HIDE DEF n, e
  <2>5. \A c \in Chars :
          Occurs(c, pending) = Occurs(c, pending') + Occurs(c, Append(<<>>, e))
    BY <2>2, <2>3, <2>4, OccursSplit
  <2>6. \A c \in Chars : Occurs(c, Append(<<>>, e)) = IF e = c THEN 1 ELSE 0
    BY <2>3, OccursOnce
  <2>7. pending' \in Seq(Chars)
    BY <2>2, <2>3, PartTypes
  <2>8. \A c \in Chars : Occurs(c, pending') \in Nat
    BY <2>7, OccursType
  <2>9. credit' \in [Chars -> Int]
         /\ \A c \in Chars : credit'[c] = credit[c] - (IF e = c THEN 1 ELSE 0)
    BY <2>1, <2>3
  <2>10. ASSUME NEW c \in Chars PROVE credit'[c] >= Occurs(c, pending')
    <3>1. /\ credit[c] \in Int /\ credit[c] >= Occurs(c, pending)
          /\ Occurs(c, pending') \in Nat
      BY <2>8 DEF CreditInv
    <3>2. CASE e = c
      BY <2>5, <2>6, <2>9, <3>1, <3>2
    <3>3. CASE e # c
      BY <2>5, <2>6, <2>9, <3>1, <3>3
    <3>. QED  BY <3>2, <3>3
  <2>. QED  BY <2>7, <2>9, <2>10 DEF CreditInv
<1>3. CASE key \notin Chars /\ ~(key = Backspace /\ pending # <<>>)
  <2>1. UNCHANGED <<pending, credit>>
    BY <1>3 DEF Predict, echo
  <2>. QED  BY <2>1 DEF CreditInv
<1>. QED  BY <1>1, <1>2, <1>3

LEMMA TakeEchoStep ==
  ASSUME EchoType, CreditInv, NEW s \in Seq(Chars), TakeEcho(s)
  PROVE  EchoType' /\ CreditInv'
<1>. USE DEF EchoType
<1>1. CASE predictive /\ Match(s) > 0
  <2>. DEFINE n == Match(s)
              a == SubSeq(pending, 1, n)
  <2>1. /\ pending' = SubSeq(pending, n + 1, Len(pending))
        /\ credit' = [c \in Chars |-> credit[c] - Occurs(c, SubSeq(s, 1, n))]
    BY <1>1 DEF TakeEcho
  <2>2. n \in 0 .. Len(pending) /\ SubSeq(s, 1, n) = a
    BY MatchFacts
  <2>. HIDE DEF n
  <2>3. a \in Seq(Chars) /\ pending' \in Seq(Chars)
    BY <2>1, <2>2, PartTypes
  <2>4. \A c \in Chars : Occurs(c, pending) = Occurs(c, a) + Occurs(c, pending')
    BY <2>1, <2>2, OccursSplit
  <2>5. \A c \in Chars : Occurs(c, a) \in Nat /\ Occurs(c, pending') \in Nat
    BY <2>3, OccursType
  <2>. HIDE DEF a
  <2>6. /\ credit' \in [Chars -> Int]
        /\ \A c \in Chars : credit'[c] = credit[c] - Occurs(c, a)
    <3>1. credit' = [c \in Chars |-> credit[c] - Occurs(c, a)]
      BY <2>1, <2>2
    <3>2. \A c \in Chars : credit[c] - Occurs(c, a) \in Int
      BY <2>5
    <3>. QED  BY <3>1, <3>2
  <2>7. CreditInv'
    BY <2>4, <2>5, <2>6 DEF CreditInv
  <2>. QED  BY <2>3, <2>6, <2>7
<1>2. CASE ~(predictive /\ Match(s) > 0)
  <2>1. pending' = <<>> /\ credit' = credit
    BY <1>2 DEF TakeEcho
  <2>2. \A c \in Chars : Occurs(c, pending) \in Nat /\ Occurs(c, <<>>) = 0
    BY OccursType, OccursEmpty
  <2>3. \A c \in Chars : credit[c] >= 0
    BY <2>2 DEF CreditInv
  <2>4. CreditInv'
    BY <2>1, <2>2, <2>3 DEF CreditInv
  <2>. QED  BY <2>1, <2>4, EmptySeq
<1>. QED  BY <1>1, <1>2
-----------------------------------------------------------------------------
(* Types                                                                   *)

Received == {Out(s) : s \in Texts \cup {<<>>}} \cup {Alive, Tunnelled}

(* TypeOK, without the predictor's variables.                              *)
OptionsType ==
  /\ mode \in {"shell", "command", "tunnel"} /\ tunnels \in BOOLEAN
  /\ predictive \in BOOLEAN /\ command \in 0..2

ThreadsType ==
  /\ main \in {"connect", "initial", "response", "send", "keepalive",
               "tunnels", "start", "joinInput", "joinOutput", "joinRest"}
              \cup Exits
  /\ running \in BOOLEAN
  /\ input \in {"check", "read", "send"} \cup NoThread
  /\ output \in {"check", "recv", "reply"} \cup NoThread
  /\ keepalive \in {"sleep"} \cup NoThread
  /\ sender \in [Senders -> {"check", "send"} \cup NoThread]

NetworkType ==
  /\ conn \in {"none", "up", "broken", "down"} /\ shutdown \in BOOLEAN
  /\ inbox \in Seq(Received)

CountsType ==
  typed \in 0..MaxKeys /\ packets \in 0..MaxPackets /\ losses \in 0..MaxLosses

LEMMA TypeParts ==
  /\ TypeOK <=> OptionsType /\ ThreadsType /\ NetworkType /\ CountsType /\ EchoType
  /\ TypeOK' <=> OptionsType' /\ ThreadsType' /\ NetworkType' /\ CountsType' /\ EchoType'
  BY DEF TypeOK, OptionsType, ThreadsType, NetworkType, CountsType, EchoType, Received

LEMMA TextsAreSequences == \A s \in Texts \cup {<<>>} : s \in Seq(Chars)
<1>1. \A c \in Chars : <<c>> \in Seq(Chars)
  OBVIOUS
<1>2. \A c, d \in Chars : <<c, d>> \in Seq(Chars)
  OBVIOUS
<1>3. \A s \in Chars \X Chars : \E c, d \in Chars : s = <<c, d>>
  OBVIOUS
<1>4. \A s \in Chars \X Chars : s \in Seq(Chars)
  BY <1>2, <1>3
<1>5. <<>> \in Seq(Chars)
  BY EmptySeq
<1>. QED  BY <1>1, <1>4, <1>5, Zenon DEF Texts

LEMMA WriteType ==
  ASSUME NetworkType, WritePacket
  PROVE  NetworkType'
  BY DEF NetworkType, WritePacket

LEMMA MainTypes ==
  ASSUME TypeOK, MainStep
  PROVE  OptionsType' /\ ThreadsType' /\ NetworkType' /\ UNCHANGED <<echo, counts>>
<1>. USE TypeParts DEF options, threads, network
<1>1. CASE Connect \/ ReadInitialResponse \/ StartKeepalive \/ OpenTunnels
  BY <1>1 DEF Connect, ReadInitialResponse, StartKeepalive, OpenTunnels, OptionsType,
              ThreadsType, NetworkType, Exits, NoThread
<1>2. CASE SendCommand
  <2>1. NetworkType'
    BY <1>2, WriteType DEF SendCommand, NetworkType
  <2>2. main' \in {main, "keepalive"} /\ command' \in {command, command - 1}
    BY <1>2 DEF SendCommand
  <2>3. command # 0 \/ command' = command
    BY <1>2 DEF SendCommand
  <2>4. OptionsType'
    BY <1>2, <2>2, <2>3 DEF SendCommand, OptionsType
  <2>5. ThreadsType' /\ UNCHANGED <<echo, counts>>
    BY <1>2, <2>2 DEF SendCommand, ThreadsType
  <2>. QED  BY <2>1, <2>4, <2>5
<1>3. CASE SendInitialPayload
  <2>1. NetworkType'
    BY <1>3, WriteType DEF SendInitialPayload, NetworkType
  <2>2. main' \in {"response", "exit1"}
    BY <1>3 DEF SendInitialPayload
  <2>3. OptionsType' /\ ThreadsType' /\ UNCHANGED <<echo, counts>>
    BY <1>3, <2>2 DEF SendInitialPayload, OptionsType, ThreadsType, Exits, network
  <2>. QED  BY <2>1, <2>3
<1>4. CASE StartThreads
  BY <1>4 DEF StartThreads, OptionsType, ThreadsType, NetworkType, Senders, NoThread
<1>5. CASE JoinInput \/ JoinOutput \/ JoinRest
  BY <1>5 DEF JoinInput, JoinOutput, JoinRest, OptionsType, ThreadsType, NetworkType,
              Exits
<1>. QED  BY <1>1, <1>2, <1>3, <1>4, <1>5 DEF MainStep

LEMMA ThreadTypes ==
  ASSUME TypeOK,
         InputStep \/ EndOfInput \/ KeepAlive \/ \E s \in Senders : SenderStep(s)
  PROVE  OptionsType' /\ ThreadsType' /\ NetworkType' /\ UNCHANGED <<echo, counts>>
<1>. USE TypeParts DEF options
<1>1. CASE InputCheck \/ EndOfInput
  <2>1. /\ input' \in {"read", "ended"} /\ running' \in {running, FALSE}
        /\ UNCHANGED <<command, main, output, keepalive, sender, echo, counts>>
        /\ UNCHANGED <<options, network>>
    BY <1>1 DEF InputCheck, EndOfInput
  <2>2. OptionsType'
    BY <2>1 DEF OptionsType
  <2>3. ThreadsType'
    BY <2>1 DEF ThreadsType, NoThread
  <2>4. NetworkType'
    BY <2>1 DEF NetworkType, network
  <2>. QED  BY <2>1, <2>2, <2>3, <2>4
<1>2. CASE SendKey
  BY <1>2, WriteType DEF SendKey, OptionsType, ThreadsType
<1>3. CASE KeepAlive
  <2>1. inbox' \in Seq(Received)
    <3>1. inbox' \in {inbox, <<Alive>>}
      BY <1>3 DEF KeepAlive, network
    <3>2. <<Alive>> \in Seq(Received)
      BY DEF Received
    <3>. QED  BY <3>1, <3>2 DEF NetworkType
  <2>. QED  BY <1>3, <2>1 DEF KeepAlive, OptionsType, ThreadsType, NetworkType, NoThread,
                          network
<1>4. ASSUME NEW s \in Senders, SenderCheck(s)
      PROVE  OptionsType' /\ ThreadsType' /\ NetworkType' /\ UNCHANGED <<echo, counts>>
  <2>1. /\ sender' \in {[sender EXCEPT ![s] = "send"], [sender EXCEPT ![s] = "ended"]}
        /\ UNCHANGED <<command, main, running, input, output, keepalive, echo, counts>>
        /\ UNCHANGED <<options, network>>
    BY <1>4 DEF SenderCheck
  <2>2. sender' \in [Senders -> {"check", "send"} \cup NoThread]
    <3>1. sender \in [Senders -> {"check", "send"} \cup NoThread]
      BY DEF ThreadsType
    <3>. QED  BY <2>1, <3>1 DEF NoThread
  <2>3. OptionsType'
    BY <2>1 DEF OptionsType
  <2>4. ThreadsType'
    BY <2>1, <2>2 DEF ThreadsType
  <2>5. NetworkType'
    BY <2>1 DEF NetworkType, network
  <2>. QED  BY <2>1, <2>3, <2>4, <2>5
<1>5. ASSUME NEW s \in Senders, SenderSend(s)
      PROVE  OptionsType' /\ ThreadsType' /\ NetworkType' /\ UNCHANGED <<echo, counts>>
  BY <1>5, WriteType DEF SenderSend, OptionsType, ThreadsType
<1>. QED  BY <1>1, <1>2, <1>3, <1>4, <1>5 DEF InputStep, SenderStep

LEMMA OutputTypes ==
  ASSUME TypeOK, OutputStep
  PROVE  OptionsType' /\ ThreadsType' /\ NetworkType' /\ UNCHANGED counts
<1>. USE TypeParts DEF options, OutputUnchanged
<1>1. CASE OutputCheck \/ CommandTimeout \/ ReceiveFails
  <2>1. /\ output' \in {"check", "recv", "ended"} /\ running' \in {running, FALSE}
        /\ conn' \in {conn, "down"} /\ shutdown' \in {shutdown, TRUE} /\ UNCHANGED inbox
        /\ UNCHANGED <<command, main, input, keepalive, sender, counts>> /\ UNCHANGED options
    BY <1>1 DEF OutputCheck, CommandTimeout, ReceiveFails, network
  <2>2. OptionsType'
    BY <2>1 DEF OptionsType
  <2>3. ThreadsType'
    BY <2>1 DEF ThreadsType, NoThread
  <2>4. NetworkType'
    BY <2>1 DEF NetworkType
  <2>. QED  BY <2>1, <2>2, <2>3, <2>4
<1>2. CASE Receive
  <2>1. inbox' \in Seq(Received)
    BY <1>2 DEF Receive, NetworkType
  <2>2. output' \in {"check", "reply"}
    BY <1>2 DEF Receive
  <2>. QED  BY <1>2, <2>1, <2>2 DEF Receive, OptionsType, ThreadsType, NetworkType
<1>3. CASE Reply
  BY <1>3, WriteType DEF Reply, OptionsType, ThreadsType
<1>. QED  BY <1>1, <1>2, <1>3 DEF OutputStep

LEMMA WorldTypes ==
  ASSUME TypeOK, ServerSends \/ Lose \/ Reconnect
  PROVE  /\ OptionsType' /\ ThreadsType' /\ NetworkType' /\ CountsType'
         /\ UNCHANGED echo
<1>. USE TypeParts DEF options, threads
<1>1. CASE ServerSends
  <2>1. PICK s \in Texts \cup {<<>>} : inbox' \in {Append(inbox, Out(s)), Append(inbox, Tunnelled)}
    BY <1>1 DEF ServerSends
  <2>2. Out(s) \in Received /\ Tunnelled \in Received
    BY DEF Received
  <2>3. inbox' \in Seq(Received)
    BY <2>1, <2>2 DEF NetworkType
  <2>4. CountsType'
    BY <1>1, BoundsAssumption DEF ServerSends, CountsType
  <2>. QED  BY <1>1, <2>3, <2>4 DEF ServerSends, OptionsType, ThreadsType, NetworkType
<1>2. CASE Lose \/ Reconnect
  <2>1. CountsType'
    BY <1>2, BoundsAssumption DEF Lose, Reconnect, CountsType, counts
  <2>. QED  BY <1>2, <2>1 DEF Lose, Reconnect, OptionsType, ThreadsType, NetworkType
<1>. QED  BY <1>1, <1>2

-----------------------------------------------------------------------------
(* The invariant                                                           *)

IInv == TypeOK /\ CreditInv

LEMMA InitInv == Init => IInv
<1>. SUFFICES ASSUME Init  PROVE IInv
  OBVIOUS
<1>1. EchoType
  BY EmptySeq DEF Init, CommandLine, AtRest, EchoType
<1>2. OptionsType
  BY DEF Init, CommandLine, AtRest, OptionsType
<1>3. ThreadsType /\ CountsType
  BY BoundsAssumption DEF Init, CommandLine, AtRest, ThreadsType, CountsType, NoThread
<1>4. NetworkType
  BY EmptySeq DEF Init, CommandLine, AtRest, NetworkType
<1>5. CreditInv
  BY OccursEmpty DEF Init, CommandLine, AtRest, CreditInv
<1>. QED  BY <1>1, <1>2, <1>3, <1>4, <1>5, TypeParts DEF IInv

LEMMA Untouched ==
  ASSUME EchoType, CreditInv, UNCHANGED echo
  PROVE  EchoType' /\ CreditInv'
  BY DEF EchoType, CreditInv, echo

LEMMA ReceiveEcho ==
  ASSUME TypeOK, CreditInv, OutputStep
  PROVE  EchoType' /\ CreditInv'
<1>. USE TypeParts
<1>1. CASE OutputCheck \/ CommandTimeout \/ ReceiveFails \/ Reply
  BY <1>1, Untouched DEF OutputCheck, CommandTimeout, ReceiveFails, Reply, echo
<1>2. CASE Receive
  <2>1. UNCHANGED <<pending, credit>> \/ TakeEcho(Head(inbox).text)
    BY <1>2 DEF Receive
  <2>2. Head(inbox) \in Received
    BY <1>2 DEF Receive, NetworkType
  <2>3. Head(inbox).text \in Seq(Chars)
    BY <2>2, TextsAreSequences DEF Received, Out, Alive, Tunnelled
  <2>. QED  BY <2>1, <2>3, Untouched, TakeEchoStep DEF echo
<1>. QED  BY <1>1, <1>2 DEF OutputStep

LEMMA KeyStep ==
  ASSUME TypeOK, CreditInv, ReadKey
  PROVE  TypeOK' /\ CreditInv'
<1>. USE TypeParts
<1>1. UNCHANGED echo \/ \E key \in Chars \cup {Backspace, Control} : Predict(key)
  BY DEF ReadKey
<1>2. EchoType' /\ CreditInv'
  BY <1>1, Untouched, PredictStep
<1>3. CountsType'
  BY BoundsAssumption DEF ReadKey, CountsType
<1>4. OptionsType' /\ ThreadsType' /\ NetworkType'
  BY DEF ReadKey, OptionsType, ThreadsType, NetworkType, options, network
<1>. QED  BY <1>2, <1>3, <1>4

LEMMA StepInv ==
  ASSUME IInv, [Next]_vars
  PROVE  IInv'
<1>. USE TypeParts DEF IInv
<1>0. UNCHANGED counts => CountsType'
  BY DEF CountsType, counts
<1>1. CASE MainStep
  BY <1>0, <1>1, MainTypes, Untouched
<1>2. CASE InputStep \/ EndOfInput \/ KeepAlive \/ \E s \in Senders : SenderStep(s)
  BY <1>0, <1>2, ThreadTypes, Untouched
<1>3. CASE ReadKey
  BY <1>3, KeyStep
<1>4. CASE OutputStep
  BY <1>0, <1>4, OutputTypes, ReceiveEcho
<1>5. CASE ServerSends \/ Lose \/ Reconnect
  BY <1>5, WorldTypes, Untouched
<1>6. CASE UNCHANGED vars
  <2>1. OptionsType' /\ ThreadsType' /\ NetworkType'
    BY <1>6 DEF vars, options, threads, network, OptionsType, ThreadsType, NetworkType
  <2>2. UNCHANGED <<counts, echo>>
    BY <1>6 DEF vars
  <2>. QED  BY <1>0, <2>1, <2>2, Untouched
<1>. QED  BY <1>1, <1>2, <1>3, <1>4, <1>5, <1>6 DEF Next

(* Of each character, the predictor has put on the screen, and not yet     *)
(* dropped from the output, at least as many as it holds in pending_.      *)
THEOREM Invariance == Spec => []IInv
<1>1. Init => IInv
  BY InitInv
<1>2. IInv /\ [Next]_vars => IInv'
  BY StepInv
<1>. QED  BY <1>1, <1>2, PTL DEF Spec

(* All variables of the client program keep their types.                   *)
THEOREM TypeInvariance == Spec => []TypeOK
<1>1. IInv => TypeOK
  BY DEF IInv
<1>. QED  BY <1>1, Invariance, PTL

(* The predictor never drops from the output what it has not shown itself, *)
(* for any characters, any limit on pending_ and any number of keys.       *)
THEOREM NoneSwallowed == Spec => []NothingIsSwallowed
<1>1. IInv => NothingIsSwallowed
  <2>. SUFFICES ASSUME IInv, NEW c \in Chars  PROVE credit[c] >= 0
    BY DEF NothingIsSwallowed
  <2>1. credit[c] >= Occurs(c, pending) /\ credit[c] \in Int
    BY DEF IInv, CreditInv, TypeOK
  <2>2. Occurs(c, pending) \in Nat
    BY OccursType DEF IInv, TypeOK
  <2>. QED  BY <2>1, <2>2
<1>. QED  BY <1>1, Invariance, PTL
=============================================================================
