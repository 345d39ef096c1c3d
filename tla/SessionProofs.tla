----------------------------- MODULE SessionProofs -----------------------------
(***************************************************************************)
(* Session, for any numbers of processes, handlers, packets and losses,    *)
(* whether or not processes are killed.  IInv is inductive by itself, also *)
(* when clients take the session over from each other or from themselves;  *)
(* it says when the session may end.  SInv, which contains it, says who    *)
(* uses the pipe and where every packet of output is, if NoTakeover.       *)
(*                                                                         *)
(* The proof that SInv is kept has a lemma per kind of step: a process     *)
(* connects (Dials), loses its connection (Drop), is killed, welcomed,     *)
(* reads or types; a handler gives up or ends (Quits), answers, recovers,  *)
(* stores its connection, reads the INITIAL_PAYLOAD, goes on with the      *)
(* pipe (Proceeds) or writes output; the terminal acts (Aside).            *)
(***************************************************************************)
EXTENDS SessionInvariant, SequenceTheorems, TLAPS

LEMMA NoneIsNoHandler == None \notin Handlers /\ None \notin Runs
  BY DEF None, Handlers, Runs

LEMMA InitInv == Init => IInv
<1>. SUFFICES ASSUME Init  PROVE IInv
  OBVIOUS
<1>. USE NoneIsNoHandler DEF Init
<1>1. /\ client \in [Runs -> ClientPlaces] /\ tcp \in [Runs -> Handlers \cup {None}]
      /\ pc \in [Handlers -> Places]
      /\ known \in BOOLEAN /\ pipeServer \in BOOLEAN /\ pipeTerm \in BOOLEAN
  BY DEF ClientPlaces, Places
<1>2. PlaceInv
  BY DEF PlaceInv
<1>3. StartInv
  BY DEF StartInv
<1>4. EndInv /\ RefusedAfterTheEnd
  BY DEF EndInv, RefusedAfterTheEnd
<1>. QED  BY <1>1, <1>2, <1>3, <1>4 DEF IInv

(* The parts of IInv read only these variables.                            *)
LEMMA StutterInv ==
  IInv /\ UNCHANGED <<client, tcp, pc, known, pipeServer, pipeTerm, reader>> => IInv'
  BY DEF IInv, PlaceInv, StartInv, EndInv, RefusedAfterTheEnd

(* What a client process does by itself.                                   *)
LEMMA ClientStepInv ==
  ASSUME IInv, NEW r \in Runs, ClientStep(r)
  PROVE  IInv'
<1>. USE NoneIsNoHandler
     DEF IInv, PlaceInv, StartInv, EndInv, RefusedAfterTheEnd, ClientPlaces, Places,
         Goto, pipe, registry, terminal
<1>1. CASE NoticeClose(r)
  BY <1>1 DEF NoticeClose, Drop
<1>2. CASE Welcome(r)
  BY <1>2 DEF Welcome
<1>3. CASE Receive(r)
  BY <1>3 DEF Receive
<1>4. ASSUME NEW h \in Handlers, Poll(r, h)  PROVE IInv'
  BY <1>4 DEF Poll, Dial, Unused, At
<1>. QED  BY <1>1, <1>2, <1>3, <1>4 DEF ClientStep

LEMMA HandlerStepInv ==
  ASSUME IInv, NEW h \in Handlers, HandlerStep(h)
  PROVE  IInv'
<1>. USE NoneIsNoHandler
     DEF IInv, PlaceInv, StartInv, EndInv, RefusedAfterTheEnd, ClientPlaces, Places,
         Relaying, Goto, At, clients, conns, pipe, registry, terminal
<1>1. CASE AnswerUnknown(h)
  BY <1>1 DEF AnswerUnknown, TurnAway
<1>2. CASE AnswerNew(h)
  BY <1>2 DEF AnswerNew
<1>3. CASE RecoverFails(h)
  BY <1>3 DEF RecoverFails, TurnAway
<1>4. CASE SendTermInit(h)
  BY <1>4 DEF SendTermInit, WritePipe
<1>5. CASE WriteInput(h)
  BY <1>5 DEF WriteInput, WritePipe
<1>6. CASE RelayBreak(h)
  BY <1>6 DEF RelayBreak, IsConnected
<1>7. CASE AnswerReturning(h)
  BY <1>7 DEF AnswerReturning
<1>8. CASE StoreConnection(h)
  BY <1>8 DEF StoreConnection
<1>9. CASE ReadInitial(h)
  BY <1>9 DEF ReadInitial
<1>10. CASE InitialFails(h)
  BY <1>10 DEF InitialFails
<1>11. CASE LookupTerminal(h)
  BY <1>11 DEF LookupTerminal
<1>12. CASE RelayInput(h)
  BY <1>12 DEF RelayInput
<1>13. CASE RelayLost(h)
  BY <1>13 DEF RelayLost
<1>14. CASE RelayOutput(h)
  BY <1>14 DEF RelayOutput
<1>15. CASE WriteOutput(h)
  BY <1>15 DEF WriteOutput
<1>16. CASE ClosePipe(h)
  BY <1>16 DEF ClosePipe
<1>17. CASE UnregisterTerminal(h)
  BY <1>17 DEF UnregisterTerminal
<1>18. CASE Hangup(h)
  BY <1>18 DEF Hangup
<1>19. CASE RequestFails(h)
  BY <1>19 DEF RequestFails
<1>20. ASSUME NEW r \in Runs, RecoverSucceeds(h, r)  PROVE IInv'
  <2>1. /\ client' = [client EXCEPT ![r] = IF r \in leaving THEN "failed" ELSE "attached"]
        /\ tcp' = IF r \in leaving THEN [tcp EXCEPT ![r] = None] ELSE tcp
        /\ pc' = [pc EXCEPT ![h] = "done"]
        /\ pc[h] = "recover" /\ tcp[r] = h
        /\ UNCHANGED <<known, pipeServer, pipeTerm, reader>>
    BY <1>20 DEF RecoverSucceeds
  <2>. QED  BY <2>1
<1>. QED
  BY <1>1, <1>2, <1>3, <1>4, <1>5, <1>6, <1>7, <1>8, <1>9, <1>10,
     <1>11, <1>12, <1>13, <1>14, <1>15, <1>16, <1>17, <1>18, <1>19, <1>20
     DEF HandlerStep

LEMMA TerminalStepInv ==
  ASSUME IInv, TerminalStep
  PROVE  IInv'
<1>. USE NoneIsNoHandler
     DEF IInv, PlaceInv, StartInv, EndInv, RefusedAfterTheEnd, ClientPlaces, Places,
         clients, conns, pipe, registry, terminal
<1>1. CASE RegisterTerminal
  BY <1>1 DEF RegisterTerminal
<1>2. CASE ReadInit
  BY <1>2 DEF ReadInit
<1>3. CASE InputThread
  BY <1>3 DEF InputThread
<1>4. CASE OutputWrite
  BY <1>4 DEF OutputWrite
<1>5. CASE OutputEnds
  BY <1>5 DEF OutputEnds
<1>6. CASE TerminalEnds
  BY <1>6 DEF TerminalEnds
<1>. QED  BY <1>1, <1>2, <1>3, <1>4, <1>5, <1>6 DEF TerminalStep

LEMMA StepInv ==
  ASSUME IInv, [Next]_vars
  PROVE  IInv'
<1>. USE NoneIsNoHandler
     DEF IInv, PlaceInv, StartInv, EndInv, RefusedAfterTheEnd, ClientPlaces, Places,
         Gone, Goto, clients, conns, pipe, registry, terminal
<1>1. ASSUME NEW r \in Runs, ClientStep(r)  PROVE IInv'
  BY <1>1, ClientStepInv
<1>2. ASSUME NEW r \in Runs, NEW h \in Handlers, Start(r, h)  PROVE IInv'
  BY <1>2 DEF Start, Dial, Unused, At
<1>3. ASSUME NEW r \in Runs, Lose(r)  PROVE IInv'
  BY <1>3 DEF Lose, Drop
<1>4. ASSUME NEW r \in Runs, Kill(r)  PROVE IInv'
  BY <1>4 DEF Kill
<1>5. ASSUME NEW r \in Runs, Type(r)  PROVE IInv'
  BY <1>5 DEF Type
<1>6. ASSUME NEW h \in Handlers, HandlerStep(h)  PROVE IInv'
  BY <1>6, HandlerStepInv
<1>7. CASE TerminalStep
  BY <1>7, TerminalStepInv
<1>8. CASE OutputRead
  BY <1>8 DEF OutputRead
<1>9. CASE ShellExits
  BY <1>9 DEF ShellExits
<1>10. CASE TerminalKilled
  BY <1>10 DEF TerminalKilled
<1>11. CASE UNCHANGED vars
  BY <1>11, StutterInv DEF vars
<1>. QED
  BY <1>1, <1>2, <1>3, <1>4, <1>5, <1>6, <1>7, <1>8, <1>9, <1>10, <1>11 DEF Next

(* IInv is an invariant.                                                   *)
THEOREM Invariance == Spec => []IInv
  BY InitInv, StepInv, PTL DEF Spec

(* The relay loops of TcpListener.cpp end, close the pipe and erase the    *)
(* session, in this order, only after the terminal has ended, also when    *)
(* clients take it over from each other and several relays share the pipe. *)
THEOREM EndsAfterTheTerminal == Spec => []EndInv
<1>1. IInv => EndInv
  BY DEF IInv
<1>. QED  BY <1>1, Invariance, PTL

(* A client that reconnects to TcpListener is refused (INVALID_KEY) only   *)
(* after the terminal has ended.                                           *)
THEOREM RefusedLate == Spec => []RefusedAfterTheEnd
<1>1. IInv => RefusedAfterTheEnd
  BY DEF IInv
<1>. QED  BY <1>1, Invariance, PTL

-----------------------------------------------------------------------------
(* The parts of TypeOK, each kept by the steps that leave its variables.   *)
PlaceTypes ==
  /\ client \in [Runs -> ClientPlaces] /\ leaving \subseteq Runs
  /\ tcp \in [Runs -> Handlers \cup {None}]
  /\ typed \in [Runs -> 0..MaxKeys]
  /\ fed \in [Runs -> 0..MaxKeys] /\ \A r \in Runs : fed[r] <= typed[r]
  /\ pc \in [Handlers -> Places]
  /\ recovering \in [Handlers -> Handlers \cup {None}]
  /\ held \in [Handlers -> 0..MaxOutputs]
  /\ sock \in [Handlers -> Handlers \cup {None}]
  /\ owner \in [Handlers -> Runs \cup {None}]
  /\ payload \in [Handlers -> Runs \cup {None}]
  /\ losses \in 0..MaxLosses

PacketTypes ==
  /\ got \in [Runs -> Seq(1..MaxOutputs)]
  /\ written \in [Handlers -> Seq(1..MaxOutputs)]
  /\ line \in [Handlers -> Seq(1..MaxOutputs)]
  /\ toTerm \in Seq({"init", "key"}) /\ toServer \in Seq(1..MaxOutputs)

FlagTypes ==
  /\ known \in BOOLEAN /\ registered \in Handlers \cup {None}
  /\ pipeServer \in BOOLEAN /\ pipeTerm \in BOOLEAN
  /\ shell \in {"none", "running", "exited"}
  /\ reader \in {"start", "init", "reading", "done"}
  /\ writer \in {"reading", "writing", "done"}
  /\ printed \in 0..MaxOutputs

LEMMA TypeParts ==
  /\ TypeOK <=> PlaceTypes /\ PacketTypes /\ FlagTypes
  /\ TypeOK' <=> PlaceTypes' /\ PacketTypes' /\ FlagTypes'
  BY DEF TypeOK, PlaceTypes, PacketTypes, FlagTypes

LEMMA PacketFrame ==
  PacketTypes /\ UNCHANGED <<got, written, line, toTerm, toServer>> => PacketTypes'
  BY DEF PacketTypes

LEMMA FlagFrame ==
  FlagTypes /\ UNCHANGED <<known, registered, pipeServer, pipeTerm, shell, reader, writer, printed>>
    => FlagTypes'
  BY DEF FlagTypes

(* Each part of SInv reads only some of the variables.                     *)
LEMMA FrontFrame ==
  FrontInv /\ UNCHANGED <<client, tcp, pc>> => FrontInv'
  BY DEF FrontInv

LEMMA SockFrame ==
  SockInv /\ UNCHANGED <<pc, recovering, sock, registered>> => SockInv'
  BY DEF SockInv

LEMMA UseFrame ==
  UseInv /\ UNCHANGED <<pc, sock, registered, pipeServer, pipeTerm>> => UseInv'
  BY DEF UseInv, PipeOpen

LEMMA OutputFrame ==
  OutputInv /\ UNCHANGED <<pc, held, written, pipeServer, pipeTerm, toTerm, toServer,
                           shell, writer, printed>>
    => OutputInv'
<1>. SUFFICES ASSUME OutputInv,
                     UNCHANGED <<pc, held, written, pipeServer, pipeTerm, toTerm, toServer,
                                 shell, writer, printed>>
              PROVE  OutputInv'
  OBVIOUS
<1>1. OutputIsKept'
  BY DEF OutputInv, OutputIsKept
<1>2. PipeOpen' <=> PipeOpen
  BY DEF PipeOpen
<1>. QED  BY <1>1, <1>2 DEF OutputInv

LEMMA PayloadFrame ==
  PayloadInv /\ UNCHANGED <<pc, owner, tcp, payload, got, client, leaving>> => PayloadInv'
  BY DEF PayloadInv, PayloadAt

LEMMA OwnerFrame ==
  OwnerInv /\ UNCHANGED <<client, leaving, got, owner, tcp, written, sock, pc>> => OwnerInv'
  BY DEF OwnerInv, OwnerAt

LEMMA LineFrame ==
  LineInv /\ UNCHANGED <<tcp, pc, got, line, printed, owner, written, sock>> => LineInv'
<1>. SUFFICES ASSUME LineInv, UNCHANGED <<tcp, pc, got, line, printed, owner, written, sock>>,
                     NEW r \in Runs, NEW t \in Handlers, tcp'[r] = t
              PROVE  LineAt(r, t)'
  BY DEF LineInv
<1>. DEFINE n == Len(got[r]) + Len(line[t])
<1>1. LineAt(r, t)
  BY DEF LineInv
<1>2. n' = n
  OBVIOUS
<1>3. pc'[t] \in Front => line'[t] = <<>>
  BY <1>1 DEF LineAt
<1>4. \A k \in 1..Len(line'[t]) : line'[t][k] = Len(got'[r]) + k
  BY <1>1 DEF LineAt
<1>5. /\ n <= printed
      /\ \A c \in Handlers : /\ owner[c] = r => n <= Len(written[c])
                             /\ sock[c] = t => n = Len(written[c])
  BY <1>1 DEF LineAt
<1>6. /\ n' <= printed'
      /\ \A c \in Handlers : /\ owner'[c] = r => n' <= Len(written'[c])
                             /\ sock'[c] = t => n' = Len(written'[c])
  <2>. HIDE DEF n
  <2>. QED  BY <1>2, <1>5
<1>. QED  BY <1>3, <1>4, <1>6 DEF LineAt

LEMMA OrderFrame ==
  OutputInOrder /\ UNCHANGED <<got, printed>> => OutputInOrder'
  BY DEF OutputInOrder

(* A count is a sequence of numbers up to any bound above it.              *)
LEMMA CountSeq ==
  ASSUME NEW n \in Nat, NEW m \in Nat, n <= m
  PROVE  /\ Count(n) \in Seq(1..m) /\ Len(Count(n)) = n
         /\ \A k \in 1..n : Count(n)[k] = k
<1>1. \A k \in 1..n : k \in 1..m
  OBVIOUS
<1>2. Count(n) \in [1..n -> 1..m]
  BY <1>1 DEF Count
<1>3. Count(n) \in Seq(1..m)
  BY <1>2, SeqDef
<1>. QED  BY <1>2, <1>3 DEF Count

(* What Head, Tail and Append do, number by number.                        *)
LEMMA HeadTailFacts ==
  ASSUME NEW S, NEW s \in Seq(S), s # <<>>
  PROVE  /\ Head(s) = s[1] /\ Head(s) \in S /\ Tail(s) \in Seq(S)
         /\ Len(s) \in Nat /\ Len(s) >= 1 /\ Len(Tail(s)) = Len(s) - 1
         /\ \A k \in 1..(Len(s) - 1) : Tail(s)[k] = s[k + 1]
  BY HeadTailProperties, EmptySeq, LenProperties

LEMMA AppendFacts ==
  ASSUME NEW S, NEW s \in Seq(S), NEW e \in S
  PROVE  /\ Append(s, e) \in Seq(S)
         /\ Len(s) \in Nat /\ Len(Append(s, e)) = Len(s) + 1
         /\ \A k \in 1..Len(s) : Append(s, e)[k] = s[k]
         /\ Append(s, e)[Len(s) + 1] = e
  BY AppendProperties, LenProperties

LEMMA AppendCount ==
  ASSUME NEW n \in Nat
  PROVE  Append(Count(n), n + 1) = Count(n + 1)
<1>. DEFINE S == 1..(n + 1)
            a == Append(Count(n), n + 1)
<1>1. /\ Count(n) \in Seq(S) /\ Len(Count(n)) = n
      /\ \A k \in 1..n : Count(n)[k] = k
  BY CountSeq
<1>2. /\ Count(n + 1) \in Seq(1..(n + 1)) /\ Len(Count(n + 1)) = n + 1
      /\ \A k \in 1..(n + 1) : Count(n + 1)[k] = k
  BY CountSeq
<1>3. n + 1 \in S
  OBVIOUS
<1>4. /\ a \in Seq(S) /\ Len(a) = n + 1
      /\ \A k \in 1..n : a[k] = k
      /\ a[n + 1] = n + 1
  <2>. HIDE DEF S
  <2>. QED  BY <1>1, <1>3, AppendFacts
<1>5. \A k \in 1..Len(a) : a[k] = Count(n + 1)[k]
  BY <1>2, <1>4
<1>. HIDE DEF S, a
<1>6. a = Count(n + 1)
  BY <1>2, <1>4, <1>5, SeqEqual DEF S
<1>. QED  BY <1>6 DEF a

LEMMA InitSInv == Init => SInv
<1>. SUFFICES ASSUME Init  PROVE SInv
  OBVIOUS
<1>. USE NoneIsNoHandler
<1>1. TypeOK
  <2>1. /\ client \in [Runs -> ClientPlaces] /\ leaving \subseteq Runs
        /\ tcp \in [Runs -> Handlers \cup {None}]
        /\ typed \in [Runs -> 0..MaxKeys] /\ fed \in [Runs -> 0..MaxKeys]
        /\ \A r \in Runs : fed[r] <= typed[r]
        /\ got \in [Runs -> Seq(1..MaxOutputs)]
    BY BoundsAssumption DEF Init, ClientPlaces
  <2>2. /\ pc \in [Handlers -> Places]
        /\ recovering \in [Handlers -> Handlers \cup {None}]
        /\ held \in [Handlers -> 0..MaxOutputs]
        /\ sock \in [Handlers -> Handlers \cup {None}]
        /\ owner \in [Handlers -> Runs \cup {None}]
        /\ payload \in [Handlers -> Runs \cup {None}]
        /\ written \in [Handlers -> Seq(1..MaxOutputs)]
        /\ line \in [Handlers -> Seq(1..MaxOutputs)]
    BY BoundsAssumption DEF Init, Places
  <2>3. /\ toTerm \in Seq({"init", "key"}) /\ toServer \in Seq(1..MaxOutputs)
        /\ printed \in 0..MaxOutputs /\ losses \in 0..MaxLosses
    BY BoundsAssumption DEF Init
  <2>. QED  BY <2>1, <2>2, <2>3 DEF Init, TypeOK
<1>2. IInv
  BY InitInv
<1>3. FrontInv /\ SockInv /\ UseInv
  BY DEF Init, FrontInv, SockInv, UseInv, Front, First, Using, Relaying
<1>4. \A n \in {0} : Count(n) = <<>>
  BY DEF Count
<1>5. OutputInv
  BY <1>4 DEF Init, OutputInv, OutputIsKept, Front, First, Using, Relaying
<1>6. PayloadInv /\ OwnerInv
  BY DEF Init, PayloadInv, PayloadAt, OwnerInv, OwnerAt, Front, First, Using, Relaying, None, Runs
<1>7. LineInv /\ OutputInOrder
  BY <1>4, BoundsAssumption DEF Init, LineInv, OutputInOrder
<1>. QED  BY <1>1, <1>2, <1>3, <1>5, <1>6, <1>7 DEF SInv

LEMMA RunsAreInts == Runs \subseteq Int /\ Handlers \subseteq Int
  BY DEF Runs, Handlers

(* A process that runs is the only one.                                    *)
LEMMA Alone ==
  ASSUME TypeOK, FrontInv, NEW q \in Runs, NEW r \in Runs,
         client[q] \notin Gone \cup {"off"}, client[r] \notin Gone \cup {"off"}
  PROVE  q = r
<1>1. q < r \/ r < q \/ q = r
  BY RunsAreInts
<1>. QED  BY <1>1 DEF FrontInv

LEMMA SocketAlone ==
  ASSUME TypeOK, IInv, FrontInv, NEW q \in Runs, NEW r \in Runs,
         tcp[q] # None, tcp[r] # None
  PROVE  q = r
  BY Alone DEF IInv, PlaceInv, Gone

-----------------------------------------------------------------------------
(* A process connects: nobody else has a connection, no handler is on its  *)
(* way to one, and the one that uses the pipe has lost its own.            *)
Dials(r, h) ==
  /\ NoTakeover
  /\ \/ client[r] = "off" /\ \A q \in Runs : q < r => client[q] \in Gone
     \/ client[r] = "polling"
  /\ Dial(r, h)
  /\ client' = [client EXCEPT ![r] = IF @ = "off" THEN "asked" ELSE "polled"]

LEMMA DialFinds ==
  ASSUME SInv, NEW r \in Runs, NEW h \in Handlers, Dials(r, h)
  PROVE  /\ \A q \in Runs : tcp[q] = None
         /\ \A t \in Handlers : pc[t] \notin Front \cup First
         /\ PipeOpen => \A t \in Handlers : pc[t] \in Using => sock[t] = None
         /\ pc[h] \in {"free", "done"} /\ registered # h /\ sock[h] = None
         /\ \A c \in Handlers : sock[c] # h
<1>. USE NoneIsNoHandler
<1>1. ASSUME NEW q \in Runs  PROVE tcp[q] = None
  <2>1. CASE q = r
    BY <2>1 DEF Dials, SInv, IInv, PlaceInv
  <2>2. CASE q < r
    BY <2>2 DEF Dials, SInv, FrontInv, IInv, PlaceInv, Gone
  <2>3. CASE r < q
    <3>1. client[q] = "off"
      BY <2>3 DEF Dials, SInv, FrontInv, Gone
    <3>. QED  BY <3>1 DEF SInv, IInv, PlaceInv
  <2>. QED  BY <2>1, <2>2, <2>3, RunsAreInts
<1>2. \A t \in Handlers : At(t) = {}
  BY <1>1 DEF At
<1>3. \A t \in Handlers :
        /\ pc[t] \notin Front
        /\ Watches(t) => sock[t] = None
  <2>1. ServerHasNoticed /\ sock \in [Handlers -> Handlers \cup {None}]
    BY DEF Dials, Dial, NoTakeover, SInv, TypeOK
  <2>. QED  BY <1>2, <2>1 DEF ServerHasNoticed, Front
<1>4. \A t \in Handlers : pc[t] \in First => Watches(t) /\ sock[t] # None
  BY DEF SInv, SockInv, First, Watches
<1>5. PipeOpen => \A t \in Handlers : pc[t] \in Using => Watches(t)
  BY DEF Using, Relaying, Watches
<1>6. /\ pc[h] \in {"free", "done"} /\ registered # h /\ sock[h] = None
      /\ \A c \in Handlers : sock[c] # h
  BY DEF Dials, Dial, Unused
<1>. QED  BY <1>1, <1>3, <1>4, <1>5, <1>6

LEMMA DialSInv ==
  ASSUME SInv, IInv', NEW r \in Runs, NEW h \in Handlers, Dials(r, h)
  PROVE  SInv'
<1>. USE NoneIsNoHandler
<1>1. /\ \A q \in Runs : tcp[q] = None
      /\ \A t \in Handlers : pc[t] \notin Front \cup First
      /\ PipeOpen => \A t \in Handlers : pc[t] \in Using => sock[t] = None
      /\ pc[h] \in {"free", "done"} /\ registered # h /\ sock[h] = None
      /\ \A c \in Handlers : sock[c] # h
  BY DialFinds
<1>2. /\ tcp' = [tcp EXCEPT ![r] = h]
      /\ pc' = [pc EXCEPT ![h] = "answer"]
      /\ client' = [client EXCEPT ![r] = IF @ = "off" THEN "asked" ELSE "polled"]
      /\ owner' = [owner EXCEPT ![h] = None]
      /\ payload' = [payload EXCEPT ![h] = None]
      /\ written' = [written EXCEPT ![h] = <<>>]
      /\ line' = [line EXCEPT ![h] = <<>>]
      /\ UNCHANGED <<leaving, typed, fed, got, recovering, held, sock, known, registered,
                     pipeServer, pipeTerm, toTerm, toServer, shell, reader, writer,
                     printed, losses>>
  BY DEF Dials, Dial, Goto, registry, pipe, terminal
<1>3. client[r] \in {"off", "polling"}
  BY DEF Dials
<1>. USE DEF SInv
<1>4. TypeOK'
  <2>1. written' \in [Handlers -> Seq(1..MaxOutputs)] /\ line' \in [Handlers -> Seq(1..MaxOutputs)]
    BY <1>2 DEF TypeOK
  <2>2. client' \in [Runs -> ClientPlaces] /\ pc' \in [Handlers -> Places]
    BY <1>2 DEF TypeOK, ClientPlaces, Places
  <2>3. /\ tcp' \in [Runs -> Handlers \cup {None}]
        /\ owner' \in [Handlers -> Runs \cup {None}]
        /\ payload' \in [Handlers -> Runs \cup {None}]
    BY <1>2 DEF TypeOK
  <2>. QED  BY <1>2, <2>1, <2>2, <2>3, TypeParts, FlagFrame
       DEF PlaceTypes, PacketTypes, Places, Relaying
<1>5. FrontInv'
  <2>1. \A q, p \in Runs : q < p /\ client'[p] # "off" => client'[q] \in Gone
    BY <1>2, RunsAreInts DEF FrontInv, TypeOK, Dials, Gone
  <2>. QED  BY <2>1, <1>1, <1>2 DEF FrontInv, TypeOK, First, Front
<1>6. SockInv'
  BY <1>1, <1>2 DEF SockInv, TypeOK, First, Front
<1>7. UseInv'
  BY <1>1, <1>2 DEF UseInv, TypeOK, First, Front, Using, Relaying, PipeOpen
<1>8. OutputInv'
  <2>1. \A g \in Handlers : pc'[g] \in Relaying => g # h /\ pc[g] \in Relaying
    BY <1>2 DEF TypeOK, Relaying
  <2>2. OutputIsKept'
    BY <1>2, <2>1 DEF OutputInv, OutputIsKept, TypeOK
  <2>3. Count(0) = <<>>
    BY DEF Count
  <2>4. \A c \in Handlers : written'[c] = Count(Len(written'[c])) /\ Len(written'[c]) <= printed'
    BY <1>2, <2>3 DEF OutputInv, TypeOK
  <2>. QED  BY <1>1, <1>2, <2>2, <2>4 DEF OutputInv, TypeOK, PipeOpen, Relaying, Front, First
<1>9. PayloadInv'
  BY <1>1, <1>2, <1>3 DEF PayloadInv, PayloadAt, TypeOK, First, Front, Using, Relaying
<1>10. OwnerInv'
  <2>. SUFFICES ASSUME NEW q \in Runs  PROVE OwnerAt(q)'
    BY DEF OwnerInv
  <2>1. OwnerAt(q)
    BY DEF OwnerInv
  <2>2. \A c \in Handlers : owner'[c] = q =>
          c # h /\ owner[c] = q /\ written'[c] = written[c]
    BY <1>2 DEF TypeOK
  <2>3. \A c \in Handlers : sock'[c] = tcp'[q] => sock'[c] = None
    BY <1>1, <1>2 DEF TypeOK
  <2>4. CASE q = r
    <3>1. client'[q] = IF client[q] = "off" THEN "asked" ELSE "polled"
      BY <1>2, <2>4 DEF TypeOK
    <3>. QED  BY <1>2, <1>3, <2>1, <2>2, <2>3, <2>4, <3>1 DEF OwnerAt
  <2>5. CASE q # r
    <3>1. client'[q] = client[q] /\ tcp'[q] = tcp[q]
      BY <1>2, <2>5 DEF TypeOK
    <3>. QED  BY <1>2, <2>1, <2>2, <2>3, <3>1 DEF OwnerAt
  <2>. QED  BY <2>4, <2>5
<1>11. LineInv'
  <2>. SUFFICES ASSUME NEW q \in Runs, NEW t \in Handlers, tcp'[q] = t
                PROVE  LineAt(q, t)'
    BY DEF LineInv
  <2>1. q = r /\ t = h /\ line'[t] = <<>> /\ got'[q] = got[q]
    BY <1>1, <1>2 DEF TypeOK
  <2>2. Len(got[q]) \in Nat /\ Len(got[q]) <= printed /\ printed' = printed
    BY <1>2 DEF OutputInOrder, TypeOK
  <2>3. \A c \in Handlers : owner'[c] = q => Len(got[q]) <= Len(written'[c])
    <3>. SUFFICES ASSUME NEW c \in Handlers, owner'[c] = q
                  PROVE  Len(got[q]) <= Len(written'[c])
      OBVIOUS
    <3>1. owner[c] = q /\ written'[c] = written[c]
      BY <1>2 DEF TypeOK
    <3>. QED  BY <3>1 DEF OwnerInv, OwnerAt
  <2>4. \A c \in Handlers : sock'[c] # t
    BY <1>1, <1>2, <2>1
  <2>. QED  BY <2>1, <2>2, <2>3, <2>4 DEF LineAt
<1>12. OutputInOrder'
  BY <1>2, OrderFrame
<1>. QED  BY <1>4, <1>5, <1>6, <1>7, <1>8, <1>9, <1>10, <1>11, <1>12

(* A process loses its connection.                                         *)
LEMMA DropSInv ==
  ASSUME SInv, IInv', NEW r \in Runs, tcp[r] # None, Drop(r), losses' \in 0..MaxLosses
  PROVE  SInv'
<1>. USE NoneIsNoHandler DEF SInv
<1>. DEFINE t == tcp[r]
<1>1. /\ tcp' = [tcp EXCEPT ![r] = None]
      /\ line' = [line EXCEPT ![t] = <<>>]
      /\ client' = [client EXCEPT ![r] = IF @ = "asked" THEN "failed" ELSE "polling"]
      /\ leaving' = IF client[r] = "hello" THEN leaving \cup {r} ELSE leaving
      /\ UNCHANGED <<typed, fed, got, pc, recovering, held, sock, owner, payload, written,
                     known, registered, pipeServer, pipeTerm, toTerm, toServer,
                     shell, reader, writer, printed>>
  BY DEF Drop, registry, pipe, terminal
<1>2. /\ t \in Handlers
      /\ client[r] \in {"asked", "hello", "attached", "polled"}
      /\ \A q \in Runs : q # r => tcp[q] = None
      /\ r \in leaving => client[r] = "polled"
  <2>1. t \in Handlers /\ client[r] \in {"asked", "hello", "attached", "polled"}
    BY DEF TypeOK, IInv, PlaceInv
  <2>2. r \in leaving => client[r] \in {"polling", "polled", "refused"}
    BY DEF OwnerInv, OwnerAt
  <2>. QED  BY <2>1, <2>2, SocketAlone
<1>. HIDE DEF t
<1>3. TypeOK'
  <2>1. /\ client' \in [Runs -> ClientPlaces] /\ tcp' \in [Runs -> Handlers \cup {None}]
        /\ leaving' \subseteq Runs
    BY <1>1, <1>2 DEF TypeOK, ClientPlaces
  <2>2. line' \in [Handlers -> Seq(1..MaxOutputs)]
    BY <1>1, <1>2 DEF TypeOK
  <2>. QED  BY <1>1, <2>1, <2>2, TypeParts, FlagFrame
       DEF PlaceTypes, PacketTypes, Places, Relaying
<1>4. FrontInv'
  <2>1. \A q, p \in Runs : q < p /\ client'[p] # "off" => client'[q] \in Gone
    BY <1>1, <1>2, RunsAreInts DEF FrontInv, TypeOK, Gone
  <2>. QED  BY <2>1, <1>1, <1>2 DEF FrontInv, TypeOK
<1>5. SockInv' /\ UseInv' /\ OutputInv' /\ OutputInOrder'
  BY <1>1, SockFrame, UseFrame, OutputFrame, OrderFrame
<1>6. PayloadInv'
  <2>. SUFFICES ASSUME NEW h \in Handlers  PROVE PayloadAt(h)'
    BY DEF PayloadInv
  <2>1. PayloadAt(h)
    BY DEF PayloadInv
  <2>2. \A q \in Runs : tcp'[q] = h => tcp[q] = h
    BY <1>1 DEF TypeOK
  <2>3. ASSUME NEW q \in Runs, pc[h] \in {"store", "initial"}, payload[h] = q
        PROVE  q \in leaving' \/ client'[q] \in Gone \/ (client'[q] = "hello" /\ tcp'[q] = h)
    <3>1. \/ client[q] = "hello" /\ tcp[q] = h
          \/ q \in leaving \/ client[q] \in Gone
      BY <2>1, <2>3 DEF PayloadAt
    <3>2. leaving \subseteq leaving' /\ (client[r] = "hello" => r \in leaving')
      BY <1>1
    <3>3. CASE q = r
      BY <1>2, <3>1, <3>2, <3>3 DEF Gone
    <3>4. CASE q # r
      <4>1. client'[q] = client[q] /\ tcp'[q] = tcp[q]
        BY <1>1, <3>4 DEF TypeOK
      <4>. QED  BY <3>1, <3>2, <4>1
    <3>. QED  BY <3>3, <3>4
  <2>. QED  BY <1>1, <2>1, <2>2, <2>3 DEF PayloadAt
<1>7. OwnerInv'
  <2>. SUFFICES ASSUME NEW q \in Runs  PROVE OwnerAt(q)'
    BY DEF OwnerInv
  <2>1. OwnerAt(q)
    BY DEF OwnerInv
  <2>2. CASE q = r
    BY <1>1, <1>2, <2>1, <2>2 DEF OwnerAt, TypeOK
  <2>3. CASE q # r
    BY <1>1, <2>1, <2>3 DEF OwnerAt, TypeOK
  <2>. QED  BY <2>2, <2>3
<1>8. LineInv'
  BY <1>1, <1>2 DEF LineInv, TypeOK
<1>. QED  BY <1>3, <1>4, <1>5, <1>6, <1>7, <1>8

LEMMA KillSInv ==
  ASSUME SInv, IInv', NEW r \in Runs, Kill(r)
  PROVE  SInv'
<1>. USE NoneIsNoHandler DEF SInv
<1>1. /\ client[r] \notin Gone \cup {"off"}
      /\ tcp' = [tcp EXCEPT ![r] = None]
      /\ line' = [t \in Handlers |-> IF t = tcp[r] THEN <<>> ELSE line[t]]
      /\ client' = [client EXCEPT ![r] = "killed"]
      /\ leaving' = leaving \ {r}
      /\ UNCHANGED <<typed, fed, got, pc, recovering, held, sock, owner, payload, written,
                     known, registered, pipeServer, pipeTerm, toTerm, toServer,
                     shell, reader, writer, printed, losses>>
  BY DEF Kill, registry, pipe, terminal
<1>2. \A q \in Runs : q # r => tcp[q] = None
  BY <1>1, Alone DEF TypeOK, IInv, PlaceInv, Gone
<1>3. TypeOK'
  <2>1. /\ client' \in [Runs -> ClientPlaces] /\ tcp' \in [Runs -> Handlers \cup {None}]
        /\ leaving' \subseteq Runs
    BY <1>1 DEF TypeOK, ClientPlaces
  <2>2. \A t \in Handlers : line'[t] \in Seq(1..MaxOutputs)
    BY <1>1, EmptySeq DEF TypeOK
  <2>3. line' \in [Handlers -> Seq(1..MaxOutputs)]
    BY <1>1, <2>2
  <2>. QED  BY <1>1, <2>1, <2>3, TypeParts, FlagFrame
       DEF PlaceTypes, PacketTypes, Places, Relaying
<1>4. FrontInv'
  <2>1. \A q, p \in Runs : q < p /\ client'[p] # "off" => client'[q] \in Gone
    BY <1>1, RunsAreInts DEF FrontInv, TypeOK, Gone
  <2>. QED  BY <2>1, <1>1, <1>2 DEF FrontInv, TypeOK
<1>5. SockInv' /\ UseInv' /\ OutputInv' /\ OutputInOrder'
  BY <1>1, SockFrame, UseFrame, OutputFrame, OrderFrame
<1>6. PayloadInv'
  BY <1>1, <1>2 DEF PayloadInv, PayloadAt, TypeOK, Gone
<1>7. OwnerInv'
  BY <1>1, <1>2 DEF OwnerInv, OwnerAt, TypeOK
<1>8. LineInv'
  BY <1>1, <1>2 DEF LineInv, TypeOK
<1>. QED  BY <1>3, <1>4, <1>5, <1>6, <1>7, <1>8

LEMMA WelcomeSInv ==
  ASSUME SInv, IInv', NEW r \in Runs, Welcome(r)
  PROVE  SInv'
<1>. USE NoneIsNoHandler DEF SInv
<1>1. /\ client[r] = "hello" /\ tcp[r] # None /\ owner[tcp[r]] = r
      /\ client' = [client EXCEPT ![r] = "attached"]
      /\ UNCHANGED <<leaving, tcp, typed, fed, got, pc, recovering, held, sock, owner, payload,
                     written, line, known, registered, pipeServer, pipeTerm, toTerm,
                     toServer, shell, reader, writer, printed, losses>>
  BY DEF Welcome, conns, registry, pipe, terminal
<1>2. TypeOK'
  <2>1. client' \in [Runs -> ClientPlaces]
    BY <1>1 DEF TypeOK, ClientPlaces
  <2>. QED  BY <1>1, <2>1, TypeParts, PacketFrame, FlagFrame DEF PlaceTypes, Places, Relaying
<1>3. FrontInv'
  <2>1. \A q, p \in Runs : q < p /\ client'[p] # "off" => client'[q] \in Gone
    BY <1>1, RunsAreInts DEF FrontInv, TypeOK, Gone
  <2>. QED  BY <2>1, <1>1 DEF FrontInv, TypeOK
<1>4. SockInv' /\ UseInv' /\ OutputInv' /\ OutputInOrder' /\ LineInv'
  BY <1>1, SockFrame, UseFrame, OutputFrame, OrderFrame, LineFrame
<1>5. PayloadInv'
  <2>. SUFFICES ASSUME NEW g \in Handlers  PROVE PayloadAt(g)'
    BY DEF PayloadInv
  <2>1. PayloadAt(g)
    BY DEF PayloadInv
  <2>2. tcp[r] = g => pc[g] \notin Front \cup {"initial"}
    BY <1>1, <2>1 DEF PayloadAt
  <2>3. \A q \in Runs : /\ client[q] = "hello" /\ q # r => client'[q] = "hello"
                        /\ client[q] \in Gone => client'[q] \in Gone
    BY <1>1 DEF TypeOK, Gone
  <2>. QED  BY <1>1, <2>1, <2>2, <2>3 DEF PayloadAt, Front
<1>6. OwnerInv'
  <2>. SUFFICES ASSUME NEW q \in Runs  PROVE OwnerAt(q)'
    BY DEF OwnerInv
  <2>1. OwnerAt(q)
    BY DEF OwnerInv
  <2>2. CASE q = r
    BY <1>1, <2>1, <2>2 DEF OwnerAt, TypeOK
  <2>3. CASE q # r
    BY <1>1, <2>1, <2>3 DEF OwnerAt, TypeOK
  <2>. QED  BY <2>2, <2>3
<1>. QED  BY <1>2, <1>3, <1>4, <1>5, <1>6

LEMMA ReceiveSInv ==
  ASSUME SInv, IInv', NEW r \in Runs, Receive(r)
  PROVE  SInv'
<1>. DEFINE Out == 1..MaxOutputs
<1>. USE NoneIsNoHandler DEF SInv
<1>1. PICK t \in Handlers :
        /\ tcp[r] = t
        /\ client[r] = "attached" /\ line[t] # <<>>
        /\ got' = [got EXCEPT ![r] = Append(got[r], Head(line[t]))]
        /\ line' = [line EXCEPT ![t] = Tail(line[t])]
        /\ UNCHANGED <<client, leaving, tcp, typed, fed, pc, recovering, held, sock, owner,
                       payload, written, known, registered, pipeServer, pipeTerm, toTerm,
                       toServer, shell, reader, writer, printed, losses>>
  BY DEF Receive, TypeOK, registry, pipe, terminal
<1>2. \A q \in Runs : q # r => tcp[q] = None
  BY <1>1, SocketAlone
<1>3. LineAt(r, t) /\ OwnerAt(r) /\ r \notin leaving
  BY <1>1 DEF LineInv, OwnerInv, OwnerAt
<1>4. pc[t] \notin Front
  BY <1>1, <1>3 DEF LineAt
<1>5. PICK g, l : g = got[r] /\ l = line[t]
  OBVIOUS
<1>6. g \in Seq(Out) /\ l \in Seq(Out) /\ l # <<>> /\ printed \in Int
  BY <1>1, <1>5 DEF TypeOK
<1>. HIDE DEF Out
<1>7. /\ Head(l) = l[1] /\ Head(l) \in Out /\ Tail(l) \in Seq(Out)
      /\ Len(l) \in Nat /\ Len(l) >= 1 /\ Len(Tail(l)) = Len(l) - 1
      /\ \A k \in 1..(Len(l) - 1) : Tail(l)[k] = l[k + 1]
  BY <1>6, HeadTailFacts
<1>8. /\ Append(g, Head(l)) \in Seq(Out)
      /\ Len(g) \in Nat /\ Len(Append(g, Head(l))) = Len(g) + 1
  BY <1>6, <1>7, AppendFacts
<1>9. got'[r] = Append(g, Head(l)) /\ line'[t] = Tail(l)
  BY <1>1, <1>5 DEF TypeOK
<1>10. /\ \A k \in 1..Len(l) : l[k] = Len(g) + k
       /\ Len(g) + Len(l) <= printed
       /\ \A c \in Handlers :
            /\ owner[c] = r => Len(g) + Len(l) <= Len(written[c])
            /\ sock[c] = t => Len(g) + Len(l) = Len(written[c])
  BY <1>3, <1>5 DEF LineAt
<1>11. Head(l) = Len(g) + 1 /\ Len(g) + 1 <= printed
  <2>1. 1 \in 1..Len(l)
    BY <1>7
  <2>. QED  BY <1>6, <1>7, <1>8, <1>10, <2>1
<1>12. TypeOK'
  <2>1. got' \in [Runs -> Seq(Out)] /\ line' \in [Handlers -> Seq(Out)]
    BY <1>1, <1>7, <1>8, <1>9 DEF TypeOK, Out
  <2>. QED
    BY <1>1, <2>1, TypeParts, FlagFrame DEF PlaceTypes, PacketTypes, Out
<1>13. FrontInv' /\ SockInv' /\ UseInv' /\ OutputInv'
  BY <1>1, FrontFrame, SockFrame, UseFrame, OutputFrame
<1>14. PayloadInv'
  <2>. SUFFICES ASSUME NEW h \in Handlers  PROVE PayloadAt(h)'
    BY DEF PayloadInv
  <2>1. PayloadAt(h)
    BY DEF PayloadInv
  <2>2. pc[h] \in {"store", "initial"} => payload[h] # r
    BY <1>1, <1>3, <2>1 DEF PayloadAt, Gone
  <2>. QED  BY <1>1, <2>1, <2>2 DEF PayloadAt, TypeOK
<1>15. OwnerInv'
  <2>. SUFFICES ASSUME NEW q \in Runs  PROVE OwnerAt(q)'
    BY DEF OwnerInv
  <2>1. OwnerAt(q)
    BY DEF OwnerInv
  <2>2. ASSUME NEW c \in Handlers, owner[c] = r  PROVE Len(got'[r]) <= Len(written[c])
    <3>1. PICK w : w = written[c]
      OBVIOUS
    <3>2. Len(w) \in Nat /\ Len(g) + Len(l) <= Len(w)
      BY <1>10, <2>2, <3>1, LenProperties DEF TypeOK
    <3>3. Len(Append(g, Head(l))) <= Len(w)
      BY <1>7, <1>8, <3>2
    <3>. QED  BY <1>9, <3>1, <3>3, Zenon
  <2>3. CASE q = r
    BY <1>1, <1>3, <2>1, <2>2, <2>3 DEF OwnerAt, TypeOK
  <2>4. CASE q # r
    BY <1>1, <2>1, <2>4 DEF OwnerAt, TypeOK
  <2>. QED  BY <2>3, <2>4
<1>16. LineInv'
  <2>1. Len(Append(g, Head(l))) + Len(Tail(l)) = Len(g) + Len(l)
    BY <1>7, <1>8
  <2>2. \A k \in 1..Len(Tail(l)) : Tail(l)[k] = Len(Append(g, Head(l))) + k
    BY <1>7, <1>8, <1>10
  <2>3. LineAt(r, t)'
    BY <1>1, <1>4, <1>9, <1>10, <2>1, <2>2, Zenon DEF LineAt
  <2>4. \A q \in Runs, u \in Handlers : tcp'[q] = u => q = r /\ u = t
    BY <1>1, <1>2
  <2>. QED  BY <2>3, <2>4 DEF LineInv
<1>17. OutputInOrder'
  <2>1. g = Count(Len(g))
    BY <1>5 DEF OutputInOrder
  <2>2. Append(g, Head(l)) = Count(Len(g) + 1)
    BY <1>8, <1>11, <2>1, AppendCount
  <2>3. got'[r] = Count(Len(got'[r])) /\ Len(got'[r]) <= printed
    BY <1>8, <1>9, <1>11, <2>2, Zenon
  <2>4. \A q \in Runs : q # r => got'[q] = got[q]
    BY <1>1 DEF TypeOK
  <2>. QED  BY <1>1, <2>3, <2>4 DEF OutputInOrder
<1>. QED  BY <1>12, <1>13, <1>14, <1>15, <1>16, <1>17

LEMMA TypeSInv ==
  ASSUME SInv, IInv', NEW r \in Runs, Type(r)
  PROVE  SInv'
<1>. USE DEF SInv
<1>1. /\ typed[r] < MaxKeys
      /\ typed' = [typed EXCEPT ![r] = @ + 1]
      /\ UNCHANGED <<client, leaving, tcp, fed, got, pc, recovering, held, sock, owner, payload,
                     written, line, known, registered, pipeServer, pipeTerm, toTerm,
                     toServer, shell, reader, writer, printed, losses>>
  BY DEF Type, conns, registry, pipe, terminal
<1>2. TypeOK'
  <2>1. \A q \in Runs : typed'[q] \in 0..MaxKeys /\ fed'[q] <= typed'[q]
    <3>. SUFFICES ASSUME NEW q \in Runs
                  PROVE  typed'[q] \in 0..MaxKeys /\ fed'[q] <= typed'[q]
      OBVIOUS
    <3>1. typed[q] \in 0..MaxKeys /\ fed[q] \in 0..MaxKeys /\ fed[q] <= typed[q]
      BY DEF TypeOK
    <3>2. fed' = fed /\ typed'[q] = IF q = r THEN typed[q] + 1 ELSE typed[q]
      BY <1>1 DEF TypeOK
    <3>. QED  BY <1>1, <3>1, <3>2, BoundsAssumption
  <2>2. typed' \in [Runs -> 0..MaxKeys]
    BY <1>1, <2>1 DEF TypeOK
  <2>. QED  BY <1>1, <2>1, <2>2, TypeParts, PacketFrame, FlagFrame
       DEF PlaceTypes, Places, Relaying
<1>. QED
  BY <1>1, <1>2, FrontFrame, SockFrame, UseFrame, OutputFrame, PayloadFrame, OwnerFrame,
     LineFrame, OrderFrame

-----------------------------------------------------------------------------
(* A handler goes on to p, which is past its use of the pipe, or stays in  *)
(* its loop; on the way sockets may be closed, but not those of first      *)
(* contacts of others.  A process whose request it was reading is turned   *)
(* away.                                                                   *)
Quits(h) ==
  /\ \/ \E p \in {"close", "unregister", "hangup", "done"} : pc' = [pc EXCEPT ![h] = p]
     \/ pc' = pc /\ pc[h] \in Relaying
  /\ pc[h] \in Relaying /\ pc' # pc => ~PipeOpen
  /\ pc'[h] = "close" => pc[h] = "relay"
  /\ \A c \in Handlers : sock'[c] \in {sock[c], None}
  /\ \A c \in Handlers : c # h /\ pc[c] \in First => sock'[c] = sock[c]
  /\ pc[h] = "initial" => sock'[h] = None
  /\ \A r \in Runs :
       IF tcp[r] = h /\ pc[h] \in {"answer", "recover"}
         THEN /\ tcp'[r] = None
              /\ \/ client[r] = "asked" /\ client'[r] = "failed"
                 \/ client[r] = "polled" /\ client'[r] \in {"refused", "polling"}
         ELSE tcp'[r] = tcp[r] /\ client'[r] = client[r]
  /\ registered' \in {registered, None}
  /\ PipeOpen' => PipeOpen /\ registered' = registered
  /\ UNCHANGED toServer \/ (toServer' = <<>> /\ \A g \in Handlers : pc'[g] \notin Relaying)
  /\ UNCHANGED <<leaving, got, recovering, held, owner, payload, written, line, toTerm,
                 shell, writer, printed>>

LEMMA QuitSInv ==
  ASSUME SInv, IInv', TypeOK', NEW h \in Handlers, Quits(h)
  PROVE  SInv'
<1>. USE NoneIsNoHandler DEF SInv
<1>1. /\ \A g \in Handlers : g # h => pc'[g] = pc[g]
      /\ \/ pc'[h] \in {"close", "unregister", "hangup", "done"}
         \/ pc'[h] = pc[h] /\ pc[h] \in Relaying
  BY DEF Quits, TypeOK
<1>2. \A g \in Handlers :
        /\ pc'[g] \in Front \cup First \cup {"init"} \cup Relaying => pc'[g] = pc[g]
        /\ pc'[g] \in Front \cup First \cup {"init"} => g # h
  BY <1>1 DEF Front, First, Relaying
<1>3. FrontInv'
  <2>1. \A r \in Runs : client'[r] # "off" => client[r] # "off"
    BY DEF Quits
  <2>2. \A r \in Runs : client[r] \in Gone => client'[r] \in Gone
    BY DEF Quits, Gone
  <2>3. \A r \in Runs, t \in Handlers :
          tcp'[r] = t /\ client'[r] \in {"asked", "polled"} => pc'[t] \in {"answer", "recover"}
    BY <1>1 DEF Quits, FrontInv
  <2>. QED  BY <1>2, <2>1, <2>2, <2>3 DEF FrontInv
<1>4. SockInv'
  BY <1>1, <1>2 DEF SockInv, Quits, Front, First
<1>5. UseInv'
  <2>1. PipeOpen' =>
          /\ \A g \in Handlers : pc'[g] \in First \cup Using => registered' = g
          /\ \A f, g \in Handlers :
               pc'[f] \in Front /\ pc'[g] \in Using => sock'[g] = None /\ pc'[f] # "store"
    BY <1>2 DEF UseInv, Quits, Front, First, Using
  <2>2. \A f, g \in Handlers : {pc'[f], pc'[g]} \subseteq {"close"} \cup Relaying => f = g
    BY <1>1 DEF UseInv, Quits, Relaying
  <2>. QED  BY <2>1, <2>2 DEF UseInv
<1>6. OutputInv'
  <2>1. OutputIsKept'
    BY <1>2 DEF OutputInv, OutputIsKept, Quits
  <2>2. PipeOpen' /\ (\A g \in Handlers : pc'[g] \notin Relaying)
          => \A g \in Handlers : pc[g] \notin Relaying
    BY <1>1 DEF Quits
  <2>3. PipeOpen' /\ (\A g \in Handlers : pc'[g] \notin Relaying) => toServer' = <<>>
    BY <2>2 DEF OutputInv, Quits
  <2>. QED  BY <1>2, <2>1, <2>2, <2>3 DEF OutputInv, Quits, Relaying
<1>7. PayloadInv'
  <2>. SUFFICES ASSUME NEW g \in Handlers  PROVE PayloadAt(g)'
    BY DEF PayloadInv
  <2>1. PayloadAt(g)
    BY DEF PayloadInv
  <2>2. pc'[g] \in Front \cup {"initial", "attach"} \cup Using => pc'[g] = pc[g]
    BY <1>2 DEF Using, First
  <2>3. pc'[g] \in {"store", "initial"} => g # h
    BY <1>2 DEF Front, First
  <2>4. ASSUME NEW r \in Runs, pc'[g] \in {"store", "initial"}
        PROVE  /\ tcp'[r] = g => tcp[r] = g
               /\ client[r] = "hello" /\ tcp[r] = g => client'[r] = "hello" /\ tcp'[r] = g
               /\ client[r] \in Gone => client'[r] \in Gone
    BY <2>3, <2>4 DEF Quits, Gone
  <2>5. UNCHANGED <<owner, payload, got, leaving>>
    BY DEF Quits
  <2>. QED  BY <2>1, <2>2, <2>4, <2>5 DEF PayloadAt, Front
<1>8. OwnerInv'
  <2>. SUFFICES ASSUME NEW r \in Runs  PROVE OwnerAt(r)'
    BY DEF OwnerInv
  <2>1. OwnerAt(r)
    BY DEF OwnerInv
  <2>2. UNCHANGED <<owner, got, leaving, written>>
    BY DEF Quits
  <2>3. \A c \in Handlers :
          sock'[c] = tcp'[r] /\ sock'[c] # None /\ pc'[c] # "initial" =>
            sock[c] = tcp[r] /\ sock[c] # None /\ pc[c] # "initial"
    <3>. SUFFICES ASSUME NEW c \in Handlers,
                         sock'[c] = tcp'[r], sock'[c] # None, pc'[c] # "initial"
                  PROVE  sock[c] = tcp[r] /\ sock[c] # None /\ pc[c] # "initial"
      OBVIOUS
    <3>1. sock'[c] = sock[c] /\ tcp'[r] = tcp[r]
      BY DEF Quits
    <3>2. pc[c] # "initial"
      BY <1>1 DEF Quits
    <3>. QED  BY <3>1, <3>2
  <2>4. CASE tcp'[r] = tcp[r] /\ client'[r] = client[r]
    BY <2>1, <2>2, <2>3, <2>4 DEF OwnerAt
  <2>5. CASE tcp'[r] = None /\ client[r] = "asked" /\ client'[r] = "failed"
    BY <2>1, <2>2, <2>5 DEF OwnerAt
  <2>6. CASE tcp'[r] = None /\ client[r] = "polled" /\ client'[r] \in {"refused", "polling"}
    BY <2>1, <2>2, <2>6 DEF OwnerAt
  <2>. QED  BY <2>4, <2>5, <2>6 DEF Quits
<1>9. LineInv'
  <2>. SUFFICES ASSUME NEW r \in Runs, NEW t \in Handlers, tcp'[r] = t
                PROVE  LineAt(r, t)'
    BY DEF LineInv
  <2>1. LineAt(r, t)
    BY DEF LineInv, Quits
  <2>2. UNCHANGED <<owner, got, line, written, printed>>
    BY DEF Quits
  <2>3. /\ pc'[t] \in Front => pc[t] \in Front
        /\ \A c \in Handlers : sock'[c] = t => sock[c] = t
    BY <1>2 DEF Quits
  <2>. QED  BY <2>1, <2>2, <2>3 DEF LineAt
<1>10. OutputInOrder'
  BY OrderFrame DEF Quits
<1>. QED  BY <1>3, <1>4, <1>5, <1>6, <1>7, <1>8, <1>9, <1>10

(* sessions_ keeps a closed connection alive: c lives while its handler    *)
(* has not finished.                                                       *)
LEMMA FirstLives ==
  ASSUME NEW c \in Handlers, NEW h, NEW e, pc[c] # "done"
  PROVE  Lives(c, h, e)
  BY DEF Lives

LEMMA QuitsSInv ==
  ASSUME SInv, IInv', NEW h \in Handlers,
         \/ AnswerUnknown(h) \/ RequestFails(h) \/ RecoverFails(h) \/ InitialFails(h)
         \/ LookupTerminal(h) /\ ~known
         \/ RelayLost(h) \/ RelayBreak(h) \/ ClosePipe(h) \/ UnregisterTerminal(h) \/ Hangup(h)
  PROVE  SInv'
<1>. USE NoneIsNoHandler DEF SInv
<1>. SUFFICES TypeOK' /\ Quits(h)
  BY QuitSInv
<1>1. \A r \in Runs : tcp[r] = h /\ pc[h] \in {"answer", "recover"} =>
        client[r] \in {"asked", "polled"}
  BY DEF IInv, PlaceInv
<1>2. CASE AnswerUnknown(h)
  <2>1. /\ client' = [r \in Runs |-> IF r \in At(h)
                         THEN [asked |-> "failed", polled |-> "refused"][client[r]]
                         ELSE client[r]]
        /\ tcp' = [r \in Runs |-> IF r \in At(h) THEN None ELSE tcp[r]]
        /\ pc[h] = "answer" /\ pc' = [pc EXCEPT ![h] = "done"]
        /\ UNCHANGED <<leaving, typed, fed, got, recovering, held, sock, owner, payload, written,
                       line, known, registered, pipeServer, pipeTerm, toTerm, toServer,
                       shell, reader, writer, printed, losses>>
    BY <1>2 DEF AnswerUnknown, TurnAway, Goto, conns, registry, pipe, terminal
  <2>2. TypeOK'
    BY <1>1, <2>1, TypeParts, PacketFrame, FlagFrame
         DEF PlaceTypes, Places, Relaying, At, ClientPlaces
  <2>3. Quits(h)
    BY <1>1, <2>1 DEF TypeOK, Quits, At, PipeOpen, Relaying
  <2>. QED  BY <2>2, <2>3
<1>3. CASE RequestFails(h)
  <2>1. /\ At(h) = {} /\ pc[h] = "answer" /\ pc' = [pc EXCEPT ![h] = "done"]
        /\ UNCHANGED <<client, tcp, leaving, typed, fed, got, recovering, held, sock, owner,
                       payload, written,
                       line, known, registered, pipeServer, pipeTerm, toTerm, toServer,
                       shell, reader, writer, printed, losses>>
    BY <1>3 DEF RequestFails, Goto, clients, conns, registry, pipe, terminal
  <2>2. TypeOK'
    BY <2>1, TypeParts, PacketFrame, FlagFrame DEF PlaceTypes, Places, Relaying
  <2>3. Quits(h)
    BY <2>1 DEF TypeOK, Quits, At, PipeOpen, Relaying
  <2>. QED  BY <2>2, <2>3
<1>4. CASE RecoverFails(h)
  <2>. DEFINE c == recovering[h]
  <2>1. /\ client' = [r \in Runs |-> IF r \in At(h)
                         THEN [asked |-> "failed", polled |-> "polling"][client[r]]
                         ELSE client[r]]
        /\ tcp' = [r \in Runs |-> IF r \in At(h) THEN None ELSE tcp[r]]
        /\ pc[h] = "recover" /\ pc' = [pc EXCEPT ![h] = "done"]
        /\ sock' = [sock EXCEPT ![c] = IF Lives(c, h, registered) THEN @ ELSE None]
        /\ UNCHANGED <<leaving, typed, fed, got, recovering, held, owner, payload, written,
                       line, known, registered, pipeServer, pipeTerm, toTerm, toServer,
                       shell, reader, writer, printed, losses>>
    BY <1>4 DEF RecoverFails, TurnAway, Goto, registry, pipe, terminal
  <2>2. c \in Handlers /\ \A g \in Handlers : pc[g] \notin First
    BY <2>1 DEF SockInv, FrontInv, TypeOK, Front
  <2>3. \A g \in Handlers : sock'[g] \in {sock[g], None}
    BY <2>1, <2>2 DEF TypeOK
  <2>4. TypeOK'
    <3>1. sock' \in [Handlers -> Handlers \cup {None}]
      BY <2>1, <2>2 DEF TypeOK
    <3>2. client' \in [Runs -> ClientPlaces] /\ tcp' \in [Runs -> Handlers \cup {None}]
          /\ pc' \in [Handlers -> Places]
      BY <1>1, <2>1 DEF TypeOK, At, ClientPlaces, Places
    <3>. QED  BY <2>1, <3>1, <3>2, TypeParts, PacketFrame, FlagFrame
         DEF PlaceTypes, Places, Relaying
  <2>5. \A r \in Runs :
          IF tcp[r] = h /\ pc[h] \in {"answer", "recover"}
            THEN /\ tcp'[r] = None
                 /\ \/ client[r] = "asked" /\ client'[r] = "failed"
                    \/ client[r] = "polled" /\ client'[r] \in {"refused", "polling"}
            ELSE tcp'[r] = tcp[r] /\ client'[r] = client[r]
    BY <1>1, <2>1 DEF At
  <2>. HIDE DEF c
  <2>6. pc'[h] = "done" /\ pc[h] \notin Relaying /\ pc[h] # "initial" /\ (PipeOpen' <=> PipeOpen)
    BY <2>1 DEF TypeOK, PipeOpen, Relaying
  <2>7. Quits(h)
    BY <2>1, <2>2, <2>3, <2>5, <2>6 DEF Quits
  <2>. QED  BY <2>4, <2>7
<1>5. CASE InitialFails(h)
  <2>1. /\ pc[h] = "initial" /\ pc' = [pc EXCEPT ![h] = "done"]
        /\ sock' = [sock EXCEPT ![h] = None]
        /\ UNCHANGED <<client, tcp, leaving, typed, fed, got, recovering, held, owner,
                       payload, written,
                       line, known, registered, pipeServer, pipeTerm, toTerm, toServer,
                       shell, reader, writer, printed, losses>>
    BY <1>5 DEF InitialFails, Goto, clients, registry, pipe, terminal
  <2>2. TypeOK'
    BY <2>1, TypeParts, PacketFrame, FlagFrame DEF PlaceTypes, Places, Relaying
  <2>3. Quits(h)
    BY <2>1 DEF TypeOK, Quits, At, PipeOpen, Relaying
  <2>. QED  BY <2>2, <2>3
<1>6. CASE LookupTerminal(h) /\ ~known
  <2>1. /\ pc[h] = "attach" /\ pc' = [pc EXCEPT ![h] = "done"]
        /\ sock' = [sock EXCEPT ![h] = None]
        /\ UNCHANGED <<client, tcp, leaving, typed, fed, got, recovering, held, owner,
                       payload, written,
                       line, known, registered, pipeServer, pipeTerm, toTerm, toServer,
                       shell, reader, writer, printed, losses>>
    BY <1>6 DEF LookupTerminal, Goto, clients, registry, pipe, terminal
  <2>2. TypeOK'
    BY <2>1 DEF TypeOK, Places
  <2>3. Quits(h)
    BY <2>1 DEF TypeOK, Quits, At, PipeOpen, Relaying
  <2>. QED  BY <2>2, <2>3
<1>7. CASE RelayLost(h)
  <2>1. /\ pc[h] = "relay" /\ sock' = [sock EXCEPT ![h] = None]
        /\ UNCHANGED <<client, tcp, leaving, typed, fed, got, pc, recovering, held, owner,
                       payload, written,
                       line, known, registered, pipeServer, pipeTerm, toTerm, toServer,
                       shell, reader, writer, printed, losses>>
    BY <1>7 DEF RelayLost, Goto, clients, registry, pipe, terminal
  <2>2. TypeOK'
    <3>1. sock' \in [Handlers -> Handlers \cup {None}]
      BY <2>1 DEF TypeOK
    <3>. QED  BY <2>1, <3>1, TypeParts, PacketFrame, FlagFrame DEF PlaceTypes, Places, Relaying
  <2>3. Quits(h)
    BY <2>1 DEF TypeOK, Quits, At, PipeOpen, Relaying
  <2>. QED  BY <2>2, <2>3
<1>8. CASE RelayBreak(h)
  <2>1. /\ pc[h] = "relay" /\ ~PipeOpen /\ pc' = [pc EXCEPT ![h] = "close"]
        /\ UNCHANGED <<client, tcp, leaving, typed, fed, got, recovering, held, sock, owner,
                       payload, written,
                       line, known, registered, pipeServer, pipeTerm, toTerm, toServer,
                       shell, reader, writer, printed, losses>>
    BY <1>8 DEF RelayBreak, Goto, IsConnected, PipeOpen, clients, conns, registry, pipe, terminal
  <2>2. TypeOK'
    <3>1. pc' \in [Handlers -> Places]
      BY <2>1 DEF TypeOK, Places
    <3>. QED  BY <2>1, <3>1, TypeParts, PacketFrame, FlagFrame DEF PlaceTypes, Places, Relaying
  <2>3. Quits(h)
    BY <2>1 DEF TypeOK, Quits, At, PipeOpen, Relaying
  <2>. QED  BY <2>2, <2>3
<1>9. CASE ClosePipe(h)
  <2>1. /\ pc[h] = "close" /\ pc' = [pc EXCEPT ![h] = "unregister"]
        /\ pipeServer' = FALSE /\ toServer' = <<>>
        /\ UNCHANGED <<client, tcp, leaving, typed, fed, got, recovering, held, sock, owner,
                       payload, written,
                       line, known, registered, pipeTerm, toTerm,
                       shell, reader, writer, printed, losses>>
    BY <1>9 DEF ClosePipe, Goto, clients, conns, registry, terminal
  <2>2. TypeOK'
    BY <2>1, EmptySeq DEF TypeOK, Places
  <2>3. \A g \in Handlers : pc'[g] \notin Relaying
    BY <2>1 DEF UseInv, TypeOK, Relaying
  <2>4. Quits(h)
    BY <2>1, <2>3 DEF TypeOK, Quits, At, PipeOpen, Relaying
  <2>. QED  BY <2>2, <2>4
<1>10. CASE UnregisterTerminal(h)
  <2>1. /\ pc[h] = "unregister" /\ pc' = [pc EXCEPT ![h] = "hangup"]
        /\ known' = FALSE /\ registered' = None
        /\ sock' = [c \in Handlers |->
                      IF c = registered /\ ~Lives(c, h, None) THEN None ELSE sock[c]]
        /\ UNCHANGED <<client, tcp, leaving, typed, fed, got, recovering, held, owner,
                       payload, written, line, pipeServer, pipeTerm, toTerm, toServer,
                       shell, reader, writer, printed, losses>>
    BY <1>10 DEF UnregisterTerminal, Goto, clients, pipe, terminal
  <2>2. /\ \A c \in Handlers : sock'[c] \in {sock[c], None}
        /\ \A c \in Handlers : pc[c] \in First => sock'[c] = sock[c]
        /\ sock' \in [Handlers -> Handlers \cup {None}]
    BY <2>1, FirstLives DEF First, TypeOK
  <2>3. TypeOK'
    BY <2>1, <2>2 DEF TypeOK, Places
  <2>4. ~PipeOpen'
    BY <2>1 DEF IInv, EndInv, PipeOpen
  <2>5. Quits(h)
    BY <2>1, <2>2, <2>4 DEF TypeOK, Quits, At, Relaying
  <2>. QED  BY <2>3, <2>5
<1>11. CASE Hangup(h)
  <2>1. /\ pc[h] = "hangup" /\ pc' = [pc EXCEPT ![h] = "done"]
        /\ sock' = [sock EXCEPT ![h] = None]
        /\ UNCHANGED <<client, tcp, leaving, typed, fed, got, recovering, held, owner,
                       payload, written,
                       line, known, registered, pipeServer, pipeTerm, toTerm, toServer,
                       shell, reader, writer, printed, losses>>
    BY <1>11 DEF Hangup, Goto, clients, registry, pipe, terminal
  <2>2. TypeOK'
    BY <2>1, TypeParts, PacketFrame, FlagFrame DEF PlaceTypes, Places, Relaying
  <2>3. Quits(h)
    BY <2>1 DEF TypeOK, Quits, At, PipeOpen, Relaying
  <2>. QED  BY <2>2, <2>3
<1>. QED
  BY <1>2, <1>3, <1>4, <1>5, <1>6, <1>7, <1>8, <1>9, <1>10, <1>11

(* RETURNING_CLIENT: Recover will be called for the entry's connection.    *)
LEMMA AnswerReturningSInv ==
  ASSUME SInv, IInv', NEW h \in Handlers, AnswerReturning(h)
  PROVE  SInv'
<1>. USE NoneIsNoHandler DEF SInv
<1>1. /\ pc[h] = "answer" /\ registered # None
      /\ recovering' = [recovering EXCEPT ![h] = registered]
      /\ pc' = [pc EXCEPT ![h] = "recover"]
      /\ UNCHANGED <<client, tcp, leaving, typed, fed, got, held, sock, owner, payload, written,
                     line, known, registered, pipeServer, pipeTerm, toTerm, toServer,
                     shell, reader, writer, printed, losses>>
  BY DEF AnswerReturning, Goto, clients, conns, registry, pipe, terminal
<1>2. /\ pc'[h] = "recover" /\ recovering'[h] = registered
      /\ \A g \in Handlers : g # h => pc'[g] = pc[g] /\ recovering'[g] = recovering[g]
  BY <1>1 DEF TypeOK
<1>3. TypeOK'
  BY <1>1, TypeParts, PacketFrame, FlagFrame DEF PlaceTypes, FlagTypes, Places, Relaying
<1>4. FrontInv'
  BY <1>1, <1>2 DEF FrontInv, Front, First
<1>5. SockInv'
  BY <1>1, <1>2 DEF SockInv, Front, First
<1>6. UseInv'
  BY <1>1, <1>2 DEF UseInv, Front, First, Using, Relaying, PipeOpen
<1>7. OutputInv'
  <2>1. OutputIsKept'
    BY <1>1, <1>2 DEF OutputInv, OutputIsKept, Relaying
  <2>. QED  BY <1>1, <1>2, <2>1 DEF OutputInv, Front, First, Relaying, PipeOpen
<1>8. PayloadInv'
  BY <1>1, <1>2 DEF PayloadInv, PayloadAt, Front, Using, Relaying
<1>9. OwnerInv'
  BY <1>1, <1>2 DEF OwnerInv, OwnerAt
<1>10. LineInv'
  <2>. SUFFICES ASSUME NEW r \in Runs, NEW t \in Handlers, tcp'[r] = t
                PROVE  LineAt(r, t)'
    BY DEF LineInv
  <2>1. LineAt(r, t)
    BY <1>1 DEF LineInv
  <2>2. pc'[t] \in Front => pc[t] \in Front
    BY <1>1, <1>2 DEF Front
  <2>. QED  BY <1>1, <2>1, <2>2 DEF LineAt
<1>11. OutputInOrder'
  BY <1>1, OrderFrame
<1>. QED  BY <1>3, <1>4, <1>5, <1>6, <1>7, <1>8, <1>9, <1>10, <1>11

(* NEW_CLIENT: nobody uses the pipe while it is open.                      *)
LEMMA AnswerNewSInv ==
  ASSUME SInv, IInv', NEW h \in Handlers, AnswerNew(h)
  PROVE  SInv'
<1>. USE NoneIsNoHandler DEF SInv
<1>1. /\ pc[h] = "answer" /\ (registered # None => sock[registered] # None)
      /\ client' = [r \in Runs |-> IF r \notin At(h) THEN client[r]
                                   ELSE IF client[r] = "asked" THEN "hello"
                                   ELSE "polling"]
      /\ tcp' = [r \in Runs |-> IF r \in At(h) /\ client[r] = "polled" THEN None
                                ELSE tcp[r]]
      /\ payload' = [payload EXCEPT ![h] =
                       IF \E r \in At(h) : client[r] = "asked"
                       THEN CHOOSE r \in At(h) : TRUE ELSE None]
      /\ pc' = [pc EXCEPT ![h] = "store"]
      /\ UNCHANGED <<leaving, typed, fed, got, recovering, held, sock, owner, written,
                     line, known, registered, pipeServer, pipeTerm, toTerm, toServer,
                     shell, reader, writer, printed, losses>>
  BY DEF AnswerNew, Goto, registry, pipe, terminal
<1>2. /\ \A r \in Runs : tcp[r] = h => client[r] \in {"asked", "polled"}
      /\ \A r \in Runs : IF tcp[r] # h THEN client'[r] = client[r] /\ tcp'[r] = tcp[r]
                         ELSE IF client[r] = "asked" THEN client'[r] = "hello" /\ tcp'[r] = h
                         ELSE client'[r] = "polling" /\ tcp'[r] = None
  <2>1. \A r \in Runs : tcp[r] = h => client[r] \in {"asked", "polled"}
    BY <1>1 DEF IInv, PlaceInv
  <2>. QED  BY <1>1, <2>1 DEF At
<1>3. /\ pc'[h] = "store" /\ \A g \in Handlers : g # h => pc'[g] = pc[g]
      /\ \A g \in Handlers : g # h => payload'[g] = payload[g]
  BY <1>1 DEF TypeOK
<1>4. /\ payload'[h] \in Runs \cup {None}
      /\ \A r \in Runs : tcp[r] = h /\ client[r] = "asked" => payload'[h] = r
      /\ payload'[h] # None => tcp[payload'[h]] = h /\ client[payload'[h]] = "asked"
  <2>1. CASE \E r \in At(h) : client[r] = "asked"
    <3>1. PICK r \in At(h) : client[r] = "asked"
      BY <2>1
    <3>2. \A q \in At(h) : q = r
      BY <3>1, SocketAlone DEF At
    <3>3. payload'[h] = CHOOSE q \in At(h) : TRUE
      BY <1>1, <2>1 DEF TypeOK
    <3>4. payload'[h] = r
      BY <3>1, <3>2, <3>3
    <3>. QED  BY <3>1, <3>2, <3>4 DEF At
  <2>2. CASE ~\E r \in At(h) : client[r] = "asked"
    <3>1. payload'[h] = None
      BY <1>1, <2>2 DEF TypeOK
    <3>. QED  BY <2>2, <3>1 DEF At
  <2>. QED  BY <2>1, <2>2
<1>5. TypeOK'
  <2>1. client' \in [Runs -> ClientPlaces]
    BY <1>1 DEF TypeOK, ClientPlaces
  <2>2. tcp' \in [Runs -> Handlers \cup {None}] /\ pc' \in [Handlers -> Places]
    BY <1>1 DEF TypeOK, Places
  <2>3. payload' \in [Handlers -> Runs \cup {None}]
    BY <1>1, <1>4 DEF TypeOK
  <2>. QED  BY <1>1, <2>1, <2>2, <2>3, TypeParts, PacketFrame, FlagFrame
       DEF PlaceTypes, Places, Relaying
<1>6. FrontInv'
  <2>1. \A r \in Runs : /\ client'[r] # "off" => client[r] # "off"
                        /\ client[r] \in Gone => client'[r] \in Gone
    BY <1>2 DEF Gone
  <2>2. \A r \in Runs, t \in Handlers :
          tcp'[r] = t /\ client'[r] \in {"asked", "polled"} => pc'[t] \in {"answer", "recover"}
    BY <1>2, <1>3 DEF FrontInv
  <2>. QED  BY <1>1, <1>3, <2>1, <2>2 DEF FrontInv, Front, First
<1>7. SockInv'
  BY <1>1, <1>3 DEF SockInv, Front, First
<1>8. UseInv'
  <2>1. PipeOpen => \A g \in Handlers : pc[g] \notin Using
    BY <1>1 DEF UseInv, Front
  <2>. QED  BY <1>1, <1>3, <2>1 DEF UseInv, Front, First, Using, Relaying, PipeOpen
<1>9. OutputInv'
  <2>1. OutputIsKept'
    BY <1>1, <1>3 DEF OutputInv, OutputIsKept, Relaying
  <2>. QED  BY <1>1, <1>3, <2>1 DEF OutputInv, Front, First, Relaying, PipeOpen
<1>10. PayloadInv'
  <2>. SUFFICES ASSUME NEW g \in Handlers  PROVE PayloadAt(g)'
    BY DEF PayloadInv
  <2>1. PayloadAt(g)
    BY DEF PayloadInv
  <2>2. CASE g = h
    <3>1. \A r \in Runs : payload'[h] = r =>
            got[r] = <<>> /\ client'[r] = "hello" /\ tcp'[r] = h
      BY <1>2, <1>4 DEF OwnerInv, OwnerAt
    <3>2. \A r \in Runs : tcp'[r] = h => payload'[h] = r
      BY <1>2, <1>4
    <3>. QED  BY <1>1, <1>3, <2>1, <2>2, <3>1, <3>2 DEF PayloadAt, Front, Using, Relaying
  <2>3. CASE g # h
    <3>1. pc'[g] = pc[g] /\ pc[g] \notin {"store", "initial"}
      BY <1>1, <1>3, <2>3 DEF FrontInv, Front, First
    <3>. QED  BY <1>1, <2>1, <3>1 DEF PayloadAt
  <2>. QED  BY <2>2, <2>3
<1>11. OwnerInv'
  <2>. SUFFICES ASSUME NEW r \in Runs  PROVE OwnerAt(r)'
    BY DEF OwnerInv
  <2>1. OwnerAt(r)
    BY DEF OwnerInv
  <2>2. CASE tcp[r] # h
    BY <1>1, <1>2, <1>3, <2>1, <2>2 DEF OwnerAt
  <2>3. CASE tcp[r] = h /\ client[r] = "asked"
    BY <1>1, <1>2, <1>3, <2>1, <2>3 DEF OwnerAt
  <2>4. CASE tcp[r] = h /\ client[r] = "polled"
    BY <1>1, <1>2, <1>3, <2>1, <2>4 DEF OwnerAt
  <2>. QED  BY <1>2, <2>2, <2>3, <2>4
<1>12. LineInv'
  <2>. SUFFICES ASSUME NEW r \in Runs, NEW t \in Handlers, tcp'[r] = t
                PROVE  LineAt(r, t)'
    BY DEF LineInv
  <2>1. LineAt(r, t)
    BY <1>2 DEF LineInv
  <2>2. pc'[t] \in Front => pc[t] \in Front
    BY <1>1, <1>3 DEF Front
  <2>. QED  BY <1>1, <2>1, <2>2 DEF LineAt
<1>13. OutputInOrder'
  BY <1>1, OrderFrame
<1>. QED
  BY <1>5, <1>6, <1>7, <1>8, <1>9, <1>10, <1>11, <1>12, <1>13

(* What SubSeq leaves of a sequence after its first a members.             *)
LEMMA RestFacts ==
  ASSUME NEW S, NEW s \in Seq(S), NEW a \in Nat, a <= Len(s)
  PROVE  /\ SubSeq(s, a + 1, Len(s)) \in Seq(S)
         /\ Len(SubSeq(s, a + 1, Len(s))) = Len(s) - a
         /\ \A k \in 1..(Len(s) - a) : SubSeq(s, a + 1, Len(s))[k] = s[a + k]
<1>1. Len(s) \in Nat
  BY LenProperties
<1>2. \A i \in (a + 1)..Len(s) : s[i] \in S
  BY <1>1, ElementOfSeq
<1>. DEFINE n == Len(s)
            m == a + 1
<1>3. m \in Int /\ n \in Int
  BY <1>1
<1>4. \A i \in m..n : s[i] \in S
  BY <1>2
<1>. HIDE DEF n, m
<1>5. /\ SubSeq(s, m, n) \in Seq(S)
      /\ Len(SubSeq(s, m, n)) = IF m <= n THEN n - m + 1 ELSE 0
      /\ \A i \in 1..(n - m + 1) : SubSeq(s, m, n)[i] = s[m + i - 1]
  BY <1>3, <1>4, SubSeqProperties
<1>6. Len(SubSeq(s, m, n)) = n - a
  BY <1>1, <1>5 DEF n, m
<1>7. \A k \in 1..(n - a) : SubSeq(s, m, n)[k] = s[a + k]
  <2>. TAKE k \in 1..(n - a)
  <2>1. k \in 1..(n - m + 1) /\ m + k - 1 = a + k
    BY <1>1 DEF n, m
  <2>. QED  BY <1>5, <2>1
<1>. QED  BY <1>5, <1>6, <1>7 DEF n, m

(* What is known of a process and a connection that Recover joins.         *)
LEMMA RecoverFinds ==
  ASSUME SInv, NEW h \in Handlers, NEW r \in Runs, RecoverSucceeds(h, r)
  PROVE  /\ recovering[h] \in Handlers \ {h} /\ tcp[r] = h /\ client[r] = "polled"
         /\ \A q \in Runs \ {r} : tcp[q] = None /\ client[q] \in Gone \cup {"off"}
         /\ \A g \in Handlers \ {h} : pc[g] \notin Front
         /\ \A g \in Handlers : pc[g] \notin First
         /\ sock[h] = None /\ \A g \in Handlers : sock[g] # h
         /\ r \in leaving => got[r] = <<>>
         /\ r \notin leaving =>
              /\ \A d \in Handlers : owner[d] = r => d = recovering[h]
              /\ Len(got[r]) <= Len(written[recovering[h]])
         /\ owner[recovering[h]] \in {r, None}
<1>. USE NoneIsNoHandler DEF SInv
<1>. DEFINE c == recovering[h]
<1>1. /\ pc[h] = "recover" /\ tcp[r] = h /\ Continues(r, c)
  BY DEF RecoverSucceeds, At
<1>2. c \in Handlers \ {h} /\ sock[h] = None /\ \A g \in Handlers : sock[g] # h
  BY <1>1 DEF SockInv, TypeOK, Front
<1>3. client[r] = "polled"
  BY <1>1 DEF Continues
<1>4. \A q \in Runs \ {r} : tcp[q] = None /\ client[q] \in Gone \cup {"off"}
  BY <1>1, <1>3, SocketAlone, Alone DEF Gone
<1>5. /\ \A g \in Handlers \ {h} : pc[g] \notin Front
      /\ \A g \in Handlers : pc[g] \notin First
  BY <1>1 DEF FrontInv, Front
<1>. HIDE DEF c
<1>6. /\ r \in leaving => got[r] = <<>>
      /\ r \notin leaving =>
           \A d, e \in Handlers : owner[d] = r /\ owner[e] = r => d = e
      /\ owner[c] = r => Len(got[r]) <= Len(written[c])
  BY <1>2, <1>3 DEF OwnerInv, OwnerAt
<1>. QED  BY <1>1, <1>2, <1>3, <1>4, <1>5, <1>6 DEF Continues, c

(* Recover joins a process to the connection it lost.                      *)
LEMMA RecoverSInv ==
  ASSUME SInv, IInv', NEW h \in Handlers, NEW r \in Runs, RecoverSucceeds(h, r)
  PROVE  SInv'
<1>. USE NoneIsNoHandler DEF SInv
<1>. DEFINE c == recovering[h]
            w == written[c]
            rest == SubSeq(w, Len(got[r]) + 1, Len(w))
<1>1. /\ c \in Handlers \ {h} /\ tcp[r] = h /\ client[r] = "polled"
      /\ \A q \in Runs \ {r} : tcp[q] = None /\ client[q] \in Gone \cup {"off"}
      /\ \A g \in Handlers \ {h} : pc[g] \notin Front
      /\ \A g \in Handlers : pc[g] \notin First
      /\ sock[h] = None /\ \A g \in Handlers : sock[g] # h
      /\ r \in leaving => got[r] = <<>>
      /\ r \notin leaving =>
           /\ \A d \in Handlers : owner[d] = r => d = c
           /\ Len(got[r]) <= Len(w)
      /\ owner[c] \in {r, None}
  BY RecoverFinds
<1>2. /\ pc[h] = "recover" /\ pc' = [pc EXCEPT ![h] = "done"]
      /\ sock' = [sock EXCEPT ![c] = IF Lives(c, h, registered) THEN h ELSE None]
      /\ owner' = [owner EXCEPT ![c] = r]
      /\ \/ /\ r \in leaving
            /\ client' = [client EXCEPT ![r] = "failed"]
            /\ tcp' = [tcp EXCEPT ![r] = None]
            /\ line' = line
         \/ /\ r \notin leaving
            /\ client' = [client EXCEPT ![r] = "attached"]
            /\ line' = [line EXCEPT ![h] = rest]
            /\ tcp' = tcp
      /\ leaving' = leaving \ {r}
      /\ UNCHANGED <<typed, fed, got, recovering, held, payload, written, known, registered,
                     pipeServer, pipeTerm, toTerm, toServer, shell, reader, writer,
                     printed, losses>>
  BY DEF RecoverSucceeds, Goto, registry, pipe, terminal
<1>3. /\ w \in Seq(1..MaxOutputs) /\ w = Count(Len(w)) /\ Len(w) \in Nat /\ Len(w) <= printed
      /\ got[r] \in Seq(1..MaxOutputs) /\ Len(got[r]) \in Nat
  BY <1>1, LenProperties DEF TypeOK, OutputInv
<1>4. r \notin leaving =>
        /\ Len(got[r]) <= Len(w)
        /\ rest \in Seq(1..MaxOutputs) /\ Len(rest) = Len(w) - Len(got[r])
        /\ \A k \in 1..Len(rest) : rest[k] = Len(got[r]) + k
  <2>. SUFFICES ASSUME r \notin leaving
                PROVE  /\ Len(got[r]) <= Len(w)
                       /\ rest \in Seq(1..MaxOutputs) /\ Len(rest) = Len(w) - Len(got[r])
                       /\ \A k \in 1..Len(rest) : rest[k] = Len(got[r]) + k
    OBVIOUS
  <2>. DEFINE Out == 1..MaxOutputs
              a == Len(got[r])
              n == Len(w)
  <2>1. a \in Nat /\ n \in Nat /\ a <= n
    BY <1>1, <1>3
  <2>2. w \in Seq(Out) /\ w = Count(n)
    BY <1>3
  <2>3. \A k \in 1..n : w[k] = k
    <3>. HIDE DEF Out, w, a, n
    <3>. QED  BY <2>1, <2>2, CountSeq
  <2>4. /\ SubSeq(w, a + 1, n) \in Seq(Out)
        /\ Len(SubSeq(w, a + 1, n)) = n - a
        /\ \A k \in 1..(n - a) : SubSeq(w, a + 1, n)[k] = w[a + k]
    <3>. HIDE DEF Out, w, a
    <3>. QED  BY <2>1, <2>2, RestFacts
  <2>. HIDE DEF Out, w, a, n
  <2>5. \A k \in 1..(n - a) : SubSeq(w, a + 1, n)[k] = a + k
    BY <2>1, <2>3, <2>4
  <2>. QED  BY <2>1, <2>4, <2>5 DEF Out, a, n
<1>. HIDE DEF c, w, rest
<1>5. /\ pc'[h] = "done" /\ \A g \in Handlers : g # h => pc'[g] = pc[g]
      /\ sock'[c] \in {h, None} /\ \A g \in Handlers : g # c => sock'[g] = sock[g]
      /\ owner'[c] = r /\ \A g \in Handlers : g # c => owner'[g] = owner[g]
      /\ \A g \in Handlers : pc'[g] \notin Front \cup First
      /\ \A q \in Runs \ {r} : client'[q] = client[q] /\ tcp'[q] = None
      /\ client'[r] \in {"attached", "failed"}
      /\ r \notin leaving'
  <2>1. /\ pc'[h] = "done" /\ \A g \in Handlers : g # h => pc'[g] = pc[g]
        /\ sock'[c] \in {h, None} /\ \A g \in Handlers : g # c => sock'[g] = sock[g]
        /\ owner'[c] = r /\ \A g \in Handlers : g # c => owner'[g] = owner[g]
    BY <1>1, <1>2 DEF TypeOK
  <2>2. /\ \A q \in Runs \ {r} : client'[q] = client[q] /\ tcp'[q] = None
        /\ client'[r] \in {"attached", "failed"}
        /\ r \notin leaving'
    BY <1>1, <1>2 DEF TypeOK
  <2>. QED  BY <1>1, <2>1, <2>2 DEF Front, First
<1>6. TypeOK'
  <2>1. /\ client' \in [Runs -> ClientPlaces] /\ tcp' \in [Runs -> Handlers \cup {None}]
        /\ leaving' \subseteq Runs
    BY <1>2 DEF TypeOK, ClientPlaces
  <2>2. /\ pc' \in [Handlers -> Places] /\ sock' \in [Handlers -> Handlers \cup {None}]
        /\ owner' \in [Handlers -> Runs \cup {None}]
    BY <1>1, <1>2 DEF TypeOK, Places
  <2>3. line' \in [Handlers -> Seq(1..MaxOutputs)]
    BY <1>2, <1>4 DEF TypeOK
  <2>. QED  BY <1>2, <2>1, <2>2, <2>3, TypeParts, FlagFrame
       DEF PlaceTypes, PacketTypes, Places, Relaying
<1>7. FrontInv'
  <2>1. \A q, p \in Runs : q < p /\ client'[p] # "off" => client'[q] \in Gone
    BY <1>1, <1>5, RunsAreInts DEF FrontInv, Gone
  <2>. QED  BY <2>1, <1>5 DEF FrontInv, Gone
<1>8. SockInv'
  BY <1>1, <1>5 DEF SockInv, Front
<1>9. UseInv'
  BY <1>2, <1>5 DEF UseInv, Front, First, Using, Relaying, PipeOpen
<1>10. OutputInv'
  <2>1. OutputIsKept'
    BY <1>2, <1>5 DEF OutputInv, OutputIsKept, Relaying
  <2>2. \A g \in Handlers : pc'[g] \in Relaying \cup {"init"} <=> pc[g] \in Relaying \cup {"init"}
    BY <1>2, <1>5 DEF Relaying
  <2>. QED  BY <1>2, <1>5, <2>1, <2>2 DEF OutputInv, Front, First, Relaying, PipeOpen
<1>11. PayloadInv'
  <2>. SUFFICES ASSUME NEW g \in Handlers  PROVE PayloadAt(g)'
    BY DEF PayloadInv
  <2>1. PayloadAt(g)
    BY DEF PayloadInv
  <2>. QED  BY <1>5, <2>1 DEF PayloadAt, Front, First, Using, Relaying
<1>12. OwnerInv'
  <2>. SUFFICES ASSUME NEW q \in Runs  PROVE OwnerAt(q)'
    BY DEF OwnerInv
  <2>1. OwnerAt(q)
    BY DEF OwnerInv
  <2>2. CASE q # r
    <3>1. client'[q] \in Gone \cup {"off"} /\ tcp'[q] = None
      BY <1>1, <1>5, <2>2
    <3>2. \A d \in Handlers : owner'[d] = q => owner[d] = q
      BY <1>5, <2>2
    <3>3. q \in leaving' <=> q \in leaving
      BY <1>2, <2>2
    <3>. QED  BY <1>2, <1>5, <2>1, <2>2, <3>1, <3>2, <3>3 DEF OwnerAt, Gone
  <2>3. CASE q = r /\ r \in leaving
    <3>1. Len(got'[r]) = 0 /\ client'[r] = "failed" /\ tcp'[r] = None
      BY <1>1, <1>2, <2>3 DEF TypeOK
    <3>2. \A d \in Handlers : Len(got'[r]) <= Len(written'[d])
      BY <1>2, <3>1, LenProperties DEF TypeOK
    <3>. QED  BY <1>5, <2>3, <3>1, <3>2 DEF OwnerAt
  <2>4. CASE q = r /\ r \notin leaving
    <3>1. client'[r] = "attached" /\ tcp'[r] = h
      BY <1>1, <1>2, <2>4 DEF TypeOK
    <3>2. \A d \in Handlers : owner'[d] = r => d = c
      BY <1>1, <1>5, <2>4 DEF c
    <3>3. \A d \in Handlers : owner'[d] = r => Len(got'[r]) <= Len(written'[d])
      BY <1>2, <1>4, <2>4, <3>2 DEF w
    <3>4. \A d \in Handlers : sock'[d] = h => d = c
      BY <1>1, <1>5
    <3>. QED  BY <1>5, <2>4, <3>1, <3>2, <3>3, <3>4 DEF OwnerAt
  <2>. QED  BY <2>2, <2>3, <2>4
<1>13. LineInv'
  <2>. SUFFICES ASSUME NEW q \in Runs, NEW t \in Handlers, tcp'[q] = t
                PROVE  LineAt(q, t)'
    BY DEF LineInv
  <2>1. q = r /\ r \notin leaving /\ t = h
    <3>1. q = r
      BY <1>5
    <3>2. tcp[r] = h /\ tcp' = IF r \in leaving THEN [tcp EXCEPT ![r] = None] ELSE tcp
      BY <1>1, <1>2
    <3>. QED  BY <3>1, <3>2 DEF TypeOK
  <2>2. line'[h] = rest /\ got' = got /\ written' = written /\ printed' = printed
    BY <1>2, <2>1 DEF TypeOK
  <2>3. \A d \in Handlers : owner'[d] = r \/ sock'[d] = h => d = c
    BY <1>1, <1>5, <2>1 DEF c
  <2>4. PICK a, n : a = Len(got[r]) /\ n = Len(w)
    OBVIOUS
  <2>5. /\ a \in Nat /\ n \in Nat /\ Len(rest) = n - a /\ n <= printed
        /\ \A k \in 1..Len(rest) : rest[k] = a + k
    BY <1>3, <1>4, <2>1, <2>4
  <2>6. a + Len(rest) = n
    BY <2>5
  <2>7. Len(got'[r]) + Len(line'[h]) = n
    BY <2>2, <2>4, <2>6, Zenon
  <2>8. \A d \in Handlers : owner'[d] = r \/ sock'[d] = h => Len(written'[d]) = n
    BY <2>2, <2>3, <2>4 DEF w
  <2>9. \A k \in 1..Len(line'[h]) : line'[h][k] = Len(got'[r]) + k
    BY <2>2, <2>4, <2>5, Zenon
  <2>10. pc'[h] \notin Front /\ n <= printed'
    BY <1>5, <2>2, <2>5
  <2>11. n <= n
    BY <2>5
  <2>. DEFINE m == Len(got'[r]) + Len(line'[h])
  <2>12. m = n
    BY <2>7
  <2>. HIDE DEF m
  <2>13. /\ m <= printed'
         /\ \A d \in Handlers : /\ owner'[d] = r => m <= Len(written'[d])
                                /\ sock'[d] = h => m = Len(written'[d])
    BY <2>8, <2>10, <2>11, <2>12
  <2>14. LineAt(r, h)'
    BY <2>9, <2>10, <2>13, Zenon DEF LineAt, m
  <2>. QED  BY <2>1, <2>14
<1>14. OutputInOrder'
  BY <1>2, OrderFrame
<1>. QED
  BY <1>6, <1>7, <1>8, <1>9, <1>10, <1>11, <1>12, <1>13, <1>14

(* A process that has read nothing, and to which nothing is on its way.    *)
LEMMA EmptyLine ==
  ASSUME TypeOK, NEW r \in Runs, NEW t \in Handlers, got[r] = <<>>, line[t] = <<>>
  PROVE  Len(got[r]) + Len(line[t]) = 0
<1>1. Len(got[r]) = 0 /\ Len(line[t]) = 0
  OBVIOUS
<1>2. \A a, b : a = 0 /\ b = 0 => a + b = 0
  OBVIOUS
<1>. QED  BY <1>1, <1>2, Zenon

(* A connection that changes hands, but not what was written to it.        *)
LEMMA LineStays ==
  ASSUME TypeOK, NEW r \in Runs, NEW t \in Handlers, LineAt(r, t),
         UNCHANGED <<got, line, printed, written>>,
         pc'[t] \in Front => pc[t] \in Front,
         \A c \in Handlers : owner'[c] = r => owner[c] = r \/ sock[c] = t,
         \A c \in Handlers : sock'[c] = t =>
           \/ sock[c] = t
           \/ got[r] = <<>> /\ line[t] = <<>> /\ written[c] = <<>>
  PROVE  LineAt(r, t)'
<1>. DEFINE n == Len(got[r]) + Len(line[t])
<1>1. /\ n <= printed
      /\ \A c \in Handlers : /\ owner[c] = r => n <= Len(written[c])
                             /\ sock[c] = t => n = Len(written[c])
      /\ got[r] = <<>> /\ line[t] = <<>> => n = 0
  BY EmptyLine DEF LineAt
<1>. HIDE DEF n
<1>2. \A c \in Handlers : Len(written[c]) \in Nat
  BY LenProperties DEF TypeOK
<1>3. /\ n <= printed'
      /\ \A c \in Handlers : /\ owner'[c] = r => n <= Len(written'[c])
                             /\ sock'[c] = t => n = Len(written'[c])
  BY <1>1, <1>2
<1>4. n = Len(got'[r]) + Len(line'[t])
  BY Zenon DEF n
<1>. QED  BY <1>3, <1>4, Zenon DEF LineAt

-----------------------------------------------------------------------------
(* The connection becomes the registry's.                                  *)
LEMMA StoreConnectionSInv ==
  ASSUME SInv, IInv', NEW h \in Handlers, StoreConnection(h)
  PROVE  SInv'
<1>. USE NoneIsNoHandler DEF SInv
<1>1. /\ pc[h] = "store" /\ pc' = [pc EXCEPT ![h] = "initial"]
      /\ registered' = IF known THEN h ELSE registered
      /\ sock' = [c \in Handlers |->
                    IF c = h THEN h
                    ELSE IF c = registered /\ ~Lives(c, h, registered') THEN None
                    ELSE sock[c]]
      /\ UNCHANGED <<client, tcp, leaving, typed, fed, got, recovering, held, owner, payload,
                     written, line, known, pipeServer, pipeTerm, toTerm, toServer,
                     shell, reader, writer, printed, losses>>
  BY DEF StoreConnection, Goto, clients, pipe, terminal
<1>2. /\ pc'[h] = "initial" /\ \A g \in Handlers : g # h => pc'[g] = pc[g]
      /\ sock'[h] = h /\ \A c \in Handlers : c # h => sock'[c] \in {sock[c], None}
  BY <1>1 DEF TypeOK
<1>3. /\ \A g \in Handlers : pc[g] \notin First
      /\ \A g \in Handlers : g # h => pc[g] \notin Front
      /\ \A c \in Handlers : sock[c] # h
      /\ written[h] = <<>> /\ owner[h] = None
  BY <1>1 DEF FrontInv, SockInv, OutputInv, PayloadInv, PayloadAt, Front
<1>4. PipeOpen => registered' = h /\ \A g \in Handlers : pc[g] \notin Using
  <2>1. PipeOpen => known
    BY <1>1 DEF PipeOpen, IInv, StartInv
  <2>. QED  BY <1>1, <2>1 DEF UseInv, Front
<1>5. TypeOK'
  <2>1. sock' \in [Handlers -> Handlers \cup {None}]
    BY <1>1 DEF TypeOK
  <2>. QED  BY <1>1, <2>1 DEF TypeOK, Places
<1>6. FrontInv'
  <2>1. \A r \in Runs, t \in Handlers :
          tcp[r] = t /\ client[r] \in {"asked", "polled"} => t # h
    BY <1>1 DEF FrontInv
  <2>. QED  BY <1>1, <1>2, <1>3, <2>1 DEF FrontInv, Front
<1>7. SockInv'
  BY <1>1, <1>2, <1>3 DEF SockInv, Front
<1>8. UseInv'
  BY <1>1, <1>2, <1>3, <1>4 DEF UseInv, Front, First, Using, Relaying, PipeOpen
<1>9. OutputInv'
  <2>1. OutputIsKept'
    BY <1>1, <1>2 DEF OutputInv, OutputIsKept, Relaying
  <2>. QED  BY <1>1, <1>2, <2>1 DEF OutputInv, Front, First, Relaying, PipeOpen
<1>10. PayloadInv'
  BY <1>1, <1>2 DEF PayloadInv, PayloadAt, Front, Using, Relaying
<1>11. OwnerInv'
  BY <1>1, <1>2 DEF OwnerInv, OwnerAt
<1>12. LineInv'
  <2>. SUFFICES ASSUME NEW r \in Runs, NEW t \in Handlers, tcp'[r] = t
                PROVE  LineAt(r, t)'
    BY DEF LineInv
  <2>1. LineAt(r, t)
    BY <1>1 DEF LineInv
  <2>2. pc'[t] \in Front => pc[t] \in Front
    BY <1>1, <1>2 DEF Front
  <2>3. t = h => got[r] = <<>> /\ line[t] = <<>>
    BY <1>1, <2>1 DEF PayloadInv, PayloadAt, LineAt, Front
  <2>4. \A c \in Handlers : sock'[c] = t =>
          \/ sock[c] = t
          \/ c = h /\ got[r] = <<>> /\ line[t] = <<>> /\ written[c] = <<>>
    BY <1>2, <1>3, <2>3
  <2>. QED  BY <1>1, <2>1, <2>2, <2>4, LineStays
<1>13. OutputInOrder'
  BY <1>1, OrderFrame
<1>. QED  BY <1>5, <1>6, <1>7, <1>8, <1>9, <1>10, <1>11, <1>12, <1>13

(* The process that sent its INITIAL_PAYLOAD becomes the owner.            *)
LEMMA ReadInitialSInv ==
  ASSUME SInv, IInv', NEW h \in Handlers, ReadInitial(h)
  PROVE  SInv'
<1>. USE NoneIsNoHandler DEF SInv
<1>. DEFINE p == payload[h]
<1>1. /\ pc[h] = "initial" /\ p # None /\ pc' = [pc EXCEPT ![h] = "attach"]
      /\ owner' = [owner EXCEPT ![h] = p]
      /\ UNCHANGED <<client, tcp, leaving, typed, fed, got, recovering, held, sock, payload,
                     written, line, known, registered, pipeServer, pipeTerm, toTerm, toServer,
                     shell, reader, writer, printed, losses>>
  BY DEF ReadInitial, Goto, clients, registry, pipe, terminal
<1>2. /\ pc'[h] = "attach" /\ \A g \in Handlers : g # h => pc'[g] = pc[g]
      /\ owner'[h] = p /\ \A g \in Handlers : g # h => owner'[g] = owner[g]
  BY <1>1 DEF TypeOK
<1>3. /\ p \in Runs /\ sock[h] = h
      /\ \A r \in Runs : tcp[r] = h => r = p
      /\ got[p] = <<>>
      /\ \/ client[p] = "hello" /\ tcp[p] = h
         \/ p \in leaving \/ client[p] \in Gone
      /\ \A g \in Handlers : pc[g] \notin Front
  BY <1>1 DEF TypeOK, SockInv, First, PayloadInv, PayloadAt, FrontInv
<1>4. TypeOK'
  BY <1>1, <1>3, TypeParts, PacketFrame, FlagFrame DEF PlaceTypes, Places, Relaying
<1>. HIDE DEF p
<1>5. FrontInv'
  <2>1. \A r \in Runs, t \in Handlers :
          tcp[r] = t /\ client[r] \in {"asked", "polled"} => t # h
    BY <1>1 DEF FrontInv
  <2>. QED  BY <1>1, <1>2, <1>3, <2>1 DEF FrontInv, Front
<1>6. SockInv'
  BY <1>1, <1>2 DEF SockInv, Front, First
<1>7. UseInv'
  BY <1>1, <1>2 DEF UseInv, Front, First, Using, Relaying, PipeOpen
<1>8. OutputInv'
  <2>1. OutputIsKept'
    BY <1>1, <1>2 DEF OutputInv, OutputIsKept, Relaying
  <2>. QED  BY <1>1, <1>2, <2>1 DEF OutputInv, Front, First, Relaying, PipeOpen
<1>9. PayloadInv'
  BY <1>1, <1>2, <1>3 DEF PayloadInv, PayloadAt, Front, Using, Relaying
<1>10. OwnerInv'
  <2>. SUFFICES ASSUME NEW q \in Runs  PROVE OwnerAt(q)'
    BY DEF OwnerInv
  <2>1. OwnerAt(q)
    BY DEF OwnerInv
  <2>2. \A c \in Handlers : pc'[c] # "initial" => pc[c] # "initial" \/ c = h
    BY <1>2
  <2>3. CASE q # p
    <3>1. \A c \in Handlers : owner'[c] = q <=> (owner[c] = q /\ c # h)
      BY <1>2, <2>3
    <3>2. tcp[q] # h /\ owner[h] # q
      BY <1>1, <1>3, <2>3 DEF PayloadInv, PayloadAt
    <3>. QED  BY <1>1, <1>3, <2>1, <2>2, <3>1, <3>2 DEF OwnerAt
  <2>4. CASE q = p
    <3>1. /\ client[p] \notin {"off", "asked"}
          /\ client[p] = "hello" => tcp[p] = h
          /\ client[p] \in {"attached", "polling", "polled"} => p \in leaving
      BY <1>3, <2>1, <2>4 DEF OwnerAt, Gone
    <3>2. Len(got[p]) = 0
      BY <1>3
    <3>3. \A c \in Handlers : Len(got[p]) <= Len(written[c])
      BY <3>2, LenProperties DEF TypeOK
    <3>. QED  BY <1>1, <1>2, <1>3, <2>1, <2>2, <2>4, <3>1, <3>3 DEF OwnerAt
  <2>. QED  BY <2>3, <2>4
<1>11. LineInv'
  <2>. SUFFICES ASSUME NEW r \in Runs, NEW t \in Handlers, tcp'[r] = t
                PROVE  LineAt(r, t)'
    BY DEF LineInv
  <2>1. LineAt(r, t) /\ tcp[r] = t
    BY <1>1 DEF LineInv
  <2>2. pc'[t] \in Front => pc[t] \in Front
    BY <1>3, <1>2 DEF Front
  <2>3. r = p => t = h
    <3>. SUFFICES ASSUME r = p  PROVE t = h
      OBVIOUS
    <3>1. client[p] \in {"asked", "hello", "attached", "polled"}
      BY <2>1 DEF IInv, PlaceInv
    <3>2. client[p] \notin {"asked", "polled"}
      BY <1>3, <2>1 DEF FrontInv, Front
    <3>3. p \notin leaving
      BY <3>1, <3>2 DEF OwnerInv, OwnerAt
    <3>. QED  BY <1>3, <2>1, <3>1, <3>3 DEF Gone
  <2>4. \A c \in Handlers : owner'[c] = r => owner[c] = r \/ (c = h /\ sock[c] = t)
    BY <1>2, <1>3, <2>3
  <2>. QED  BY <1>1, <2>1, <2>2, <2>4, LineStays
<1>12. OutputInOrder'
  BY <1>1, OrderFrame
<1>. QED  BY <1>4, <1>5, <1>6, <1>7, <1>8, <1>9, <1>10, <1>11, <1>12

-----------------------------------------------------------------------------
(* A handler that holds the pipe goes on holding it, and what it takes     *)
(* from the pipe or writes to its connection stays where it was.           *)
Proceeds(h) ==
  /\ \/ pc[h] = "attach" /\ pc' = [pc EXCEPT ![h] = "init"]
     \/ pc[h] = "init" /\ PipeOpen /\ pc' = [pc EXCEPT ![h] = "relay"]
     \/ pc[h] \in Relaying /\ \E p \in Relaying : pc' = [pc EXCEPT ![h] = p]
  /\ UNCHANGED <<client, leaving, tcp, got, recovering, sock, owner, payload, written, line,
                 registered, pipeServer, pipeTerm, shell, writer, printed>>
  /\ pc[h] \notin Relaying => UNCHANGED toServer
  /\ pc[h] = "attach" => UNCHANGED toTerm
  /\ pc'[h] = "output" => held'[h] # 0
  /\ \A g \in Handlers \ {h} : held'[g] = held[g]

(* While the pipe is open, the handler that sends the TERMINAL_INIT is the *)
(* only one that uses the pipe.                                            *)
LEMMA InitAlone ==
  ASSUME SInv, NEW h \in Handlers, pc[h] = "init", PipeOpen
  PROVE  \A g \in Handlers : pc[g] \notin {"close"} \cup Relaying
<1>1. \A g \in Handlers : pc[g] \in Relaying => g = h
  BY DEF SInv, UseInv, Using
<1>2. \A g \in Handlers : pc[g] # "close"
  BY DEF SInv, IInv, EndInv, PipeOpen
<1>. QED  BY <1>1, <1>2 DEF Relaying

LEMMA ProceedsSInv ==
  ASSUME SInv, IInv', TypeOK', NEW h \in Handlers, Proceeds(h),
         pc[h] \in Relaying =>
           written'[h] \o (IF pc'[h] = "output" THEN <<held'[h]>> ELSE <<>>) \o toServer'
             = Count(printed')
  PROVE  SInv'
<1>. USE NoneIsNoHandler DEF SInv
<1>1. /\ \A g \in Handlers : g # h => pc'[g] = pc[g]
      /\ \/ pc[h] = "attach" /\ pc'[h] = "init"
         \/ pc[h] = "init" /\ PipeOpen /\ pc'[h] = "relay"
         \/ pc[h] \in Relaying /\ pc'[h] \in Relaying
      /\ UNCHANGED <<client, leaving, tcp, got, recovering, sock, owner, payload, written, line,
                     registered, pipeServer, pipeTerm, shell, writer, printed>>
      /\ \A g \in Handlers \ {h} : held'[g] = held[g]
  BY DEF Proceeds, TypeOK
<1>2. pc[h] \notin Front \cup {"initial", "close"} /\ pc'[h] \notin Front \cup First \cup {"close"}
  BY <1>1 DEF Front, First, Relaying
<1>3. FrontInv'
  <2>1. \A r \in Runs, t \in Handlers :
          tcp[r] = t /\ client[r] \in {"asked", "polled"} => t # h
    BY <1>2 DEF FrontInv, Front
  <2>. QED  BY <1>1, <1>2, <2>1 DEF FrontInv, Front
<1>4. SockInv'
  BY <1>1, <1>2 DEF SockInv, Front
<1>5. UseInv'
  <2>1. pc[h] = "attach" => \A g \in Handlers : pc[g] \notin Front
    BY DEF FrontInv, First
  <2>2. \A f, g \in Handlers : {pc'[f], pc'[g]} \subseteq {"close"} \cup Relaying => f = g
    BY <1>1, <1>2, InitAlone DEF UseInv, Relaying
  <2>. QED  BY <1>1, <1>2, <2>1, <2>2 DEF UseInv, First, Using, Relaying, PipeOpen
<1>6. OutputInv'
  <2>1. OutputIsKept'
    <3>. SUFFICES ASSUME NEW g \in Handlers, pc'[g] \in Relaying
                  PROVE  written'[g] \o (IF pc'[g] = "output" THEN <<held'[g]>> ELSE <<>>)
                           \o toServer' = Count(printed')
      BY DEF OutputIsKept
    <3>1. CASE pc[h] \in Relaying
      <4>1. g = h
        BY <1>1, <3>1 DEF UseInv
      <4>. QED  BY <3>1, <4>1
    <3>2. CASE pc[h] = "init" /\ PipeOpen
      <4>1. g = h /\ pc'[g] = "relay"
        BY <1>1, <3>2, InitAlone DEF Relaying
      <4>2. written'[g] = <<>> /\ toServer' = <<>> /\ printed' = 0
        BY <1>1, <3>2, <4>1, InitAlone DEF Proceeds, OutputInv, Relaying
      <4>3. Count(printed') = <<>>
        BY <4>2 DEF Count
      <4>. QED  BY <4>1, <4>2, <4>3
    <3>3. CASE pc[h] = "attach"
      <4>1. g # h /\ pc[g] \in Relaying /\ held'[g] = held[g] /\ toServer' = toServer
        BY <1>1, <3>3 DEF Relaying, Proceeds
      <4>. QED  BY <1>1, <4>1 DEF OutputInv, OutputIsKept
    <3>. QED  BY <1>1, <3>1, <3>2, <3>3
  <2>2. PipeOpen' /\ (\A g \in Handlers : pc'[g] \notin Relaying)
          => pc[h] = "attach" /\ \A g \in Handlers : pc[g] \notin Relaying
    BY <1>1 DEF Relaying
  <2>3. \A g \in Handlers : pc'[g] \in Front \cup First \cup {"init"} => written[g] = <<>>
    <3>. SUFFICES ASSUME NEW g \in Handlers, pc'[g] \in Front \cup First \cup {"init"}
                  PROVE  pc[g] \in Front \cup First \cup {"init"}
      BY <1>1 DEF OutputInv
    <3>. QED  BY <1>1, <1>2 DEF Front, First, Relaying
  <2>4. \A g \in Handlers : pc'[g] = "output" => held'[g] # 0
    BY <1>1 DEF OutputInv, Proceeds
  <2>5. PipeOpen' /\ (\A g \in Handlers : pc'[g] \notin Relaying) =>
          /\ printed' = 0 /\ toServer' = <<>> /\ toTerm' = <<>>
          /\ shell' = "none" /\ writer' = "reading"
    BY <1>1, <2>2 DEF OutputInv, Proceeds, PipeOpen, Relaying
  <2>. QED  BY <1>1, <2>1, <2>3, <2>4, <2>5 DEF OutputInv
<1>7. PayloadInv'
  BY <1>1, <1>2 DEF PayloadInv, PayloadAt, First, Using, Front
<1>8. OwnerInv'
  BY <1>1, <1>2 DEF OwnerInv, OwnerAt
<1>9. LineInv'
  <2>. SUFFICES ASSUME NEW r \in Runs, NEW t \in Handlers, tcp'[r] = t
                PROVE  LineAt(r, t)'
    BY DEF LineInv
  <2>1. LineAt(r, t)
    BY <1>1 DEF LineInv
  <2>2. pc'[t] \in Front => pc[t] \in Front
    BY <1>1, <1>2
  <2>. QED  BY <1>1, <2>1, <2>2, LineStays
<1>10. OutputInOrder'
  BY <1>1, OrderFrame
<1>. QED  BY <1>3, <1>4, <1>5, <1>6, <1>7, <1>8, <1>9, <1>10

LEMMA HeadThenTail ==
  ASSUME NEW S, NEW q \in Seq(S), q # <<>>
  PROVE  <<Head(q)>> \o Tail(q) = q
<1>. DEFINE c == <<Head(q)>> \o Tail(q)
<1>1. /\ Head(q) = q[1] /\ Head(q) \in S /\ Tail(q) \in Seq(S)
      /\ Len(q) \in Nat /\ Len(q) >= 1 /\ Len(Tail(q)) = Len(q) - 1
      /\ \A k \in 1..(Len(q) - 1) : Tail(q)[k] = q[k + 1]
  BY HeadTailFacts
<1>2. <<Head(q)>> \in Seq(S) /\ Len(<<Head(q)>>) = 1 /\ <<Head(q)>>[1] = Head(q)
  BY <1>1
<1>3. PICK a, b : a = <<Head(q)>> /\ b = Tail(q)
  OBVIOUS
<1>4. /\ a \o b \in Seq(S) /\ Len(a \o b) = Len(a) + Len(b)
      /\ \A i \in 1..(Len(a) + Len(b)) :
           (a \o b)[i] = IF i <= Len(a) THEN a[i] ELSE b[i - Len(a)]
  BY <1>1, <1>2, <1>3, ConcatProperties
<1>5. Len(a \o b) = Len(q)
  BY <1>1, <1>2, <1>3, <1>4
<1>6. \A i \in 1..Len(a \o b) : (a \o b)[i] = q[i]
  <2>. SUFFICES ASSUME NEW i \in 1..Len(a \o b)  PROVE (a \o b)[i] = q[i]
    OBVIOUS
  <2>1. CASE i = 1
    BY <1>1, <1>2, <1>3, <1>4, <1>5, <2>1
  <2>2. CASE i # 1
    <3>1. i - 1 \in 1..(Len(q) - 1) /\ ~(i <= 1) /\ i \in 1..(Len(a) + Len(b))
      BY <1>1, <1>4, <1>5, <2>2
    <3>2. (a \o b)[i] = b[i - 1]
      BY <1>2, <1>3, <1>4, <3>1
    <3>. QED  BY <1>1, <1>3, <3>1, <3>2
  <2>. QED  BY <2>1, <2>2
<1>7. a \o b = q
  BY <1>4, <1>5, <1>6, SeqEqual
<1>. QED  BY <1>3, <1>7

(* Output taken out of the pipe is still there to be written.              *)
LEMMA KeptWhenTaken ==
  ASSUME NEW S, NEW w \in Seq(S), NEW q \in Seq(S), q # <<>>
  PROVE  w \o <<Head(q)>> \o Tail(q) = w \o <<>> \o q
<1>1. Head(q) \in S /\ Tail(q) \in Seq(S) /\ <<Head(q)>> \o Tail(q) = q
  BY HeadTailFacts, HeadThenTail
<1>2. <<Head(q)>> \in Seq(S)
  BY <1>1
<1>3. w \o <<Head(q)>> \o Tail(q) = w \o (<<Head(q)>> \o Tail(q))
  BY <1>1, <1>2, ConcatAssociative
<1>4. w \o <<>> = w
  BY ConcatEmptySeq
<1>. QED  BY <1>1, <1>3, <1>4

LEMMA ProceedSInv ==
  ASSUME SInv, IInv', NEW h \in Handlers,
         \/ LookupTerminal(h) /\ known
         \/ SendTermInit(h) \/ WriteInput(h) \/ RelayInput(h) \/ RelayOutput(h)
  PROVE  SInv'
<1>. USE NoneIsNoHandler DEF SInv
<1>1. CASE LookupTerminal(h) /\ known
  <2>1. /\ pc[h] = "attach" /\ pc' = [pc EXCEPT ![h] = "init"]
        /\ UNCHANGED <<client, tcp, leaving, typed, fed, got, recovering, held, sock, owner,
                       payload, written, line, known, registered, pipeServer, pipeTerm, toTerm,
                       toServer, shell, reader, writer, printed, losses>>
    BY <1>1 DEF LookupTerminal, Goto, clients, registry, pipe, terminal
  <2>2. TypeOK'
    BY <2>1, TypeParts, PacketFrame, FlagFrame DEF PlaceTypes, Places, Relaying
  <2>3. Proceeds(h)
    BY <2>1 DEF Proceeds, TypeOK, Relaying
  <2>4. pc[h] \notin Relaying
    BY <2>1 DEF Relaying
  <2>. QED  BY <2>2, <2>3, <2>4, ProceedsSInv
<1>2. CASE SendTermInit(h) \/ WriteInput(h)
  <2>1. /\ pc[h] \in {"init", "input"} /\ PipeOpen
        /\ pc' = [pc EXCEPT ![h] = "relay"]
        /\ \E k \in {"init", "key"} : toTerm' = Append(toTerm, k)
        /\ UNCHANGED <<client, tcp, leaving, typed, fed, got, recovering, held, sock, owner,
                       payload, written, line, known, registered, pipeServer, pipeTerm,
                       toServer, shell, reader, writer, printed, losses>>
    BY <1>2 DEF SendTermInit, WriteInput, WritePipe, Goto, clients, conns, registry, terminal
  <2>2. TypeOK'
    <3>1. toTerm' \in Seq({"init", "key"})
      BY <2>1, AppendProperties DEF TypeOK
    <3>. QED  BY <2>1, <3>1, TypeParts, FlagFrame DEF PlaceTypes, PacketTypes, Places, Relaying
  <2>3. Proceeds(h)
    BY <2>1 DEF Proceeds, TypeOK, Relaying
  <2>4. pc[h] \in Relaying =>
          written'[h] \o (IF pc'[h] = "output" THEN <<held'[h]>> ELSE <<>>) \o toServer'
            = Count(printed')
    <3>1. pc[h] # "output" /\ pc'[h] # "output"
      BY <2>1 DEF TypeOK
    <3>. QED  BY <2>1, <3>1 DEF OutputInv, OutputIsKept
  <2>. QED  BY <2>2, <2>3, <2>4, ProceedsSInv
<1>3. CASE RelayInput(h)
  <2>. DEFINE r == owner[h]
  <2>1. /\ pc[h] = "relay" /\ fed[r] < typed[r]
        /\ fed' = [fed EXCEPT ![r] = @ + 1]
        /\ pc' = [pc EXCEPT ![h] = "input"]
        /\ UNCHANGED <<client, tcp, leaving, typed, got, recovering, held, sock, owner,
                       payload, written, line, known, registered, pipeServer, pipeTerm, toTerm,
                       toServer, shell, reader, writer, printed, losses>>
    BY <1>3 DEF RelayInput, Goto, conns, registry, pipe, terminal
  <2>2. r \in Runs
    BY <2>1 DEF PayloadInv, PayloadAt, Using, Relaying, TypeOK
  <2>3. TypeOK'
    <3>1. fed' \in [Runs -> 0..MaxKeys] /\ \A q \in Runs : fed'[q] <= typed'[q]
      <4>1. /\ fed[r] \in Nat /\ typed[r] \in Nat /\ typed[r] <= MaxKeys /\ MaxKeys \in Nat
            /\ fed'[r] = fed[r] + 1
        BY <2>1, <2>2, BoundsAssumption DEF TypeOK
      <4>2. fed'[r] \in 0..MaxKeys /\ fed'[r] <= typed[r]
        BY <2>1, <4>1
      <4>. HIDE DEF r
      <4>. QED  BY <2>1, <2>2, <4>2 DEF TypeOK
    <3>. QED  BY <2>1, <3>1, TypeParts, PacketFrame, FlagFrame DEF PlaceTypes, Places, Relaying
  <2>4. Proceeds(h)
    BY <2>1 DEF Proceeds, TypeOK, Relaying
  <2>5. written'[h] \o (IF pc'[h] = "output" THEN <<held'[h]>> ELSE <<>>) \o toServer'
          = Count(printed')
    <3>1. pc[h] # "output" /\ pc'[h] # "output" /\ pc[h] \in Relaying
      BY <2>1 DEF TypeOK, Relaying
    <3>. QED  BY <2>1, <3>1 DEF OutputInv, OutputIsKept
  <2>. QED  BY <2>3, <2>4, <2>5, ProceedsSInv
<1>4. CASE RelayOutput(h)
  <2>. DEFINE Out == 1..MaxOutputs
  <2>1. /\ pc[h] = "relay" /\ toServer # <<>>
        /\ held' = [held EXCEPT ![h] = Head(toServer)]
        /\ toServer' = Tail(toServer)
        /\ pc' = [pc EXCEPT ![h] = "output"]
        /\ UNCHANGED <<client, tcp, leaving, typed, fed, got, recovering, sock, owner,
                       payload, written, line, known, registered, pipeServer, pipeTerm, toTerm,
                       shell, reader, writer, printed, losses>>
    BY <1>4 DEF RelayOutput, Goto, clients, conns, registry, terminal
  <2>2. toServer \in Seq(Out) /\ written[h] \in Seq(Out)
    BY DEF TypeOK
  <2>3. Head(toServer) \in Out /\ Tail(toServer) \in Seq(Out)
    <3>. HIDE DEF Out
    <3>. QED  BY <2>1, <2>2, HeadTailFacts
  <2>4. TypeOK'
    <3>1. Head(toServer) \in 0..MaxOutputs /\ toServer' \in Seq(1..MaxOutputs)
      BY <2>1, <2>3, BoundsAssumption
    <3>2. held' \in [Handlers -> 0..MaxOutputs] /\ pc' \in [Handlers -> Places]
      BY <2>1, <3>1 DEF TypeOK, Places, Relaying
    <3>. QED  BY <2>1, <3>1, <3>2, TypeParts, FlagFrame
         DEF PlaceTypes, PacketTypes, Places, Relaying
  <2>5. pc'[h] = "output" /\ held'[h] = Head(toServer) /\ held'[h] # 0 /\ pc[h] \in Relaying
        /\ pc[h] # "output"
    BY <2>1, <2>3 DEF TypeOK, Relaying
  <2>6. Proceeds(h)
    BY <2>1, <2>5 DEF Proceeds, TypeOK, Relaying
  <2>7. written[h] \o <<Head(toServer)>> \o Tail(toServer) = written[h] \o <<>> \o toServer
    <3>. HIDE DEF Out
    <3>. QED  BY <2>1, <2>2, KeptWhenTaken
  <2>8. written[h] \o <<>> \o toServer = Count(printed)
    BY <2>5 DEF OutputInv, OutputIsKept
  <2>9. written'[h] \o (IF pc'[h] = "output" THEN <<held'[h]>> ELSE <<>>) \o toServer'
          = Count(printed')
    BY <2>1, <2>5, <2>7, <2>8
  <2>. QED  BY <2>4, <2>6, <2>9, ProceedsSInv
<1>. QED  BY <1>1, <1>2, <1>3, <1>4

(* The packet a relay holds is the next one for its connection.            *)
LEMMA HeldIsNext ==
  ASSUME TypeOK, OutputInv, NEW h \in Handlers, pc[h] = "output"
  PROVE  /\ held[h] = Len(written[h]) + 1 /\ held[h] <= printed
         /\ Append(written[h], held[h]) = Count(Len(written[h]) + 1)
         /\ Append(written[h], held[h]) \in Seq(1..MaxOutputs)
         /\ Len(Append(written[h], held[h])) = Len(written[h]) + 1
         /\ Append(written[h], held[h]) \o <<>> \o toServer = Count(printed)
<1>. DEFINE S == 1..MaxOutputs
<1>1. PICK w, q, e, n : w = written[h] /\ q = toServer /\ e = held[h] /\ n = printed
  OBVIOUS
<1>2. /\ w \in Seq(S) /\ q \in Seq(S) /\ e \in S /\ n \in Nat
      /\ w = Count(Len(w)) /\ w \o <<e>> \o q = Count(n)
  <2>1. /\ w \in Seq(S) /\ q \in Seq(S) /\ e \in S /\ n \in Nat /\ w = Count(Len(w))
    BY <1>1, BoundsAssumption DEF TypeOK, OutputInv
  <2>2. pc[h] \in Relaying
    BY DEF Relaying
  <2>3. written[h] \o (IF pc[h] = "output" THEN <<held[h]>> ELSE <<>>) \o toServer = Count(printed)
    BY <2>2 DEF OutputInv, OutputIsKept
  <2>. QED  BY <1>1, <2>1, <2>3
<1>. HIDE DEF S
<1>3. /\ <<e>> \in Seq(S) /\ Len(<<e>>) = 1 /\ <<e>>[1] = e
      /\ Len(w) \in Nat /\ Len(q) \in Nat
  BY <1>2, LenProperties
<1>4. PICK o : o = <<e>>
  OBVIOUS
<1>5. /\ w \o o \in Seq(S) /\ Len(w \o o) = Len(w) + Len(o)
      /\ \A i \in 1..(Len(w) + Len(o)) :
           (w \o o)[i] = IF i <= Len(w) THEN w[i] ELSE o[i - Len(w)]
  BY <1>3, <1>4, <1>2, ConcatProperties
<1>6. (w \o o)[Len(w) + 1] = e
  <2>1. Len(w) + 1 \in 1..(Len(w) + Len(o)) /\ ~(Len(w) + 1 <= Len(w))
        /\ (Len(w) + 1) - Len(w) = 1
    BY <1>3, <1>4
  <2>. QED  BY <1>3, <1>4, <1>5, <2>1
<1>7. PICK a : a = w \o o
  OBVIOUS
<1>8. a \in Seq(S) /\ Len(a) = Len(w) + 1 /\ a[Len(w) + 1] = e
  BY <1>3, <1>4, <1>5, <1>6, <1>7
<1>9. /\ Len(a \o q) = Len(a) + Len(q)
      /\ \A i \in 1..(Len(a) + Len(q)) :
           (a \o q)[i] = IF i <= Len(a) THEN a[i] ELSE q[i - Len(a)]
  BY <1>8, <1>2, ConcatProperties
<1>10. Len(w) + 1 \in 1..(Len(a) + Len(q)) /\ Len(w) + 1 <= Len(a)
  BY <1>3, <1>8
<1>11. (a \o q)[Len(w) + 1] = e
  BY <1>8, <1>9, <1>10
<1>12. a \o q = Count(n)
  BY <1>4, <1>7, <1>2
<1>13. Len(Count(n)) = n /\ \A k \in 1..n : Count(n)[k] = k
  <2>1. n <= n
    BY <1>2
  <2>. QED  BY <1>2, <2>1, CountSeq
<1>14. e = Len(w) + 1 /\ e <= n
  BY <1>3, <1>8, <1>9, <1>11, <1>12, <1>13
<1>15. Append(w, e) = Count(Len(w) + 1)
  BY <1>3, <1>14, <1>2, AppendCount
<1>16. /\ Append(w, e) \in Seq(S) /\ Len(Append(w, e)) = Len(w) + 1
       /\ Append(w, e) = w \o <<e>>
  BY <1>2, AppendFacts, AppendIsConcat
<1>17. Append(w, e) \o <<>> = Append(w, e)
  BY <1>16, ConcatEmptySeq
<1>18. Append(w, e) \o <<>> \o q = Count(n)
  BY <1>2, <1>16, <1>17
<1>. QED  BY <1>1, <1>14, <1>15, <1>16, <1>18, Zenon DEF S

(* The process a relay writes to has no other connection.                  *)
LEMMA WriteFinds ==
  ASSUME SInv, NEW h \in Handlers, NEW r \in Runs,
         pc[h] = "output", sock[h] # None, tcp[r] = sock[h]
  PROVE  /\ sock[h] \in Handlers /\ pc[sock[h]] \notin Front
         /\ \A q \in Runs : tcp[q] # None => q = r
         /\ \A c \in Handlers : owner[c] = r \/ sock[c] = sock[h] <=> c = h
<1>. USE NoneIsNoHandler DEF SInv
<1>1. sock[h] \in Handlers /\ pc[sock[h]] \notin Front
  BY DEF TypeOK, SockInv
<1>2. \A q \in Runs : tcp[q] # None => q = r
  BY SocketAlone
<1>3. owner[h] = r
  BY DEF OwnerInv, OwnerAt
<1>4. client[r] \in {"hello", "attached"} /\ r \notin leaving
  <2>1. client[r] \in {"asked", "hello", "attached", "polled"}
    BY DEF IInv, PlaceInv
  <2>2. client[r] \notin {"asked", "polled"}
    BY <1>1 DEF FrontInv, Front
  <2>. QED  BY <2>1, <2>2 DEF OwnerInv, OwnerAt
<1>5. \A c \in Handlers : owner[c] = r => c = h
  BY <1>3, <1>4 DEF OwnerInv, OwnerAt
<1>6. \A c \in Handlers : sock[c] = sock[h] => c = h
  BY DEF SockInv
<1>. QED  BY <1>1, <1>2, <1>3, <1>5, <1>6

LEMMA WriteOutputSInv ==
  ASSUME SInv, IInv', NEW h \in Handlers, WriteOutput(h)
  PROVE  SInv'
<1>. USE NoneIsNoHandler DEF SInv
<1>. DEFINE w == written[h]
            e == held[h]
            t == sock[h]
<1>1. /\ pc[h] = "output" /\ t # None /\ pc' = [pc EXCEPT ![h] = "relay"]
      /\ written' = [written EXCEPT ![h] = Append(w, e)]
      /\ \/ /\ At(t) # {}
            /\ line' = [line EXCEPT ![t] = Append(line[t], e)]
            /\ sock' = sock
         \/ /\ At(t) = {}
            /\ line' = line
            /\ sock' \in {sock, [sock EXCEPT ![h] = None]}
      /\ held' = [held EXCEPT ![h] = 0]
      /\ UNCHANGED <<client, tcp, leaving, typed, fed, got, recovering, owner, payload, known,
                     registered, pipeServer, pipeTerm, toTerm, toServer, shell, reader, writer,
                     printed, losses>>
  BY DEF WriteOutput, Goto, clients, registry, pipe, terminal, TypeOK
<1>2. /\ w \in Seq(1..MaxOutputs) /\ toServer \in Seq(1..MaxOutputs)
      /\ e \in 1..MaxOutputs /\ printed \in Nat /\ w = Count(Len(w)) /\ t \in Handlers
      /\ Len(w) \in Nat
  BY <1>1, BoundsAssumption, LenProperties DEF TypeOK, OutputInv
<1>3. /\ e = Len(w) + 1 /\ e <= printed
      /\ Append(w, e) = Count(Len(w) + 1) /\ Append(w, e) \in Seq(1..MaxOutputs)
      /\ Len(Append(w, e)) = Len(w) + 1
      /\ Append(w, e) \o <<>> \o toServer = Count(printed)
  BY <1>1, HeldIsNext
<1>. HIDE DEF e, t
<1>4. /\ pc'[h] = "relay" /\ \A g \in Handlers : g # h => pc'[g] = pc[g]
      /\ written'[h] = Append(w, e)
      /\ \A g \in Handlers : g # h => written'[g] = written[g] /\ held'[g] = held[g]
      /\ \A g \in Handlers : sock'[g] \in {sock[g], None}
  BY <1>1 DEF TypeOK
<1>. HIDE DEF w
<1>5. TypeOK'
  <2>1. /\ written' \in [Handlers -> Seq(1..MaxOutputs)]
        /\ held' \in [Handlers -> 0..MaxOutputs]
    <3>1. written' \in [Handlers -> Seq(1..MaxOutputs)]
      BY <1>1, <1>3 DEF TypeOK
    <3>2. held' \in [Handlers -> 0..MaxOutputs]
      BY <1>1, BoundsAssumption DEF TypeOK
    <3>. QED  BY <3>1, <3>2
  <2>2. line' \in [Handlers -> Seq(1..MaxOutputs)]
    <3>1. Append(line[t], e) \in Seq(1..MaxOutputs)
      BY <1>2, AppendProperties DEF TypeOK
    <3>. QED  BY <1>1, <3>1 DEF TypeOK
  <2>3. sock' \in [Handlers -> Handlers \cup {None}]
    BY <1>1 DEF TypeOK
  <2>. QED  BY <1>1, <2>1, <2>2, <2>3, TypeParts, FlagFrame
       DEF PlaceTypes, PacketTypes, Places, Relaying
<1>6. FrontInv'
  <2>1. \A r \in Runs, u \in Handlers :
          tcp[r] = u /\ client[r] \in {"asked", "polled"} => u # h
    BY <1>1 DEF FrontInv
  <2>. QED  BY <1>1, <1>4, <2>1 DEF FrontInv, Front, First
<1>7. SockInv'
  <2>1. \A g \in Handlers : pc[g] \in First => sock'[g] = sock[g]
    BY <1>1 DEF First, TypeOK
  <2>. QED  BY <1>1, <1>4, <2>1 DEF SockInv, Front, First
<1>8. UseInv'
  BY <1>1, <1>4 DEF UseInv, Front, First, Using, Relaying, PipeOpen
<1>9. \A c \in Handlers : /\ Len(written[c]) \in Nat /\ Len(written'[c]) \in Nat
                          /\ Len(written[c]) <= Len(written'[c])
  <2>. SUFFICES ASSUME NEW c \in Handlers
                PROVE  /\ Len(written[c]) \in Nat /\ Len(written'[c]) \in Nat
                       /\ Len(written[c]) <= Len(written'[c])
    OBVIOUS
  <2>1. CASE c = h
    <3>1. Len(w) \in Nat /\ Len(Append(w, e)) \in Nat /\ Len(w) <= Len(Append(w, e))
      BY <1>2, <1>3
    <3>. QED  BY <1>4, <2>1, <3>1, Zenon DEF w
  <2>2. CASE c # h
    <3>1. PICK n : n = Len(written[c])
      OBVIOUS
    <3>2. n \in Nat
      BY <3>1, LenProperties DEF TypeOK
    <3>. QED  BY <1>4, <2>2, <3>1, <3>2
  <2>. QED  BY <2>1, <2>2
<1>10. OutputInv'
  <2>1. OutputIsKept'
    <3>. SUFFICES ASSUME NEW g \in Handlers, pc'[g] \in Relaying
                  PROVE  written'[g] \o (IF pc'[g] = "output" THEN <<held'[g]>> ELSE <<>>)
                           \o toServer' = Count(printed')
      BY DEF OutputIsKept
    <3>1. g = h
      BY <1>1, <1>4 DEF UseInv, Relaying
    <3>. QED  BY <1>1, <1>3, <1>4, <3>1
  <2>2. \A c \in Handlers : written'[c] = Count(Len(written'[c])) /\ Len(written'[c]) <= printed'
    <3>. SUFFICES ASSUME NEW c \in Handlers
                  PROVE  written'[c] = Count(Len(written'[c])) /\ Len(written'[c]) <= printed'
      OBVIOUS
    <3>1. CASE c = h
      <4>1. Append(w, e) = Count(Len(Append(w, e))) /\ Len(Append(w, e)) <= printed
        BY <1>2, <1>3
      <4>. QED  BY <1>1, <1>4, <3>1, <4>1
    <3>2. CASE c # h
      BY <1>1, <1>4, <3>2 DEF OutputInv
    <3>. QED  BY <3>1, <3>2
  <2>3. \A g \in Handlers : pc'[g] \in Front \cup First \cup {"init"} => g # h
    BY <1>4 DEF Front, First
  <2>. QED  BY <1>1, <1>4, <2>1, <2>2, <2>3 DEF OutputInv, Relaying
<1>11. PayloadInv'
  BY <1>1, <1>4 DEF PayloadInv, PayloadAt, Front, First, Using, Relaying
<1>12. OwnerInv'
  <2>. SUFFICES ASSUME NEW q \in Runs  PROVE OwnerAt(q)'
    BY DEF OwnerInv
  <2>1. OwnerAt(q)
    BY DEF OwnerInv
  <2>2. \A c \in Handlers : sock'[c] = tcp'[q] /\ sock'[c] # None => sock[c] = tcp[q] /\ sock[c] # None
    BY <1>1, <1>4
  <2>3. \A c \in Handlers : pc'[c] # "initial" => pc[c] # "initial"
    BY <1>1, <1>4
  <2>4. \A c \in Handlers : owner[c] = q => Len(got[q]) <= Len(written'[c])
    <3>. SUFFICES ASSUME NEW c \in Handlers, owner[c] = q
                  PROVE  Len(got[q]) <= Len(written'[c])
      OBVIOUS
    <3>1. PICK n : n = Len(got[q])
      OBVIOUS
    <3>2. n \in Nat /\ n <= Len(written[c])
      BY <2>1, <3>1, LenProperties DEF OwnerAt, TypeOK
    <3>3. PICK a, b : a = Len(written[c]) /\ b = Len(written'[c])
      OBVIOUS
    <3>4. n <= b
      BY <1>9, <3>2, <3>3
    <3>. QED  BY <3>1, <3>3, <3>4
  <2>. QED  BY <1>1, <2>1, <2>2, <2>3, <2>4 DEF OwnerAt
<1>13. LineInv'
  <2>. SUFFICES ASSUME NEW r \in Runs, NEW u \in Handlers, tcp'[r] = u
                PROVE  LineAt(r, u)'
    BY DEF LineInv
  <2>. DEFINE g == Len(got[r])
              l == line[u]
  <2>1. LineAt(r, u) /\ tcp[r] = u
    BY <1>1 DEF LineInv
  <2>2. g \in Nat /\ l \in Seq(1..MaxOutputs) /\ Len(l) \in Nat
    BY LenProperties DEF TypeOK
  <2>3. /\ \A k \in 1..Len(l) : l[k] = g + k
        /\ g + Len(l) <= printed
        /\ \A c \in Handlers : /\ owner[c] = r => g + Len(l) <= Len(written[c])
                               /\ sock[c] = u => g + Len(l) = Len(written[c])
    BY <2>1 DEF LineAt
  <2>4. pc'[u] \in Front => pc[u] \in Front
    BY <1>4 DEF Front
  <2>5. CASE u = t
    <3>1. /\ At(t) # {} /\ line'[u] = Append(l, e) /\ sock' = sock /\ got' = got
          /\ pc[u] \notin Front
          /\ \A c \in Handlers : owner[c] = r \/ sock[c] = t <=> c = h
      <4>1. r \in At(t)
        BY <2>1, <2>5 DEF At
      <4>2. /\ pc[t] \notin Front
            /\ \A c \in Handlers : owner[c] = r \/ sock[c] = t <=> c = h
        BY <1>1, <2>1, <2>5, WriteFinds DEF t
      <4>3. At(t) # {} /\ line'[t] = Append(line[t], e) /\ sock' = sock /\ got' = got
        BY <1>1, <1>2, <4>1 DEF TypeOK
      <4>. QED  BY <2>5, <4>2, <4>3
    <3>2. g + Len(l) = Len(w)
      <4>1. sock[h] = u
        BY <2>5 DEF t
      <4>. HIDE DEF g, l
      <4>. QED  BY <2>3, <4>1 DEF w
    <3>3. /\ Len(Append(l, e)) = Len(l) + 1
          /\ \A k \in 1..Len(l) : Append(l, e)[k] = l[k]
          /\ Append(l, e)[Len(l) + 1] = e
      BY <1>2, <2>2, AppendProperties
    <3>. HIDE DEF g, l
    <3>4. \A k \in 1..Len(Append(l, e)) : Append(l, e)[k] = g + k
      <4>. SUFFICES ASSUME NEW k \in 1..Len(Append(l, e))  PROVE Append(l, e)[k] = g + k
        OBVIOUS
      <4>1. k \in 1..Len(l) \/ k = Len(l) + 1
        BY <2>2, <3>3
      <4>2. e = g + (Len(l) + 1)
        BY <1>2, <1>3, <2>2, <3>2
      <4>. QED  BY <2>3, <3>3, <4>1, <4>2
    <3>. DEFINE n == g + Len(Append(l, e))
    <3>5. n = Len(Append(w, e)) /\ n <= printed /\ n \in Nat
      BY <1>2, <1>3, <2>2, <3>2, <3>3
    <3>6. n = Len(got'[r]) + Len(line'[u])
      BY <3>1, Zenon DEF g
    <3>7. /\ \A k \in 1..Len(line'[u]) : line'[u][k] = Len(got'[r]) + k
          /\ pc'[u] \notin Front
      BY <2>4, <3>1, <3>4, Zenon DEF g
    <3>. HIDE DEF n
    <3>8. /\ n <= printed'
          /\ \A c \in Handlers : /\ owner'[c] = r => n <= Len(written'[c])
                                 /\ sock'[c] = u => n = Len(written'[c])
      BY <1>1, <1>4, <2>5, <3>1, <3>5
    <3>. QED  BY <3>6, <3>7, <3>8, Zenon DEF LineAt
  <2>6. CASE u # t
    <3>1. line'[u] = l /\ got' = got /\ printed' = printed /\ owner' = owner
      BY <1>1, <2>6 DEF TypeOK
    <3>. DEFINE n == g + Len(l)
    <3>2. n \in Nat
      <4>. HIDE DEF g, l
      <4>. QED  BY <2>2
    <3>. HIDE DEF n
    <3>3. \A c \in Handlers : sock'[c] = u => c # h /\ sock[c] = u
      BY <1>2, <1>4, <2>6, NoneIsNoHandler DEF t
    <3>4. /\ n <= printed'
          /\ \A c \in Handlers : owner'[c] = r => n <= Len(written'[c])
      <4>. SUFFICES ASSUME NEW c \in Handlers, owner[c] = r  PROVE n <= Len(written'[c])
        BY <2>3, <3>1 DEF n
      <4>1. n <= Len(written[c])
        BY <2>3 DEF n
      <4>2. PICK a, b : a = Len(written[c]) /\ b = Len(written'[c])
        OBVIOUS
      <4>3. n <= b
        BY <1>9, <3>2, <4>1, <4>2
      <4>. QED  BY <4>2, <4>3
    <3>5. \A c \in Handlers : sock'[c] = u => n = Len(written'[c])
      BY <1>4, <2>3, <3>3 DEF n
    <3>6. n = Len(got'[r]) + Len(line'[u])
      BY <3>1, Zenon DEF n, g
    <3>7. /\ pc'[u] \in Front => line'[u] = <<>>
          /\ \A k \in 1..Len(line'[u]) : line'[u][k] = Len(got'[r]) + k
      BY <2>1, <2>4, <3>1 DEF LineAt
    <3>. QED  BY <3>4, <3>5, <3>6, <3>7, Zenon DEF LineAt
  <2>. QED  BY <2>5, <2>6
<1>14. OutputInOrder'
  BY <1>1, OrderFrame
<1>. QED
  BY <1>5, <1>6, <1>7, <1>8, <1>10, <1>11, <1>12, <1>13, <1>14

-----------------------------------------------------------------------------
(* What the terminal does touches only its own variables and the pipe.     *)
Aside ==
  /\ UNCHANGED <<client, leaving, tcp, typed, fed, got, pc, recovering, held, sock, owner,
                 payload, written, line, registered, losses>>
  /\ pipeServer' = pipeServer /\ (pipeTerm' => pipeTerm)
  /\ printed' \in {printed, printed + 1}

LEMMA AsideSInv ==
  ASSUME SInv, IInv', TypeOK', OutputInv', Aside
  PROVE  SInv'
<1>. USE DEF SInv
<1>1. FrontInv' /\ SockInv' /\ PayloadInv' /\ OwnerInv'
  BY FrontFrame, SockFrame, PayloadFrame, OwnerFrame DEF Aside
<1>2. UseInv'
  BY DEF Aside, UseInv, PipeOpen
<1>3. printed \in Nat /\ printed' \in Nat /\ printed <= printed'
  BY BoundsAssumption DEF Aside, TypeOK
<1>4. LineInv'
  <2>. SUFFICES ASSUME NEW r \in Runs, NEW t \in Handlers, tcp'[r] = t
                PROVE  LineAt(r, t)'
    BY DEF LineInv
  <2>1. LineAt(r, t)
    BY DEF LineInv, Aside
  <2>. DEFINE n == Len(got[r]) + Len(line[t])
  <2>2. n \in Nat
    <3>1. Len(got[r]) \in Nat /\ Len(line[t]) \in Nat
      BY LenProperties DEF TypeOK
    <3>2. \A a, b \in Nat : a + b \in Nat
      OBVIOUS
    <3>. QED  BY <3>1, <3>2, Zenon
  <2>3. n = Len(got'[r]) + Len(line'[t])
    BY Zenon DEF Aside, n
  <2>4. n <= printed /\ \A c \in Handlers : /\ owner[c] = r => n <= Len(written[c])
                                            /\ sock[c] = t => n = Len(written[c])
    BY <2>1 DEF LineAt
  <2>. HIDE DEF n
  <2>5. n <= printed' /\ \A c \in Handlers : /\ owner'[c] = r => n <= Len(written'[c])
                                             /\ sock'[c] = t => n = Len(written'[c])
    BY <1>3, <2>2, <2>4 DEF Aside
  <2>6. /\ pc'[t] \in Front => line'[t] = <<>>
        /\ \A k \in 1..Len(line'[t]) : line'[t][k] = Len(got'[r]) + k
    BY <2>1 DEF LineAt, Aside
  <2>. QED  BY <2>3, <2>5, <2>6, Zenon DEF LineAt
<1>5. OutputInOrder'
  <2>. SUFFICES ASSUME NEW r \in Runs
                PROVE  got'[r] = Count(Len(got'[r])) /\ Len(got'[r]) <= printed'
    BY DEF OutputInOrder
  <2>1. got[r] = Count(Len(got[r])) /\ Len(got[r]) <= printed /\ got' = got
    BY DEF OutputInOrder, Aside
  <2>2. Len(got[r]) \in Nat
    BY LenProperties DEF TypeOK
  <2>3. Len(got[r]) <= printed'
    BY <1>3, <2>1, <2>2
  <2>. QED  BY <2>1, <2>3
<1>. QED  BY <1>1, <1>2, <1>4, <1>5

(* Without a relay the pipe is empty and nothing has been printed, so no   *)
(* other step of the terminal than its start and its end is possible.      *)
LEMMA AsideOutput ==
  ASSUME OutputInv, Aside, printed' = printed, toServer' = toServer,
         \/ ~PipeOpen' \/ \E h \in Handlers : pc[h] \in Relaying
         \/ UNCHANGED <<toTerm, shell, writer>>,
         writer' = "writing" => printed < MaxOutputs
  PROVE  OutputInv'
<1>1. OutputIsKept'
  BY DEF OutputInv, OutputIsKept, Aside
<1>2. PipeOpen' => PipeOpen
  BY DEF PipeOpen, Aside
<1>. QED  BY <1>1, <1>2 DEF OutputInv, Aside

(* OutputWrite puts the next packet at the end of the pipe.                *)
LEMMA KeptWhenPrinted ==
  ASSUME NEW S, NEW w \in Seq(S), NEW x \in Seq(S), NEW q \in Seq(S), NEW e \in S
  PROVE  w \o x \o Append(q, e) = Append(w \o x \o q, e)
<1>1. Append(q, e) = q \o <<e>> /\ <<e>> \in Seq(S)
  BY AppendIsConcat
<1>2. w \o x \in Seq(S)
  BY ConcatProperties
<1>3. w \o x \o q \in Seq(S)
  BY <1>2, ConcatProperties
<1>4. (w \o x) \o (q \o <<e>>) = ((w \o x) \o q) \o <<e>>
  BY <1>1, <1>2, ConcatAssociative
<1>5. Append(w \o x \o q, e) = (w \o x \o q) \o <<e>>
  BY <1>3, AppendIsConcat
<1>. QED  BY <1>1, <1>4, <1>5

LEMMA OutputWriteSInv ==
  ASSUME SInv, IInv', OutputWrite
  PROVE  SInv'
<1>. USE DEF SInv
<1>. DEFINE Out == 1..MaxOutputs
            e == printed + 1
<1>1. /\ writer = "writing" /\ PipeOpen
      /\ printed' = e /\ toServer' = Append(toServer, e) /\ writer' = "reading"
      /\ UNCHANGED <<client, leaving, tcp, typed, fed, got, pc, recovering, held, sock, owner,
                     payload, written, line, known, registered, pipeServer, pipeTerm, toTerm,
                     shell, reader, losses>>
  BY DEF OutputWrite, clients, conns, registry
<1>2. /\ printed \in Nat /\ e \in Out /\ e \in 0..MaxOutputs
      /\ toServer \in Seq(Out)
  BY <1>1, BoundsAssumption DEF TypeOK, OutputInv
<1>3. TypeOK'
  <2>1. toServer' \in Seq(1..MaxOutputs)
    BY <1>1, <1>2, AppendProperties
  <2>. QED  BY <1>1, <1>2, <2>1 DEF TypeOK
<1>4. OutputInv'
  <2>1. \E h \in Handlers : pc[h] \in Relaying
    BY <1>1 DEF OutputInv
  <2>2. OutputIsKept'
    <3>. SUFFICES ASSUME NEW h \in Handlers, pc[h] \in Relaying
                  PROVE  written[h] \o (IF pc[h] = "output" THEN <<held[h]>> ELSE <<>>)
                           \o Append(toServer, e) = Count(e)
      BY <1>1 DEF OutputIsKept
    <3>1. PICK w, x, q : /\ w = written[h] /\ q = toServer
                         /\ x = IF pc[h] = "output" THEN <<held[h]>> ELSE <<>>
      OBVIOUS
    <3>2. w \in Seq(Out) /\ q \in Seq(Out)
      BY <1>2, <3>1 DEF TypeOK
    <3>3. x \in Seq(Out)
      <4>1. pc[h] = "output" => held[h] \in Out
        BY BoundsAssumption DEF TypeOK, OutputInv
      <4>2. <<>> \in Seq(Out)
        BY EmptySeq
      <4>3. CASE pc[h] = "output"
        <5>1. x = <<held[h]>> /\ held[h] \in Out
          BY <3>1, <4>1, <4>3
        <5>. HIDE DEF Out
        <5>. QED  BY <5>1
      <4>. QED  BY <3>1, <4>2, <4>3
    <3>4. w \o x \o q = Count(printed)
      BY <3>1 DEF OutputInv, OutputIsKept
    <3>5. w \o x \o Append(q, e) = Append(w \o x \o q, e)
      <4>. HIDE DEF Out, e
      <4>. QED  BY <1>2, <3>2, <3>3, KeptWhenPrinted
    <3>6. Append(Count(printed), e) = Count(e)
      BY <1>2, AppendCount
    <3>. QED  BY <3>1, <3>4, <3>5, <3>6
  <2>3. \A c \in Handlers : Len(written[c]) <= printed'
    <3>. SUFFICES ASSUME NEW c \in Handlers  PROVE Len(written[c]) <= printed'
      OBVIOUS
    <3>1. Len(written[c]) \in Nat /\ Len(written[c]) <= printed
      BY LenProperties DEF TypeOK, OutputInv
    <3>. QED  BY <1>1, <1>2, <3>1
  <2>. QED  BY <1>1, <2>1, <2>2, <2>3 DEF OutputInv
<1>5. Aside
  BY <1>1 DEF Aside
<1>. QED  BY <1>3, <1>4, <1>5, AsideSInv

LEMMA TerminalSInv ==
  ASSUME SInv, IInv',
         \/ TerminalStep \/ OutputRead \/ ShellExits \/ TerminalKilled
  PROVE  SInv'
<1>. USE DEF SInv
<1>1. PipeOpen /\ (shell # "none" \/ writer # "reading" \/ toTerm # <<>>)
        => \E h \in Handlers : pc[h] \in Relaying
  BY DEF OutputInv
<1>2. CASE RegisterTerminal
  <2>1. Aside /\ printed' = printed /\ UNCHANGED <<toServer, toTerm, shell, writer>>
    BY <1>2 DEF RegisterTerminal, Aside, clients, conns, pipe
  <2>2. TypeOK'
    BY <1>2 DEF RegisterTerminal, TypeOK, clients, conns, pipe
  <2>. QED  BY <2>1, <2>2, AsideOutput, AsideSInv DEF OutputInv
<1>3. CASE ReadInit \/ InputThread
  <2>1. /\ Aside /\ printed' = printed /\ UNCHANGED <<toServer, writer>>
        /\ toTerm # <<>> /\ toTerm' = Tail(toTerm) /\ pipeTerm' = pipeTerm
    BY <1>3 DEF ReadInit, InputThread, Aside, clients, conns, registry
  <2>2. TypeOK'
    <3>1. toTerm' \in Seq({"init", "key"})
      BY <2>1, HeadTailProperties DEF TypeOK
    <3>. QED  BY <1>3, <2>1, <3>1 DEF ReadInit, InputThread, TypeOK, clients, conns, registry
  <2>3. ~PipeOpen' \/ \E h \in Handlers : pc[h] \in Relaying
    BY <1>1, <2>1 DEF PipeOpen, Aside
  <2>. QED  BY <2>1, <2>2, <2>3, AsideOutput, AsideSInv DEF OutputInv
<1>4. CASE OutputRead \/ OutputEnds \/ ShellExits
  <2>1. /\ Aside /\ printed' = printed /\ UNCHANGED <<toServer, toTerm, known, reader>>
        /\ shell # "none" /\ pipeTerm' = pipeTerm
        /\ writer' = "writing" => printed < MaxOutputs
    BY <1>4 DEF OutputRead, OutputEnds, ShellExits, Aside, clients, conns, registry, pipe, OutputInv
  <2>2. TypeOK'
    BY <1>4, <2>1 DEF OutputRead, OutputEnds, ShellExits, TypeOK, Aside
  <2>3. ~PipeOpen' \/ \E h \in Handlers : pc[h] \in Relaying
    BY <1>1, <2>1 DEF PipeOpen, Aside
  <2>. QED  BY <2>1, <2>2, <2>3, AsideOutput, AsideSInv DEF OutputInv
<1>5. CASE TerminalEnds \/ TerminalKilled
  <2>1. /\ Aside /\ printed' = printed /\ UNCHANGED <<toServer, known>>
        /\ ~PipeOpen' /\ writer' = "done" /\ toTerm' = <<>> /\ pipeTerm' = FALSE
    BY <1>5 DEF TerminalEnds, TerminalKilled, Aside, clients, conns, registry, terminal, PipeOpen
  <2>2. /\ shell' \in {"none", "running", "exited"}
        /\ reader' \in {"start", "init", "reading", "done"}
    BY <1>5 DEF TerminalEnds, TerminalKilled, terminal, TypeOK
  <2>3. TypeOK'
    BY <2>1, <2>2, EmptySeq DEF Aside, TypeOK
  <2>. QED  BY <2>1, <2>3, AsideOutput, AsideSInv
<1>6. CASE OutputWrite
  BY <1>6, OutputWriteSInv
<1>. QED  BY <1>2, <1>3, <1>4, <1>5, <1>6 DEF TerminalStep

LEMMA ClientSInv ==
  ASSUME NoTakeover, SInv, IInv', NEW r \in Runs,
         \/ ClientStep(r) \/ Lose(r) \/ Kill(r) \/ Type(r)
         \/ \E h \in Handlers : Start(r, h)
  PROVE  SInv'
<1>1. CASE NoticeClose(r)
  BY <1>1, DropSInv DEF NoticeClose, SInv, TypeOK
<1>2. CASE Lose(r)
  <2>1. losses' \in 0..MaxLosses
    <3>1. MaxLosses \in Nat /\ losses \in 0..MaxLosses
      BY BoundsAssumption DEF SInv, TypeOK
    <3>. QED  BY <1>2, <3>1 DEF Lose
  <2>. QED  BY <1>2, <2>1, DropSInv DEF Lose
<1>3. ASSUME NEW h \in Handlers, Start(r, h) \/ Poll(r, h)  PROVE SInv'
  <2>1. Dials(r, h)
    BY <1>3 DEF Start, Poll, Dials, NoTakeover, SInv, TypeOK
  <2>. QED  BY <2>1, DialSInv
<1>. QED
  BY <1>1, <1>2, <1>3, WelcomeSInv, ReceiveSInv, KillSInv, TypeSInv DEF ClientStep

LEMMA HandlerSInv ==
  ASSUME SInv, IInv', NEW h \in Handlers, HandlerStep(h)
  PROVE  SInv'
<1>1. CASE \/ AnswerUnknown(h) \/ RequestFails(h) \/ RecoverFails(h) \/ InitialFails(h)
           \/ LookupTerminal(h) /\ ~known
           \/ RelayLost(h) \/ RelayBreak(h) \/ ClosePipe(h) \/ UnregisterTerminal(h)
           \/ Hangup(h)
  BY <1>1, QuitsSInv
<1>2. CASE \/ LookupTerminal(h) /\ known
           \/ SendTermInit(h) \/ WriteInput(h) \/ RelayInput(h) \/ RelayOutput(h)
  BY <1>2, ProceedSInv
<1>3. CASE \/ AnswerReturning(h) \/ AnswerNew(h) \/ StoreConnection(h) \/ ReadInitial(h)
           \/ WriteOutput(h)
  BY <1>3, AnswerReturningSInv, AnswerNewSInv, StoreConnectionSInv, ReadInitialSInv,
     WriteOutputSInv
<1>4. ASSUME NEW r \in Runs, RecoverSucceeds(h, r)  PROVE SInv'
  BY <1>4, RecoverSInv
<1>. QED  BY <1>1, <1>2, <1>3, <1>4 DEF HandlerStep

LEMMA StutterSInv ==
  ASSUME SInv, IInv', UNCHANGED vars
  PROVE  SInv'
<1>. USE DEF SInv, vars, clients, conns, registry, pipe, terminal
<1>1. TypeOK'
  BY DEF TypeOK
<1>. QED
  BY <1>1, FrontFrame, SockFrame, UseFrame, OutputFrame, PayloadFrame, OwnerFrame, LineFrame,
     OrderFrame

LEMMA StepSInv ==
  ASSUME NoTakeover, SInv, [Next]_vars
  PROVE  SInv'
<1>1. IInv'
  BY StepInv DEF SInv
<1>2. ASSUME NEW r \in Runs,
             \/ ClientStep(r) \/ Lose(r) \/ Kill(r) \/ Type(r)
             \/ \E h \in Handlers : Start(r, h)
      PROVE  SInv'
  BY <1>1, <1>2, ClientSInv
<1>3. ASSUME NEW h \in Handlers, HandlerStep(h)  PROVE SInv'
  BY <1>1, <1>3, HandlerSInv
<1>4. CASE TerminalStep \/ OutputRead \/ ShellExits \/ TerminalKilled
  BY <1>1, <1>4, TerminalSInv
<1>5. CASE UNCHANGED vars
  BY <1>1, <1>5, StutterSInv
<1>. QED  BY <1>2, <1>3, <1>4, <1>5 DEF Next

(* SInv, which knows where every packet of output is, is an invariant.     *)
THEOREM StreamInvariance == ASSUME NoTakeover  PROVE Spec => []SInv
<1>1. SInv /\ [Next]_vars => SInv'
  BY StepSInv
<1>. QED  BY <1>1, InitSInv, PTL DEF Spec

(* Every variable of a session keeps its type.                             *)
THEOREM TypeInvariance == ASSUME NoTakeover  PROVE Spec => []TypeOK
<1>1. SInv => TypeOK
  BY DEF SInv
<1>2. Spec => []SInv
  BY StreamInvariance
<1>. QED  BY <1>1, <1>2, PTL

(* What the terminal has written to the pipe is in the pipe, in the        *)
(* relay's hands or in its connection's backup: once, and in order, if     *)
(* there are no takeovers.                                                 *)
THEOREM OutputKept == ASSUME NoTakeover  PROVE Spec => []OutputIsKept
<1>1. SInv => OutputIsKept
  BY DEF SInv, OutputInv
<1>2. Spec => []SInv
  BY StreamInvariance
<1>. QED  BY <1>1, <1>2, PTL

(* A client reads what the shell has printed from the first packet on,     *)
(* without a gap and without a repetition, over any number of connections, *)
(* if there are no takeovers.                                              *)
THEOREM OutputOrdered == ASSUME NoTakeover  PROVE Spec => []OutputInOrder
<1>1. SInv => OutputInOrder
  BY DEF SInv
<1>2. Spec => []SInv
  BY StreamInvariance
<1>. QED  BY <1>1, <1>2, PTL

-----------------------------------------------------------------------------
(* The refinement of DurableSession: what the client processes, the        *)
(* handlers and the terminal do to it.                                     *)
Refused == {r \in Runs : client[r] = "refused"}

LEMMA SameRefused ==
  ASSUME \A r \in Runs : client'[r] = "refused" <=> client[r] = "refused"
  PROVE  Refused' = Refused
  BY DEF Refused

LEMMA Invisible ==
  ASSUME UNCHANGED <<known, pipeTerm, pipeServer, printed, got>>, Refused' = Refused
  PROVE  UNCHANGED Durable!vars
  BY DEF Durable!vars, Refused

(* A process reads the next packet of the stream.                          *)
LEMMA ReceiveReads ==
  ASSUME SInv, NEW r \in Runs, Receive(r)
  PROVE  Durable!Read(r)
<1>. USE DEF SInv
<1>1. PICK g, l : g = got[r] /\ l = line[tcp[r]]
  OBVIOUS
<1>2. /\ tcp[r] \in Handlers /\ client[r] = "attached" /\ l # <<>>
      /\ got' = [got EXCEPT ![r] = Append(got[r], Head(l))]
      /\ UNCHANGED <<client, known, pipeTerm, pipeServer, printed>>
  BY <1>1 DEF Receive, TypeOK, registry, pipe, terminal
<1>3. g \in Seq(1..MaxOutputs) /\ l \in Seq(1..MaxOutputs) /\ printed \in Int
  BY <1>1, <1>2 DEF TypeOK
<1>4. /\ \A k \in 1..Len(l) : l[k] = Len(g) + k
      /\ Len(g) + Len(l) <= printed
  BY <1>1, <1>2 DEF LineInv, LineAt
<1>5. /\ Len(g) \in Nat /\ Len(l) \in Nat /\ Len(l) >= 1 /\ Head(l) = l[1]
  BY <1>2, <1>3, HeadTailFacts, LenProperties
<1>6. Head(l) = Len(g) + 1 /\ Len(g) < printed
  <2>1. 1 \in 1..Len(l)
    BY <1>5
  <2>. QED  BY <1>3, <1>4, <1>5, <2>1
<1>7. got' = [got EXCEPT ![r] = Append(got[r], Len(got[r]) + 1)]
  BY <1>1, <1>2, <1>6
<1>8. r \notin Refused /\ Refused' = Refused
  BY <1>2 DEF Refused
<1>. QED  BY <1>1, <1>2, <1>6, <1>7, <1>8 DEF Durable!Read, Refused

(* What processes do by themselves, or suffer, is otherwise invisible.     *)
LEMMA ClientRefines ==
  ASSUME SInv, NEW r \in Runs,
         \/ ClientStep(r) \/ Lose(r) \/ Kill(r) \/ Type(r)
         \/ \E h \in Handlers : Start(r, h)
  PROVE  Durable!Read(r) \/ UNCHANGED Durable!vars
<1>. USE DEF SInv, TypeOK, IInv, PlaceInv, ClientPlaces, Gone, registry, pipe, terminal
<1>1. CASE Receive(r)
  BY <1>1, ReceiveReads
<1>2. CASE NoticeClose(r) \/ Lose(r)
  <2>1. /\ client[r] \in {"asked", "hello", "attached", "polled"}
        /\ client' = [client EXCEPT ![r] = IF @ = "asked" THEN "failed" ELSE "polling"]
        /\ UNCHANGED <<known, pipeTerm, pipeServer, printed, got>>
    BY <1>2 DEF NoticeClose, Lose, Drop
  <2>. QED  BY <2>1, SameRefused, Invisible
<1>3. CASE Kill(r)
  <2>1. /\ client[r] # "refused" /\ client' = [client EXCEPT ![r] = "killed"]
        /\ UNCHANGED <<known, pipeTerm, pipeServer, printed, got>>
    BY <1>3 DEF Kill
  <2>. QED  BY <2>1, SameRefused, Invisible
<1>4. CASE Welcome(r) \/ Type(r)
  <2>1. /\ \/ client' = client
           \/ client[r] = "hello" /\ client' = [client EXCEPT ![r] = "attached"]
        /\ UNCHANGED <<known, pipeTerm, pipeServer, printed, got>>
    BY <1>4 DEF Welcome, Type
  <2>. QED  BY <2>1, SameRefused, Invisible
<1>5. ASSUME NEW h \in Handlers, Start(r, h) \/ Poll(r, h)
      PROVE  UNCHANGED Durable!vars
  <2>1. /\ \/ client[r] = "off" /\ client' = [client EXCEPT ![r] = "asked"]
           \/ client[r] = "polling" /\ client' = [client EXCEPT ![r] = "polled"]
        /\ UNCHANGED <<known, pipeTerm, pipeServer, printed, got>>
    BY <1>5 DEF Start, Poll, Dial
  <2>. QED  BY <2>1, SameRefused, Invisible
<1>. QED  BY <1>1, <1>2, <1>3, <1>4, <1>5 DEF ClientStep

(* Only a process that polls is told that there is no session, and then    *)
(* there is none any more.                                                 *)
LEMMA AnswerUnknownRefuses ==
  ASSUME SInv, IInv', NEW h \in Handlers, AnswerUnknown(h)
  PROVE  (\E r \in Runs : Durable!Refuse(r)) \/ UNCHANGED Durable!vars
<1>. USE DEF SInv, TypeOK
<1>1. /\ ~known /\ pc[h] = "answer"
      /\ UNCHANGED <<known, pipeTerm, pipeServer, printed, got>>
      /\ \A r \in Runs :
           client'[r] = IF r \in At(h)
                        THEN [asked |-> "failed", polled |-> "refused"][client[r]]
                        ELSE client[r]
  BY DEF AnswerUnknown, TurnAway, clients, registry, pipe, terminal
<1>2. ASSUME NEW r \in Runs, r \in At(h)
      PROVE  client[r] \in {"asked", "polled"} /\ \A q \in Runs : q \in At(h) => q = r
  <2>1. tcp[r] = h /\ h # None
    BY <1>2, NoneIsNoHandler DEF At
  <2>2. client[r] \in {"asked", "polled"}
    BY <1>1, <2>1 DEF IInv, PlaceInv
  <2>3. ASSUME NEW q \in Runs, q \in At(h)  PROVE q = r
    BY <2>1, <2>3, SocketAlone DEF At
  <2>. QED  BY <2>2, <2>3
<1>3. ASSUME NEW r \in Runs, r \in At(h), client[r] = "polled"
      PROVE  Durable!Refuse(r)
  <2>1. client'[r] = "refused"
    BY <1>1, <1>3
  <2>2. ~pipeTerm
    BY <1>1, <2>1 DEF IInv, RefusedAfterTheEnd
  <2>3. ASSUME NEW q \in Runs
        PROVE  client'[q] = "refused" <=> client[q] = "refused" \/ q = r
    <3>1. CASE q \in At(h)
      BY <1>2, <1>3, <2>1, <3>1
    <3>2. CASE q \notin At(h)
      BY <1>1, <1>3, <3>2
    <3>. QED  BY <3>1, <3>2
  <2>4. Refused' = Refused \cup {r}
    BY <2>3 DEF Refused
  <2>. QED  BY <1>1, <2>2, <2>4 DEF Durable!Refuse, Refused
<1>4. CASE \A r \in Runs : r \in At(h) => client[r] # "polled"
  <2>1. ASSUME NEW r \in Runs  PROVE client'[r] = "refused" <=> client[r] = "refused"
    <3>1. CASE r \in At(h)
      <4>1. client[r] = "asked"
        BY <1>2, <1>4, <3>1
      <4>2. client'[r] = [asked |-> "failed", polled |-> "refused"]["asked"]
        BY <1>1, <3>1, <4>1, Zenon
      <4>. QED  BY <4>1, <4>2
    <3>2. CASE r \notin At(h)
      BY <1>1, <3>2
    <3>. QED  BY <3>1, <3>2
  <2>2. Refused' = Refused
    BY <2>1, SameRefused
  <2>. QED  BY <1>1, <2>2, Invisible
<1>. QED  BY <1>3, <1>4

(* The request handlers and the relay change nothing before the end.       *)
LEMMA HandlerRefines ==
  ASSUME SInv, IInv', NEW h \in Handlers, HandlerStep(h)
  PROVE  Durable!Next \/ UNCHANGED Durable!vars
<1>. USE DEF SInv, TypeOK, clients, registry, pipe, terminal
<1>1. CASE AnswerUnknown(h)
  BY <1>1, AnswerUnknownRefuses DEF Durable!Next
<1>2. CASE AnswerNew(h)
  <2>1. /\ \A r \in Runs : r \in At(h) => client[r] \in {"asked", "polled"}
        /\ \A r \in Runs : \/ client'[r] = client[r]
                           \/ r \in At(h) /\ client'[r] \in {"hello", "polling"}
        /\ UNCHANGED <<known, pipeTerm, pipeServer, printed, got>>
    BY <1>2 DEF AnswerNew, IInv, PlaceInv, At
  <2>. QED  BY <2>1, SameRefused, Invisible
<1>3. CASE RecoverFails(h)
  <2>1. pc[h] = "recover" /\ UNCHANGED <<known, pipeTerm, pipeServer, printed, got>>
    BY <1>3 DEF RecoverFails
  <2>2. \A r \in Runs :
          client'[r] = IF r \in At(h)
                       THEN [asked |-> "failed", polled |-> "polling"][client[r]]
                       ELSE client[r]
    BY <1>3 DEF RecoverFails, TurnAway
  <2>3. \A r \in Runs : r \in At(h) => client[r] \in {"asked", "polled"}
    BY <2>1 DEF IInv, PlaceInv, At
  <2>4. ASSUME NEW r \in Runs  PROVE client'[r] = "refused" <=> client[r] = "refused"
    <3>1. CASE r \in At(h)
      <4>1. client[r] \in {"asked", "polled"} /\ client'[r] \in {"failed", "polling"}
        BY <2>2, <2>3, <3>1
      <4>. QED  BY <4>1
    <3>2. CASE r \notin At(h)
      BY <2>2, <3>2
    <3>. QED  BY <3>1, <3>2
  <2>. QED  BY <2>1, <2>4, SameRefused, Invisible
<1>4. ASSUME NEW r \in Runs, RecoverSucceeds(h, r)  PROVE UNCHANGED Durable!vars
  <2>1. /\ tcp[r] = h /\ pc[h] = "recover"
        /\ client' = [client EXCEPT ![r] = IF r \in leaving THEN "failed" ELSE "attached"]
        /\ UNCHANGED <<known, pipeTerm, pipeServer, printed, got>>
    BY <1>4 DEF RecoverSucceeds, At
  <2>2. client[r] # "refused"
    BY <2>1 DEF IInv, PlaceInv
  <2>. QED  BY <2>1, <2>2, SameRefused, Invisible
<1>5. CASE ClosePipe(h)
  <2>1. /\ ~pipeTerm /\ pipeServer' = FALSE
        /\ UNCHANGED <<client, known, pipeTerm, printed, got>>
    BY <1>5 DEF ClosePipe, IInv, EndInv
  <2>. QED  BY <2>1 DEF Durable!Next, Durable!HangUp, Durable!vars
<1>6. CASE UnregisterTerminal(h)
  <2>1. /\ ~pipeTerm /\ ~pipeServer /\ known' = FALSE
        /\ UNCHANGED <<client, pipeTerm, pipeServer, printed, got>>
    BY <1>6 DEF UnregisterTerminal, IInv, EndInv
  <2>. QED  BY <2>1 DEF Durable!Next, Durable!Erase, Durable!vars
<1>7. CASE \/ AnswerReturning(h) \/ RequestFails(h) \/ StoreConnection(h)
           \/ ReadInitial(h) \/ InitialFails(h) \/ LookupTerminal(h)
  <2>1. UNCHANGED <<client, known, pipeTerm, pipeServer, printed, got>>
    BY <1>7 DEF AnswerReturning, RequestFails, StoreConnection, ReadInitial, InitialFails,
       LookupTerminal
  <2>. QED  BY <2>1, SameRefused, Invisible
<1>8. CASE \/ SendTermInit(h) \/ WriteInput(h) \/ RelayInput(h) \/ RelayLost(h)
           \/ RelayOutput(h) \/ WriteOutput(h) \/ RelayBreak(h) \/ Hangup(h)
  <2>1. UNCHANGED <<client, known, pipeTerm, pipeServer, printed, got>>
    BY <1>8 DEF SendTermInit, WriteInput, WritePipe, RelayInput, RelayLost, RelayOutput,
       WriteOutput, RelayBreak, Hangup
  <2>. QED  BY <2>1, SameRefused, Invisible
<1>. QED  BY <1>1, <1>2, <1>3, <1>4, <1>5, <1>6, <1>7, <1>8 DEF HandlerStep

(* The terminal registers once, prints while it lives, and ends once.      *)
LEMMA TerminalRefines ==
  ASSUME SInv, \/ TerminalStep \/ OutputRead \/ ShellExits \/ TerminalKilled
  PROVE  Durable!Next \/ UNCHANGED Durable!vars
<1>. USE DEF SInv, clients, registry, pipe, terminal
<1>1. CASE RegisterTerminal
  <2>1. /\ ~known /\ pipeTerm /\ known' = TRUE
        /\ UNCHANGED <<client, pipeTerm, pipeServer, printed, got>>
    BY <1>1 DEF RegisterTerminal, IInv, StartInv
  <2>. QED  BY <2>1 DEF Durable!Next, Durable!Register
<1>2. CASE OutputWrite
  <2>1. /\ PipeOpen /\ writer = "writing" /\ printed' = printed + 1
        /\ UNCHANGED <<client, known, pipeTerm, pipeServer, got>>
    BY <1>2 DEF OutputWrite
  <2>2. PICK h \in Handlers : pc[h] \in Relaying
    BY <2>1 DEF OutputInv
  <2>3. known
    BY <2>1, <2>2 DEF PipeOpen, Relaying, IInv, StartInv
  <2>. QED  BY <2>1, <2>3 DEF Durable!Next, Durable!Output, PipeOpen
<1>3. CASE TerminalEnds \/ TerminalKilled
  <2>1. /\ pipeTerm /\ pipeTerm' = FALSE
        /\ UNCHANGED <<client, known, pipeServer, printed, got>>
    BY <1>3 DEF TerminalEnds, TerminalKilled
  <2>. QED  BY <2>1 DEF Durable!Next, Durable!End
<1>4. CASE ReadInit \/ InputThread \/ OutputEnds \/ OutputRead \/ ShellExits
  <2>1. UNCHANGED <<client, known, pipeTerm, pipeServer, printed, got>>
    BY <1>4 DEF ReadInit, InputThread, OutputEnds, OutputRead, ShellExits
  <2>. QED  BY <2>1, SameRefused, Invisible
<1>. QED  BY <1>1, <1>2, <1>3, <1>4 DEF TerminalStep

LEMMA InitRefines == Init => Durable!Init
<1>. SUFFICES ASSUME Init  PROVE Durable!Init
  OBVIOUS
<1>1. /\ known = FALSE /\ pipeTerm = TRUE /\ pipeServer = TRUE /\ printed = 0
      /\ got = [r \in Runs |-> <<>>] /\ Refused = {}
  BY DEF Init, Refused
<1>. QED  BY <1>1 DEF Durable!Init, Refused

LEMMA StepRefines ==
  ASSUME SInv, [Next]_vars
  PROVE  Durable!Next \/ UNCHANGED Durable!vars
<1>1. IInv'
  BY StepInv DEF SInv
<1>2. ASSUME NEW r \in Runs,
             \/ ClientStep(r) \/ Lose(r) \/ Kill(r) \/ Type(r)
             \/ \E h \in Handlers : Start(r, h)
      PROVE  Durable!Next \/ UNCHANGED Durable!vars
  BY <1>2, ClientRefines DEF Durable!Next
<1>3. ASSUME NEW h \in Handlers, HandlerStep(h)
      PROVE  Durable!Next \/ UNCHANGED Durable!vars
  BY <1>1, <1>3, HandlerRefines
<1>4. CASE TerminalStep \/ OutputRead \/ ShellExits \/ TerminalKilled
  BY <1>4, TerminalRefines
<1>5. CASE UNCHANGED vars
  <2>1. UNCHANGED <<client, known, pipeTerm, pipeServer, printed, got>>
    BY <1>5 DEF vars, clients, registry, pipe, terminal
  <2>. QED  BY <2>1, SameRefused, Invisible
<1>. QED  BY <1>2, <1>3, <1>4, <1>5 DEF Next

(* Session implements DurableSession: no client, however it leaves or      *)
(* comes back, makes the server close the pipe or erase the session, is    *)
(* refused before the end, or reads anything but the stream in order, if   *)
(* there are no takeovers.                                                 *)
THEOREM Durability == ASSUME NoTakeover  PROVE Spec => IsDurable
<1>1. SInv /\ [Next]_vars => [Durable!Next]_(Durable!vars)
  BY StepRefines
<1>2. Spec => []SInv
  BY StreamInvariance
<1>. QED  BY <1>1, <1>2, InitRefines, PTL DEF Spec, IsDurable, Durable!Spec
===============================================================================
