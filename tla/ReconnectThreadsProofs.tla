------------------------ MODULE ReconnectThreadsProofs ------------------------
(***************************************************************************)
(* IInv of ReconnectThreads is inductive, for any set of writers, in both  *)
(* modes, whether or not connections may go silent.                        *)
(***************************************************************************)
EXTENDS ReconnectThreads, TLAPS

LEMMA ReaderIsThread == Reader \in Threads /\ Keepalive \in Threads
  BY DEF Threads

LEMMA Owners == NoOne \notin Threads /\ Poller \notin Threads /\ Poller # NoOne
  BY ThreadsAssumption

LEMMA InitInv == Init => IInv
<1>. SUFFICES ASSUME Init  PROVE IInv
  OBVIOUS
<1>. USE ReaderIsThread, Owners DEF Init
<1>1. TypeOK
  <2>1. losses \in 0 .. MaxLosses
    BY LossesAssumption
  <2>. QED  BY <2>1 DEF TypeOK, Places
<1>2. MutexInv
  BY DEF MutexInv
<1>3. ConnInv
  BY DEF ConnInv
<1>4. HandleInv /\ ReadsAnOpenSocket /\ SomebodyReconnects
  BY DEF HandleInv, ReadsAnOpenSocket, SomebodyReconnects
<1>. QED  BY <1>1, <1>2, <1>3, <1>4 DEF IInv

(* Terminate, from wherever it comes.                                      *)
LEMMA TerminateInv == IInv /\ Terminate => IInv'
  BY ReaderIsThread, Owners
     DEF Terminate, IInv, TypeOK, MutexInv, ConnInv, HandleInv, ReadsAnOpenSocket,
         SomebodyReconnects, Places

LEMMA StepInv ==
  ASSUME IInv, [Next]_vars
  PROVE  IInv'
<1>. USE ReaderIsThread, Owners
     DEF IInv, TypeOK, MutexInv, ConnInv, HandleInv, ReadsAnOpenSocket,
         SomebodyReconnects, Places, Goto
<1>1. CASE Environment
  <2>1. CASE Lose
    BY <2>1, LossesAssumption DEF Lose
  <2>2. CASE GoSilent
    BY <2>2 DEF GoSilent
  <2>3. CASE Resume
    BY <2>3 DEF Resume
  <2>4. CASE Age
    BY <2>4 DEF Age
  <2>. QED  BY <1>1, <2>1, <2>2, <2>3, <2>4 DEF Environment
<1>2. CASE ReaderStep
  <2>1. CASE EnterRead
    BY <2>1 DEF EnterRead
  <2>2. CASE LockReader
    BY <2>2 DEF LockReader
  <2>3. CASE Receive
    BY <2>3 DEF Receive
  <2>4. CASE ReadFails
    BY <2>4 DEF ReadFails
  <2>. QED  BY <1>2, <2>1, <2>2, <2>3, <2>4 DEF ReaderStep
<1>3. CASE KeepaliveStep
  BY <1>3 DEF KeepaliveStep, Ping, CheckAge
<1>4. CASE PollerStep
  <2>1. CASE TestSocket
    BY <2>1 DEF TestSocket
  <2>2. CASE LockToPoll
    BY <2>2 DEF LockToPoll
  <2>3. CASE PollFails
    BY <2>3 DEF PollFails
  <2>4. CASE PollRecovers
    BY <2>4 DEF PollRecovers
  <2>5. CASE PollRefused
    BY <2>5 DEF PollRefused
  <2>. QED  BY <1>4, <2>1, <2>2, <2>3, <2>4, <2>5 DEF PollerStep
<1>5. ASSUME NEW t \in Threads, WriteFails(t)
      PROVE  IInv'
  BY <1>5 DEF WriteFails
<1>6. ASSUME NEW t \in Threads, WriteBlocks(t)
      PROVE  IInv'
  BY <1>6 DEF WriteBlocks
<1>7. ASSUME NEW t \in Threads, SendEnds(t)
      PROVE  IInv'
  BY <1>7 DEF SendEnds, Return, EndOfWrite
<1>8. ASSUME NEW t \in Threads, WaitReconnect(t)
      PROVE  IInv'
  BY <1>8, TerminateInv DEF WaitReconnect
<1>9. ASSUME NEW t \in Threads, Join(t)
      PROVE  IInv'
  BY <1>9 DEF Join
<1>10. ASSUME NEW t \in Threads, Raced(t)
       PROVE  IInv'
  BY <1>10, TerminateInv DEF Raced
<1>11. ASSUME NEW t \in Threads, ResetHandle(t)
       PROVE  IInv'
  BY <1>11, TerminateInv DEF ResetHandle
<1>12. ASSUME NEW t \in Threads, LockToClose(t)
       PROVE  IInv'
  BY <1>12 DEF LockToClose
<1>13. ASSUME NEW t \in Threads, CloseSocket(t)
       PROVE  IInv'
  BY <1>13 DEF CloseSocket
<1>14. ASSUME NEW t \in Threads, StartReconnect(t)
       PROVE  IInv'
  <2>1. CASE Terminate
    BY <2>1, TerminateInv
  <2>2. CASE Return(t) /\ (shuttingDown \/ ~ReconnectEnabled)
             /\ UNCHANGED <<poller, handle, conn, shuttingDown, losses>>
    BY <1>14, <2>2 DEF StartReconnect, Return, EndOfWrite
  <2>3. CASE /\ handle # "joinable" /\ handle' = "joinable"
             /\ poller' = "test" /\ Return(t)
             /\ UNCHANGED <<conn, shuttingDown, losses>>
    <3>1. TypeOK'
      BY <1>14, <2>3 DEF Return, EndOfWrite
    <3>2. MutexInv'
      BY <1>14, <2>3 DEF StartReconnect, Return, EndOfWrite
    <3>3. ConnInv'
      BY <1>14, <2>3 DEF StartReconnect, Return, EndOfWrite
    <3>4. HandleInv' /\ ReadsAnOpenSocket' /\ SomebodyReconnects'
      BY <1>14, <2>3 DEF Return, EndOfWrite
    <3>. QED  BY <3>1, <3>2, <3>3, <3>4
  <2>. QED  BY <1>14, <2>1, <2>2, <2>3 DEF StartReconnect
<1>15. CASE UNCHANGED vars
  BY <1>15 DEF vars
<1>. QED
  BY <1>1, <1>2, <1>3, <1>4, <1>5, <1>6, <1>7, <1>8, <1>9, <1>10, <1>11,
     <1>12, <1>13, <1>14, <1>15 DEF Next, ThreadStep, Closing

-----------------------------------------------------------------------------
(* The inductive invariant holds in every reachable state.                 *)
THEOREM Invariance == Spec => []IInv
<1>1. Init => IInv
  BY InitInv
<1>2. IInv /\ [Next]_vars => IInv'
  BY StepInv
<1>. QED  BY <1>1, <1>2, PTL DEF Spec

(* A failed write that waits for the reconnect thread with mutex_ locked   *)
(* does not deadlock with it.                                              *)
THEOREM SafeJoin == Spec => []JoinIsSafe
<1>1. IInv => JoinIsSafe
  <2>. SUFFICES ASSUME IInv, NEW t \in Threads, pc[t] = "join", mutex = t
                PROVE  ~NeedsMutex
    BY DEF JoinIsSafe
  <2>1. writing = t
    BY DEF IInv, MutexInv
  <2>2. conn # "none"
    BY <2>1 DEF IInv, ConnInv
  <2>. QED  BY <2>2 DEF IInv, ConnInv, NeedsMutex
<1>. QED  BY <1>1, Invariance, PTL

(* The socket is not closed while recv uses it.                            *)
THEOREM OpenWhileRead == Spec => []ReadsAnOpenSocket
<1>1. IInv => ReadsAnOpenSocket
  BY DEF IInv
<1>. QED  BY <1>1, Invariance, PTL

(* A client without a connection has a thread that gets it a new one.      *)
THEOREM NeverAbandoned == Spec => []SomebodyReconnects
<1>1. IInv => SomebodyReconnects
  BY DEF IInv
<1>. QED  BY <1>1, Invariance, PTL
===============================================================================
