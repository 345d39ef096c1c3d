--------------------------- MODULE ServerLifeProofs ---------------------------
(***************************************************************************)
(* IInv of ServerLife is inductive, for any set of terminals and any       *)
(* number of TCP connections.  Types come first; the rest relates the main *)
(* thread to one other thread at a time, and the steps that matter are     *)
(* those where the two race: ConnectToCancel, CreatePipe, CheckAgain and   *)
(* CallConnect.                                                            *)
(***************************************************************************)
EXTENDS ServerLife, TLAPS

LEMMA NonePending == 0 \in 0..MaxPending
  BY PendingAssumption

LEMMA InitInv == Init => IInv
<1>. SUFFICES ASSUME Init  PROVE IInv
  OBVIOUS
<1>. USE DEF Init
<1>1. MainType
  BY DEF MainType, Stages
<1>2. PipeType
  BY DEF PipeType, Workers
<1>3. TcpType
  BY NonePending DEF TcpType
<1>4. TerminalType
  BY DEF TerminalType
<1>5. InstanceInv /\ StopInv /\ ListenerInv /\ WorkerIsWoken
  BY DEF InstanceInv, StopInv, ListenerInv, WorkerIsWoken, Starting,
         NoThreads, Ended, Quiet
<1>. QED  BY <1>1, <1>2, <1>3, <1>4, <1>5 DEF IInv, TypeOK

(* Types, thread by thread.                                                *)
LEMMA StartType ==
  ASSUME TypeOK, StartStep
  PROVE  TypeOK'
<1>. USE DEF TypeOK, StartStep, StartFails, pipe, tcp, terminals, StartPipe,
             CreateJob, InitSodium, StartListener
<1>1. MainType'
  BY DEF MainType, Stages
<1>2. PipeType'
  BY DEF PipeType, Workers
<1>3. TcpType'
  BY DEF TcpType
<1>4. TerminalType'
  BY DEF TerminalType
<1>. QED  BY <1>1, <1>2, <1>3, <1>4

LEMMA StopType ==
  ASSUME TypeOK, StopStep \/ RequestStop
  PROVE  TypeOK'
<1>. USE DEF TypeOK, StopStep, At, pipe, tcp, terminals, RequestStop,
             CloseListener, JoinAccept, ClearPipe, SetStopEvent,
             ConnectToCancel, JoinWorker, CloseJob, ReportStopped
<1>1. MainType'
  BY DEF MainType, Stages
<1>2. PipeType'
  BY DEF PipeType
<1>3. TcpType'
  BY NonePending DEF TcpType
<1>4. TerminalType'
  BY DEF TerminalType
<1>. QED  BY <1>1, <1>2, <1>3, <1>4

LEMMA WorkerType ==
  ASSUME TypeOK, WorkerStep
  PROVE  TypeOK'
<1>. USE DEF TypeOK, WorkerStep, WorkerAt, main, tcp, terminals, CheckToStop,
             CreatePipe, CheckAgain, CallConnect, WakeUp, Register
<1>1. MainType'
  BY DEF MainType
<1>2. PipeType'
  BY DEF PipeType, Workers
<1>3. TcpType'
  BY DEF TcpType
<1>4. TerminalType'
  BY DEF TerminalType
<1>. QED  BY <1>1, <1>2, <1>3, <1>4

LEMMA TcpTypes ==
  ASSUME TypeOK, AcceptStep \/ ClientArrives \/ ClientResets
  PROVE  TypeOK'
<1>. USE DEF TypeOK, AcceptStep, main, pipe, terminals, PollListener, Accept,
             ClientArrives, ClientResets
<1>1. MainType'
  BY DEF MainType
<1>2. PipeType'
  BY DEF PipeType
<1>3. TcpType'
  BY PendingAssumption DEF TcpType
<1>4. TerminalType'
  BY DEF TerminalType
<1>. QED  BY <1>1, <1>2, <1>3, <1>4

LEMMA TerminalTypes ==
  ASSUME TypeOK, NEW t \in Terminals,
         \/ PrintId(t) \/ ConnectPipe(t) \/ SendUserInfo(t)
         \/ TerminalIsKilled(t)
  PROVE  TypeOK'
<1>. USE DEF TypeOK, PrintId, ConnectPipe, SendUserInfo, TerminalIsKilled, main,
             pipe, tcp
<1>1. MainType'
  BY DEF MainType
<1>2. PipeType'
  BY DEF PipeType
<1>3. TcpType'
  BY DEF TcpType
<1>4. TerminalType'
  BY DEF TerminalType
<1>. QED  BY <1>1, <1>2, <1>3, <1>4

Control == InstanceInv /\ StopInv /\ ListenerInv /\ WorkerIsWoken

(* The places of the threads.                                              *)
LEMMA StartControl ==
  ASSUME Control, StartStep
  PROVE  Control'
<1>. USE MarksAssumption
     DEF Control, InstanceInv, StopInv, ListenerInv, WorkerIsWoken,
         StartFails, pipe, tcp, terminals, Starting, NoThreads, Ended, Quiet
<1>1. CASE StartPipe
  BY <1>1 DEF StartPipe
<1>2. CASE CreateJob
  BY <1>2 DEF CreateJob
<1>3. CASE InitSodium
  BY <1>3 DEF InitSodium
<1>4. CASE StartListener
  BY <1>4 DEF StartListener
<1>. QED  BY <1>1, <1>2, <1>3, <1>4 DEF StartStep

LEMMA StopControl ==
  ASSUME Control, StopStep \/ RequestStop
  PROVE  Control'
<1>. USE MarksAssumption
     DEF Control, InstanceInv, StopInv, ListenerInv, WorkerIsWoken,
         At, pipe, tcp, terminals, Starting, NoThreads, Ended, Quiet
<1>1. CASE RequestStop
  BY <1>1 DEF RequestStop
<1>2. CASE CloseListener
  BY <1>2 DEF CloseListener
<1>3. CASE JoinAccept
  BY <1>3 DEF JoinAccept
<1>4. CASE ClearPipe
  BY <1>4 DEF ClearPipe
<1>5. CASE SetStopEvent
  BY <1>5 DEF SetStopEvent
<1>6. CASE ConnectToCancel
  BY <1>6 DEF ConnectToCancel
<1>7. CASE JoinWorker
  BY <1>7 DEF JoinWorker
<1>8. CASE CloseJob
  BY <1>8 DEF CloseJob
<1>9. CASE ReportStopped
  BY <1>9 DEF ReportStopped
<1>. QED  BY <1>1, <1>2, <1>3, <1>4, <1>5, <1>6, <1>7, <1>8, <1>9
          DEF StopStep

LEMMA WorkerControl ==
  ASSUME TypeOK, Control, WorkerStep
  PROVE  Control'
<1>. USE MarksAssumption
     DEF Control, InstanceInv, StopInv, ListenerInv, WorkerIsWoken,
         WorkerAt, main, tcp, terminals, Starting, NoThreads, Ended, Quiet
<1>1. CASE CheckToStop
  BY <1>1 DEF CheckToStop
<1>2. CASE CreatePipe
  BY <1>2 DEF CreatePipe
<1>3. CASE CheckAgain
  BY <1>3 DEF CheckAgain
<1>4. CASE CallConnect
  BY <1>4 DEF CallConnect, Live, Dead
<1>5. CASE WakeUp
  BY <1>5 DEF WakeUp
<1>6. CASE Register
  BY <1>6 DEF Register
<1>. QED  BY <1>1, <1>2, <1>3, <1>4, <1>5, <1>6
          DEF WorkerStep

LEMMA TcpControl ==
  ASSUME Control, AcceptStep \/ ClientArrives \/ ClientResets
  PROVE  Control'
<1>. USE MarksAssumption
     DEF Control, InstanceInv, StopInv, ListenerInv, WorkerIsWoken,
         main, pipe, terminals, Starting, NoThreads, Ended, Quiet
<1>1. CASE PollListener
  BY <1>1 DEF PollListener
<1>2. CASE Accept
  BY <1>2 DEF Accept
<1>3. CASE ClientArrives
  BY <1>3 DEF ClientArrives
<1>4. CASE ClientResets
  BY <1>4 DEF ClientResets
<1>. QED  BY <1>1, <1>2, <1>3, <1>4
          DEF AcceptStep

LEMMA TerminalControl ==
  ASSUME Control, NEW t \in Terminals,
         \/ PrintId(t) \/ ConnectPipe(t) \/ SendUserInfo(t)
         \/ TerminalIsKilled(t)
  PROVE  Control'
  BY MarksAssumption
     DEF Control, InstanceInv, StopInv, ListenerInv, WorkerIsWoken, PrintId,
         ConnectPipe, SendUserInfo, TerminalIsKilled, main, pipe, tcp

LEMMA StutterInv == IInv /\ UNCHANGED vars => IInv'
  BY DEF IInv, TypeOK, MainType, PipeType, TcpType, TerminalType, InstanceInv,
         StopInv, ListenerInv, WorkerIsWoken, vars, main, pipe, tcp, terminals

(* IInv is an invariant.                                                   *)
THEOREM Invariance == Spec => []IInv
<1>1. IInv /\ [Next]_vars => IInv'
  <2>. SUFFICES ASSUME TypeOK, Control, Next  PROVE TypeOK' /\ Control'
    BY StutterInv DEF IInv, Control
  <2>1. CASE StartStep
    BY <2>1, StartType, StartControl
  <2>2. CASE StopStep \/ RequestStop
    BY <2>2, StopType, StopControl
  <2>3. CASE WorkerStep
    BY <2>3, WorkerType, WorkerControl
  <2>4. CASE AcceptStep \/ ClientArrives \/ ClientResets
    BY <2>4, TcpTypes, TcpControl
  <2>5. ASSUME NEW t \in Terminals,
               \/ PrintId(t) \/ ConnectPipe(t) \/ SendUserInfo(t)
               \/ TerminalIsKilled(t)
        PROVE  TypeOK' /\ Control'
    BY <2>5, TerminalTypes, TerminalControl
  <2>. QED  BY <2>1, <2>2, <2>3, <2>4, <2>5 DEF Next, MainStep
<1>. QED  BY <1>1, InitInv, PTL DEF Spec

(* Once Stop waits for the worker, the worker is not in ConnectNamedPipe   *)
(* on an instance that nobody has opened.                                  *)
THEOREM Woken == Spec => []WorkerIsWoken
<1>1. IInv => WorkerIsWoken
  BY DEF IInv
<1>. QED  BY <1>1, Invariance, PTL

(* When the process is over, or has reported STOPPED, no thread, instance  *)
(* or listening socket of it is left, and no job object either, unless it  *)
(* is the report of a start that has failed, before the process is over.   *)
THEOREM Clean == Spec => []NothingIsLeft
<1>1. IInv => NothingIsLeft
  BY DEF IInv, InstanceInv, StopInv, ListenerInv, NothingIsLeft, NoThreads,
         Ended, Quiet
<1>. QED  BY <1>1, Invariance, PTL
===============================================================================
