----------------------------- MODULE ServerLife -----------------------------
(***************************************************************************)
(* The life of a server process: its start, its end, and the two threads   *)
(* in between, one that accepts TCP connections and one, the worker, that  *)
(* offers instances of the named pipe to terminals, one after the other.   *)
(*                                                                         *)
(* The worker is either in ConnectNamedPipe, where only a client of the    *)
(* pipe wakes it, or in ReadPacket, which repeats PeekNamedPipe until the  *)
(* pipe holds a packet; PeekNamedPipe fails on a pipe whose client is gone *)
(* and ReadAll takes that for "nothing yet".  Stop sets an event and opens *)
(* the pipe itself to wake the worker.  What a connection's handler does   *)
(* is the subject of Session.                                              *)
(***************************************************************************)
EXTENDS Naturals, FiniteSets

CONSTANTS
  Terminals,      \* terminal processes that are started while the server runs
  Free,           \* an instance of the pipe that has no client yet
  Canceller,      \* the connection NamedPipeServer::Stop makes
  NoInstance,     \* the worker has no instance
  MaxPending      \* bound: TCP connections that wait to be accepted

ASSUME MarksAssumption ==
  /\ Free \notin Terminals /\ Canceller \notin Terminals
  /\ NoInstance \notin Terminals
  /\ Free # Canceller /\ Free # NoInstance /\ Canceller # NoInstance
ASSUME PendingAssumption == MaxPending \in Nat

VARIABLES
  service,      \* run by the service manager, or from a console
  stage,        \* where the main thread is
  failed,       \* Server::Start has returned false
  status,       \* what the service manager has been told
  job,          \* the job object is open
  stopEvent,    \* stop_event_ is set
  pipeRunning,  \* NamedPipeServer::running_
  worker,       \* where the pipe server's worker is
  instance,     \* who is at the other end of the worker's instance
  tcpRunning,   \* TcpListener::running_
  listening,    \* listen_socket_ is open
  accepter,     \* where the accept thread is
  pending,      \* TCP connections that wait to be accepted
  term,         \* per terminal: where it is
  told,         \* terminals that have written their TERMINAL_USER_INFO
  registry      \* terminals in the registry

main == <<service, stage, failed, status, job>>
pipe == <<stopEvent, pipeRunning, worker, instance>>
tcp == <<tcpRunning, listening, accepter, pending>>
terminals == <<term, told, registry>>
vars == <<main, pipe, tcp, terminals>>

Starting == {"pipe", "job", "sodium", "listen"}
Stages == {"pipe", "job", "sodium", "listen", "up", "closeListener",
           "joinAccept", "clearPipe", "setEvent", "cancel", "joinWorker",
           "closeJob", "report", "over"}
Stopping == {"closeListener", "joinAccept", "clearPipe", "setEvent", "cancel",
             "joinWorker", "closeJob", "report"}
Workers == {"none", "check", "create", "recheck", "connect", "wait", "read",
            "ended"}

MainType ==
  /\ service \in BOOLEAN /\ failed \in BOOLEAN /\ job \in BOOLEAN
  /\ stage \in Stages
  /\ status \in {"none", "pending", "running", "stopped"}
PipeType ==
  /\ stopEvent \in BOOLEAN /\ pipeRunning \in BOOLEAN
  /\ worker \in Workers
  /\ instance \in Terminals \cup {Free, Canceller, NoInstance}
TcpType ==
  /\ tcpRunning \in BOOLEAN /\ listening \in BOOLEAN
  /\ accepter \in {"none", "poll", "accept", "ended"}
  /\ pending \in 0..MaxPending
TerminalType ==
  /\ term \in [Terminals -> {"off", "printed", "connected", "waiting",
                             "refused", "gone"}]
  /\ told \subseteq Terminals /\ registry \subseteq Terminals
TypeOK == MainType /\ PipeType /\ TcpType /\ TerminalType

Init ==
  /\ service \in BOOLEAN /\ stage = "pipe" /\ failed = FALSE
  /\ status = IF service THEN "pending" ELSE "none"
  /\ job = FALSE
  /\ stopEvent = FALSE /\ pipeRunning = FALSE
  /\ worker = "none" /\ instance = NoInstance
  /\ tcpRunning = FALSE /\ listening = FALSE
  /\ accepter = "none" /\ pending = 0
  /\ term = [t \in Terminals |-> "off"] /\ told = {} /\ registry = {}

-----------------------------------------------------------------------------
(* The main thread: Server::Start, then the wait for Ctrl+C or for the     *)
(* service manager, then Server::Stop.                                     *)

At(here, there) == stage = here /\ stage' = there
StartFails(next) == stage' = next /\ failed' = TRUE

(* NamedPipeServer::Start: no event, no worker. *)
StartPipe ==
  /\ stage = "pipe"
  /\ \/ stage' = "job" /\ worker' = "check" /\ pipeRunning' = TRUE
        /\ UNCHANGED failed
     \/ StartFails("report") /\ UNCHANGED <<worker, pipeRunning>>
  /\ UNCHANGED <<service, status, job, stopEvent, instance, tcp, terminals>>

CreateJob ==
  /\ stage = "job"
  /\ \/ stage' = "sodium" /\ job' = TRUE /\ UNCHANGED failed
     \/ StartFails("clearPipe") /\ UNCHANGED job
  /\ UNCHANGED <<service, status, pipe, tcp, terminals>>

InitSodium ==
  /\ stage = "sodium"
  /\ \/ stage' = "listen" /\ UNCHANGED failed
     \/ StartFails("clearPipe")
  /\ UNCHANGED <<service, status, job, pipe, tcp, terminals>>

StartListenerKeepsPipe ==
  /\ stage = "listen"
  /\ \/ /\ stage' = "up" /\ tcpRunning' = TRUE /\ listening' = TRUE
        /\ accepter' = "poll"
        /\ status' = IF service THEN "running" ELSE status
        /\ UNCHANGED <<failed, pending>>
     \/ StartFails("report") /\ UNCHANGED <<tcp, status>>
  /\ UNCHANGED <<service, job, pipe, terminals>>

(* TcpListener::Start fails when the port is taken. *)
StartListener ==
  /\ stage = "listen"
  /\ \/ /\ stage' = "up" /\ tcpRunning' = TRUE /\ listening' = TRUE
        /\ accepter' = "poll"
        /\ status' = IF service THEN "running" ELSE status
        /\ UNCHANGED <<failed, pending>>
     \/ StartFails("clearPipe") /\ UNCHANGED <<tcp, status>>
  /\ UNCHANGED <<service, job, pipe, terminals>>

(* Ctrl+C; the service manager sends SERVICE_CONTROL_STOP to a service     *)
(* that is running, and no other.                                          *)
RequestStop ==
  /\ At("up", "closeListener") /\ (service => status = "running")
  /\ UNCHANGED <<service, failed, status, job, pipe, tcp, terminals>>

CloseListener ==
  /\ At("closeListener", "joinAccept")
  /\ tcpRunning' = FALSE /\ listening' = FALSE /\ pending' = 0
  /\ UNCHANGED <<service, failed, status, job, accepter, pipe, terminals>>

JoinAccept ==
  /\ At("joinAccept", "clearPipe") /\ accepter = "ended"
  /\ UNCHANGED <<service, failed, status, job, pipe, tcp, terminals>>

ClearPipe ==
  /\ At("clearPipe", "setEvent") /\ pipeRunning' = FALSE
  /\ UNCHANGED <<service, failed, status, job, stopEvent, worker, instance,
                 tcp, terminals>>

SetStopEvent ==
  /\ At("setEvent", "cancel") /\ stopEvent' = TRUE
  /\ UNCHANGED <<service, failed, status, job, pipeRunning, worker, instance,
                 tcp, terminals>>

(* CreateFile finds the worker's instance if nobody has connected to it,   *)
(* and the handle is closed at once; otherwise it fails.                   *)
ConnectToCancel ==
  /\ At("cancel", "joinWorker")
  /\ instance' = IF instance = Free THEN Canceller ELSE instance
  /\ UNCHANGED <<service, failed, status, job, stopEvent, pipeRunning, worker,
                 tcp, terminals>>

JoinWorker ==
  /\ stage = "joinWorker" /\ worker = "ended"
  /\ stage' = IF failed THEN "report" ELSE "closeJob"
  /\ UNCHANGED <<service, failed, status, job, pipe, tcp, terminals>>

(* Stop closes the job object, and then the service manager hears of it;   *)
(* when a start has failed it hears of that at once, and the job object is *)
(* left to the destructors, once RunAsService has returned.                *)
CloseJob ==
  /\ stage = "closeJob" /\ job' = FALSE
  /\ stage' = IF failed THEN "over" ELSE "report"
  /\ UNCHANGED <<service, failed, status, pipe, tcp, terminals>>

ReportStopped ==
  /\ stage = "report"
  /\ stage' = IF failed THEN "closeJob" ELSE "over"
  /\ status' = IF service THEN "stopped" ELSE status
  /\ UNCHANGED <<service, failed, job, pipe, tcp, terminals>>

-----------------------------------------------------------------------------
(* The pipe server's worker.                                               *)

Dead(c) == c = Canceller \/ (c \in Terminals /\ term[c] = "gone")
Live(c) == c \in Terminals /\ term[c] # "gone"
WorkerAt(here, there) == worker = here /\ worker' = there

CheckToStop ==
  /\ worker = "check"
  /\ worker' = IF ~pipeRunning \/ stopEvent THEN "ended" ELSE "create"
  /\ UNCHANGED <<main, stopEvent, pipeRunning, instance, tcp, terminals>>

(* When CreateNamedPipe fails the worker ends, and the server stays up.    *)
CreatePipe ==
  /\ \/ WorkerAt("create", "recheck") /\ instance' = Free
     \/ WorkerAt("create", "ended") /\ UNCHANGED instance
  /\ UNCHANGED <<main, stopEvent, pipeRunning, tcp, terminals>>

CheckNoMore ==
  /\ WorkerAt("recheck", "connect") /\ UNCHANGED instance
  /\ UNCHANGED <<main, stopEvent, pipeRunning, tcp, terminals>>

(* The second look at stop_event_, once the instance can be connected to.  *)
CheckAgain ==
  /\ worker = "recheck"
  /\ IF stopEvent THEN worker' = "ended" /\ instance' = NoInstance
                  ELSE worker' = "connect" /\ UNCHANGED instance
  /\ UNCHANGED <<main, stopEvent, pipeRunning, tcp, terminals>>

CallConnectStrict ==
  /\ worker = "connect"
  /\ \/ instance = Free /\ worker' = "wait" /\ UNCHANGED instance
     \/ instance # Free /\ worker' = "check" /\ instance' = NoInstance
  /\ UNCHANGED <<main, stopEvent, pipeRunning, tcp, terminals>>

(* ConnectNamedPipe blocks without a client, fails with                    *)
(* ERROR_PIPE_CONNECTED, which counts as success, if one is there already, *)
(* and with ERROR_NO_DATA if it came and left.                             *)
CallConnect ==
  /\ worker = "connect"
  /\ \/ instance = Free /\ worker' = "wait" /\ UNCHANGED instance
     \/ Live(instance) /\ worker' = "read" /\ UNCHANGED instance
     \/ Dead(instance) /\ worker' = "check" /\ instance' = NoInstance
  /\ UNCHANGED <<main, stopEvent, pipeRunning, tcp, terminals>>

WakeUp ==
  /\ WorkerAt("wait", "read") /\ instance # Free
  /\ UNCHANGED <<main, stopEvent, pipeRunning, instance, tcp, terminals>>

(* HandleClient has read a TERMINAL_USER_INFO; what a terminal wrote can   *)
(* be read after it has died.  There is no step for a client that has gone *)
(* without a word: ReadPacket does not return.                             *)
Register ==
  /\ WorkerAt("read", "check") /\ instance \in told
  /\ registry' = registry \cup {instance} /\ instance' = NoInstance
  /\ UNCHANGED <<main, stopEvent, pipeRunning, tcp, term, told>>

-----------------------------------------------------------------------------
(* The accept thread, and TCP clients that come and leave.                 *)

PollIgnoresRunning ==
  /\ accepter = "poll" /\ pending > 0 /\ accepter' = "accept"
  /\ UNCHANGED <<main, pipe, tcpRunning, listening, pending, terminals>>

(* HasData, in a loop on running_. *)
PollListener ==
  /\ accepter = "poll"
  /\ \/ ~tcpRunning /\ accepter' = "ended"
     \/ tcpRunning /\ pending > 0 /\ accepter' = "accept"
  /\ UNCHANGED <<main, pipe, tcpRunning, listening, pending, terminals>>

(* Accept blocks if the connection has been reset since, and fails once    *)
(* the socket is closed.  A client gets a detached thread.                 *)
Accept ==
  /\ accepter = "accept" /\ accepter' = "poll"
  /\ \/ pending > 0 /\ pending' = pending - 1
     \/ ~listening /\ UNCHANGED pending
  /\ UNCHANGED <<main, pipe, tcpRunning, listening, terminals>>

ClientArrives ==
  /\ listening /\ pending < MaxPending /\ pending' = pending + 1
  /\ UNCHANGED <<main, pipe, tcpRunning, listening, accepter, terminals>>

ClientResets ==
  /\ pending > 0 /\ pending' = pending - 1
  /\ UNCHANGED <<main, pipe, tcpRunning, listening, accepter, terminals>>

-----------------------------------------------------------------------------
(* A terminal prints the id and passkey its client will use, and only then *)
(* connects to the pipe, without waiting for an instance, and registers.   *)

PrintId(t) ==
  /\ term[t] = "off" /\ term' = [term EXCEPT ![t] = "printed"]
  /\ UNCHANGED <<main, pipe, tcp, told, registry>>

ConnectPipe(t) ==
  /\ term[t] = "printed"
  /\ IF instance = Free
     THEN instance' = t /\ term' = [term EXCEPT ![t] = "connected"]
     ELSE UNCHANGED instance /\ term' = [term EXCEPT ![t] = "refused"]
  /\ UNCHANGED <<main, stopEvent, pipeRunning, worker, tcp, told, registry>>

(* An instance that has been closed meanwhile takes nothing.               *)
SendUserInfo(t) ==
  /\ term[t] = "connected" /\ instance = t
  /\ term' = [term EXCEPT ![t] = "waiting"] /\ told' = told \cup {t}
  /\ UNCHANGED <<main, pipe, tcp, registry>>

TerminalIsKilled(t) ==
  /\ term[t] \in {"printed", "connected", "waiting"}
  /\ term' = [term EXCEPT ![t] = "gone"]
  /\ UNCHANGED <<main, pipe, tcp, told, registry>>

-----------------------------------------------------------------------------
(* Why the properties below hold: IInv is inductive.                       *)
NoThreads == {"none", "ended"}
Ended == {"closeJob", "report", "over"}
Quiet == {"clearPipe", "setEvent", "cancel", "joinWorker"} \cup Ended

(* The worker has an instance between CreateNamedPipe and the end of a     *)
(* turn, and goes on to read only when somebody has opened it.             *)
InstanceInv ==
  /\ (instance = NoInstance) <=> (worker \in NoThreads \cup {"check", "create"})
  /\ worker = "read" => instance # Free

StopInv ==
  /\ stage \in {"cancel", "joinWorker"} => stopEvent
  /\ stage = "pipe" => worker = "none"
  /\ stage \in Ended => worker \in NoThreads

ListenerInv ==
  /\ stage \in Starting => accepter = "none"
  /\ stage \in Quiet => accepter \in NoThreads
  /\ stage \in Starting \cup {"joinAccept"} \cup Quiet => ~listening
  /\ stage = "over" \/ (stage = "report" /\ ~failed) => ~job
  /\ status = "stopped" => stage = "over" \/ (stage = "closeJob" /\ failed)

(* Stop sets the event and connects once.  A worker that is in             *)
(* ConnectNamedPipe after that has a client there, Stop's own or one that  *)
(* came first: no order of the two threads leaves it asleep on an instance *)
(* that nobody opens (NamedPipeServer.cpp:53-113).                         *)
WorkerIsWoken ==
  stage = "joinWorker" /\ worker \in {"connect", "wait"} => instance # Free

IInv == TypeOK /\ InstanceInv /\ StopInv /\ ListenerInv /\ WorkerIsWoken

-----------------------------------------------------------------------------
StartStep == StartPipe \/ CreateJob \/ InitSodium \/ StartListener
StopStep ==
  \/ CloseListener \/ JoinAccept \/ ClearPipe \/ SetStopEvent
  \/ ConnectToCancel \/ JoinWorker \/ CloseJob \/ ReportStopped
MainStep == StartStep \/ StopStep
WorkerStep ==
  \/ CheckToStop \/ CreatePipe \/ CheckAgain \/ CallConnect \/ WakeUp
  \/ Register
AcceptStep == PollListener \/ Accept

Next ==
  \/ MainStep \/ RequestStop
  \/ WorkerStep
  \/ AcceptStep \/ ClientArrives \/ ClientResets
  \/ \E t \in Terminals :
       PrintId(t) \/ ConnectPipe(t) \/ SendUserInfo(t) \/ TerminalIsKilled(t)

Spec == Init /\ [][Next]_vars

(* Threads run, and a terminal that has connected goes on to register.     *)
FairSpec ==
  /\ Spec /\ WF_vars(MainStep) /\ WF_vars(WorkerStep) /\ WF_vars(AcceptStep)
  /\ \A t \in Terminals : WF_vars(SendUserInfo(t))

-----------------------------------------------------------------------------
(* The end of the process, after a stop or after a start that failed at    *)
(* any point, leaves no thread, instance, socket or job object behind      *)
(* (Server.cpp:20-79).  When the service manager is told STOPPED all but   *)
(* one thing is gone already: the job object of a server whose start has   *)
(* failed (WindowsService.cpp:24-28, 42-46).                               *)
NothingIsLeft ==
  /\ stage = "over" \/ status = "stopped" =>
       /\ worker \in NoThreads /\ instance = NoInstance
       /\ accepter \in NoThreads /\ ~listening
  /\ stage = "over" \/ (status = "stopped" /\ ~failed) => ~job

(* The worker waits for a packet that cannot come any more.                *)
Stuck == worker = "read" /\ Dead(instance) /\ instance \notin told

(* Once it has begun, the end is reached, unless the worker reads from a   *)
(* client that has left without a word.                                    *)
StopEndsOrIsStuck == stage \in Stopping ~> (stage = "over" \/ Stuck)

(* A terminal that has written its TERMINAL_USER_INFO is registered, also  *)
(* if it has connected before ConnectNamedPipe was called, unless it is    *)
(* killed or the server stopped first (NamedPipeServer.cpp:107-139).       *)
TellingRegisters ==
  \A t \in Terminals :
    t \in told ~> (t \in registry \/ term[t] = "gone" \/ stopEvent)

(* utserver/main.cpp:99 says "Press Ctrl+C to stop": then the process      *)
(* ends.  It does not: the connection that is to wake the worker is read   *)
(* like a terminal's.                                                      *)
StopCompletes == stage \in Stopping ~> stage = "over"
=============================================================================
