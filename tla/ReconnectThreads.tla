--------------------------- MODULE ReconnectThreads ---------------------------
(***************************************************************************)
(* The threads of one client and the ClientConnection they share: the      *)
(* output thread reads, every thread may write, the keepalive thread       *)
(* closes a connection that has been quiet for too long, and whoever       *)
(* closes the socket starts the thread that runs PollReconnect.            *)
(*                                                                         *)
(* A step ends where a thread waits (for a lock, for another thread, in    *)
(* recv, in send) and where it has read a field without a lock.  The locks *)
(* are mutex_, which is recursive, and the recover_mutex_ of the reader:   *)
(* only BackedReader::Read keeps the latter while it waits, so that it is  *)
(* held exactly when pc[Reader] = "recv".  The writer's recover_mutex_ is  *)
(* taken under mutex_ only and never waited for.                           *)
(*                                                                         *)
(* An exception that leaves a thread, and the destruction of a std::thread *)
(* that is still joinable, end the process: every thread is "gone".         *)
(***************************************************************************)
EXTENDS Naturals

CONSTANTS
  Reader,            \* the output thread, which calls ReadPacket
  Keepalive,         \* the keepalive thread
  Writers,           \* the input, resize and port forwarding threads
  Poller,            \* the thread that runs PollReconnect, as owner of mutex_
  NoOne,             \* no owner
  ReconnectEnabled,  \* reconnect_enabled_, set once by main
  MayGoSilent,       \* may a connection stay up and carry nothing?
  MaxLosses          \* bound: connections that break

Threads == {Reader, Keepalive} \cup Writers

ASSUME ThreadsAssumption ==
  /\ Reader # Keepalive
  /\ Reader \notin Writers /\ Keepalive \notin Writers
  /\ Poller \notin Threads /\ NoOne \notin Threads /\ Poller # NoOne
ASSUME ModeAssumption ==
  ReconnectEnabled \in BOOLEAN /\ MayGoSilent \in BOOLEAN
ASSUME LossesAssumption == MaxLosses \in Nat

VARIABLES
  pc,            \* where each thread is
  poller,        \* where the newest reconnect thread is
  handle,        \* reconnect_thread_: null, or a joinable or a joined thread
  mutex,         \* owner of mutex_
  writing,       \* the thread inside Connection::Write
  conn,          \* the connection of socket_; "none" is kInvalidSocket
  quiet,         \* last_rx_ms is older than kKeepaliveDeadMs
  shuttingDown,  \* shutting_down_
  losses         \* bound: connections broken so far

vars ==
  <<pc, poller, handle, mutex, writing, conn, quiet, shuttingDown, losses>>

(* "idle" is outside the connection; "enter", "recv": in Read; "send": in  *)
(* a Write that blocks; "pinged": after the keepalive's Write; the others  *)
(* are CloseSocketAndMaybeReconnect from its first to its last line.       *)
Places == {"idle", "enter", "recv", "send", "pinged",
           "wait", "join", "raced", "reset", "lock", "close", "start", "gone"}

TypeOK ==
  /\ pc \in [Threads -> Places]
  /\ poller \in {"test", "lock", "poll", "ended", "gone"}
  /\ handle \in {"null", "joinable", "joined"}
  /\ mutex \in Threads \cup {Poller, NoOne}
  /\ writing \in Threads \cup {NoOne}
  /\ conn \in {"live", "silent", "broken", "none"}
  /\ quiet \in BOOLEAN /\ shuttingDown \in BOOLEAN
  /\ losses \in 0 .. MaxLosses

(* After Connect and the initial exchange of packets, which main does      *)
(* before it starts its threads.                                           *)
Init ==
  /\ pc = [t \in Threads |-> "idle"]
  /\ poller = "ended"
  /\ handle = "null"
  /\ mutex = NoOne
  /\ writing = NoOne
  /\ conn = "live"
  /\ quiet = FALSE /\ shuttingDown = FALSE
  /\ losses = 0

Goto(t, place) == pc' = [pc EXCEPT ![t] = place]

(* The process ends, and Windows closes its sockets.                       *)
Terminate ==
  /\ pc' = [t \in Threads |-> "gone"] /\ poller' = "gone"
  /\ mutex' = NoOne /\ writing' = NoOne /\ conn' = "none"
  /\ UNCHANGED <<handle, quiet, shuttingDown, losses>>

Terminated == poller = "gone"

-----------------------------------------------------------------------------
(* The network and the clock.                                              *)

Lose ==
  /\ conn \in {"live", "silent"} /\ losses < MaxLosses
  /\ conn' = "broken" /\ losses' = losses + 1
  /\ UNCHANGED <<pc, poller, handle, mutex, writing, quiet, shuttingDown>>

(* The server hangs, and answers again: TCP keeps the connection.          *)
GoSilent ==
  /\ MayGoSilent /\ conn = "live"
  /\ conn' = "silent"
  /\ UNCHANGED <<pc, poller, handle, mutex, writing, quiet, shuttingDown,
                 losses>>

Resume ==
  /\ conn = "silent"
  /\ conn' = "live"
  /\ UNCHANGED <<pc, poller, handle, mutex, writing, quiet, shuttingDown,
                 losses>>

(* The server echoes each keepalive, so that only a connection that is not *)
(* live lets 15 seconds pass without a packet.                             *)
Age ==
  /\ conn # "live" /\ ~quiet
  /\ quiet' = TRUE
  /\ UNCHANGED <<pc, poller, handle, mutex, writing, conn, shuttingDown,
                 losses>>

-----------------------------------------------------------------------------
(* Connection::Read, by the output thread.                                 *)

(* It locks mutex_ for the copy of reader_, and releases it.               *)
EnterRead ==
  /\ pc[Reader] = "idle" /\ mutex = NoOne /\ ~shuttingDown
  /\ Goto(Reader, "enter")
  /\ UNCHANGED <<poller, handle, mutex, writing, conn, quiet, shuttingDown,
                 losses>>

(* BackedReader::Read returns 0 without a socket, and waits in recv with   *)
(* its recover_mutex_ locked otherwise.  (Packets that a recovery has left *)
(* in local_buffer_ have been read by then.)                               *)
LockReader ==
  /\ pc[Reader] = "enter"
  /\ Goto(Reader, IF conn = "none" THEN "idle" ELSE "recv")
  /\ UNCHANGED <<poller, handle, mutex, writing, conn, quiet, shuttingDown,
                 losses>>

Receive ==
  /\ pc[Reader] = "recv" /\ conn = "live"
  /\ Goto(Reader, "idle") /\ quiet' = FALSE
  /\ UNCHANGED <<poller, handle, mutex, writing, conn, shuttingDown, losses>>

(* It returns -1: the lock is released before the socket is closed.        *)
ReadFails ==
  /\ pc[Reader] = "recv" /\ conn = "broken"
  /\ Goto(Reader, "wait")
  /\ UNCHANGED <<poller, handle, mutex, writing, conn, quiet, shuttingDown,
                 losses>>

-----------------------------------------------------------------------------
(* Connection::Write, by any thread.  A write that is skipped or succeeds  *)
(* leaves everything as it is; the two that do not keep mutex_.            *)

WriteFails(t) ==
  /\ pc[t] = "idle" /\ mutex = NoOne /\ conn = "broken"
  /\ mutex' = t /\ writing' = t
  /\ Goto(t, "wait")
  /\ UNCHANGED <<poller, handle, conn, quiet, shuttingDown, losses>>

(* Nobody takes what was sent before: send waits for room.                 *)
WriteBlocks(t) ==
  /\ pc[t] = "idle" /\ mutex = NoOne /\ conn = "silent"
  /\ mutex' = t /\ writing' = t
  /\ Goto(t, "send")
  /\ UNCHANGED <<poller, handle, conn, quiet, shuttingDown, losses>>

(* What follows a call of Connection::Write, and what follows a call of    *)
(* CloseSocketAndMaybeReconnect: the end of Write, of Read, or, in the     *)
(* keepalive thread, of the turn, with last_rx_ms set to now.              *)
EndOfWrite(t) == IF t = Keepalive THEN "pinged" ELSE "idle"

Return(t) ==
  /\ mutex' = IF writing = t THEN NoOne ELSE mutex
  /\ writing' = IF writing = t THEN NoOne ELSE writing
  /\ Goto(t, IF writing = t THEN EndOfWrite(t) ELSE "idle")
  /\ quiet' = (quiet /\ ~(t = Keepalive /\ writing # t))

SendEnds(t) ==
  /\ pc[t] = "send"
  /\ \/ conn = "live" /\ Return(t)
     \/ /\ conn = "broken" /\ Goto(t, "wait")
        /\ UNCHANGED <<mutex, writing, quiet>>
  /\ UNCHANGED <<poller, handle, conn, shuttingDown, losses>>

-----------------------------------------------------------------------------
(* The keepalive thread: a Write, and then a look at the clock.            *)

Ping ==
  /\ pc[Keepalive] = "idle" /\ mutex = NoOne
  /\ Goto(Keepalive, "pinged")
  /\ UNCHANGED <<poller, handle, mutex, writing, conn, quiet, shuttingDown,
                 losses>>

CheckAge ==
  /\ pc[Keepalive] = "pinged"
  /\ Goto(Keepalive, IF quiet THEN "wait" ELSE "idle")
  /\ UNCHANGED <<poller, handle, mutex, writing, conn, quiet, shuttingDown,
                 losses>>

-----------------------------------------------------------------------------
(* CloseSocketAndMaybeReconnect.  It takes no lock of its own: the handle  *)
(* is tested, joined, reset and assigned as the threads happen to run.     *)

(* Mutant: the reconnect thread is detached, not joined.                   *)
WaitReconnect_Detaches(t) ==
  /\ pc[t] = "wait"
  /\ handle' = "null" /\ Goto(t, "lock")
  /\ UNCHANGED <<poller, mutex, writing, conn, quiet, shuttingDown, losses>>

(* The test in WaitReconnect; join() of a thread that has been joined      *)
(* throws.                                                                 *)
WaitReconnect(t) ==
  /\ pc[t] = "wait"
  /\ \/ handle = "joined" /\ Terminate
     \/ /\ handle # "joined"
        /\ Goto(t, IF handle = "null" THEN "lock" ELSE "join")
        /\ UNCHANGED <<poller, handle, mutex, writing, conn, quiet,
                       shuttingDown, losses>>

(* Of several threads in join() one succeeds.  What the others find in the *)
(* handle is undefined: they go on, or throw.                              *)
Join(t) ==
  /\ pc[t] = "join" /\ poller = "ended"
  /\ handle' = "joined"
  /\ pc' = [u \in Threads |->
              IF u = t THEN "reset"
              ELSE IF pc[u] = "join" THEN "raced" ELSE pc[u]]
  /\ UNCHANGED <<poller, mutex, writing, conn, quiet, shuttingDown, losses>>

Raced(t) ==
  /\ pc[t] = "raced"
  /\ \/ Terminate
     \/ /\ Goto(t, "reset")
        /\ UNCHANGED <<poller, handle, mutex, writing, conn, quiet,
                       shuttingDown, losses>>

(* reset() destroys whichever thread object the handle now owns.           *)
ResetHandle(t) ==
  /\ pc[t] = "reset"
  /\ \/ handle = "joinable" /\ Terminate
     \/ /\ handle # "joinable"
        /\ handle' = "null" /\ Goto(t, "lock")
        /\ UNCHANGED <<poller, mutex, writing, conn, quiet, shuttingDown,
                       losses>>

(* CloseSocket: it returns at once when there is no socket, and waits in   *)
(* InvalidateSocket, with mutex_ locked, while the reader is in recv.      *)
LockToClose(t) ==
  /\ pc[t] = "lock" /\ mutex \in {NoOne, t}
  /\ \/ conn = "none" /\ Goto(t, "start") /\ UNCHANGED mutex
     \/ conn # "none" /\ Goto(t, "close") /\ mutex' = t
  /\ UNCHANGED <<poller, handle, writing, conn, quiet, shuttingDown, losses>>

(* Mutant: the reader's lock is not waited for.                            *)
CloseSocket_NoReaderLock(t) ==
  /\ pc[t] = "close"
  /\ conn' = "none"
  /\ mutex' = writing
  /\ Goto(t, "start")
  /\ UNCHANGED <<poller, handle, writing, quiet, shuttingDown, losses>>

CloseSocket(t) ==
  /\ pc[t] = "close" /\ pc[Reader] # "recv"
  /\ conn' = "none"
  /\ mutex' = writing
  /\ Goto(t, "start")
  /\ UNCHANGED <<poller, handle, writing, quiet, shuttingDown, losses>>

(* The assignment destroys the thread object that the handle owned.        *)
StartReconnect(t) ==
  /\ pc[t] = "start"
  /\ \/ /\ shuttingDown \/ ~ReconnectEnabled
        /\ Return(t)
        /\ UNCHANGED <<poller, handle, conn, shuttingDown, losses>>
     \/ /\ ~shuttingDown /\ ReconnectEnabled /\ handle = "joinable"
        /\ Terminate
     \/ /\ ~shuttingDown /\ ReconnectEnabled /\ handle # "joinable"
        /\ handle' = "joinable" /\ poller' = "test"
        /\ Return(t)
        /\ UNCHANGED <<conn, shuttingDown, losses>>

-----------------------------------------------------------------------------
(* PollReconnect.                                                          *)

(* Mutants: the loop is left only under the lock; one failure ends it.     *)
TestSocket_UnderLock ==
  /\ poller = "test"
  /\ poller' = "lock"
  /\ UNCHANGED <<pc, handle, mutex, writing, conn, quiet, shuttingDown,
                 losses>>

PollFails_Once ==
  /\ poller = "poll"
  /\ mutex' = NoOne /\ poller' = "ended"
  /\ UNCHANGED <<pc, handle, writing, conn, quiet, shuttingDown, losses>>

(* The loop's condition reads socket_ without a lock.                      *)
TestSocket ==
  /\ poller = "test"
  /\ poller' = IF conn = "none" THEN "lock" ELSE "ended"
  /\ UNCHANGED <<pc, handle, mutex, writing, conn, quiet, shuttingDown,
                 losses>>

LockToPoll ==
  /\ poller = "lock" /\ mutex = NoOne
  /\ \/ shuttingDown /\ poller' = "ended" /\ UNCHANGED mutex
     \/ ~shuttingDown /\ poller' = "poll" /\ mutex' = Poller
  /\ UNCHANGED <<pc, handle, writing, conn, quiet, shuttingDown, losses>>

(* No connection, an answer that is neither INVALID_KEY nor                *)
(* RETURNING_CLIENT, or a recovery that is cut off.                        *)
PollFails ==
  /\ poller = "poll"
  /\ mutex' = NoOne /\ poller' = "test"
  /\ UNCHANGED <<pc, handle, writing, conn, quiet, shuttingDown, losses>>

(* Recover takes the reader's lock, which a reader without a socket has    *)
(* released.                                                               *)
PollRecovers ==
  /\ poller = "poll" /\ pc[Reader] # "recv"
  /\ conn' = "live"
  /\ mutex' = NoOne /\ poller' = "test"
  /\ UNCHANGED <<pc, handle, writing, quiet, shuttingDown, losses>>

(* INVALID_KEY: the session is over.                                       *)
PollRefused ==
  /\ poller = "poll"
  /\ shuttingDown' = TRUE
  /\ mutex' = NoOne /\ poller' = "ended"
  /\ UNCHANGED <<pc, handle, writing, conn, quiet, losses>>

-----------------------------------------------------------------------------
Environment == Lose \/ GoSilent \/ Resume \/ Age

ReaderStep == EnterRead \/ LockReader \/ Receive \/ ReadFails

KeepaliveStep == Ping \/ CheckAge

Closing(t) ==
  \/ WaitReconnect(t) \/ Join(t) \/ Raced(t) \/ ResetHandle(t)
  \/ LockToClose(t) \/ CloseSocket(t) \/ StartReconnect(t)

ThreadStep(t) == WriteFails(t) \/ WriteBlocks(t) \/ SendEnds(t) \/ Closing(t)

PollerStep ==
  TestSocket \/ LockToPoll \/ PollFails \/ PollRecovers \/ PollRefused

Next ==
  \/ Environment \/ ReaderStep \/ KeepaliveStep \/ PollerStep
  \/ \E t \in Threads : ThreadStep(t)

Spec == Init /\ [][Next]_vars

(* A thread that can run does.  Waiting for mutex_ needs strong fairness:  *)
(* every thread that takes it again sleeps first (PollReconnect for a      *)
(* second, WritePacket and the reader's loop for 5 ms), so that the lock   *)
(* goes round.  The server can be reached from time to time.               *)
FairSpec ==
  /\ Spec
  /\ WF_vars(Age) /\ WF_vars(CheckAge)
  /\ WF_vars(LockReader) /\ WF_vars(Receive) /\ WF_vars(ReadFails)
  /\ SF_vars(EnterRead) /\ SF_vars(Ping)
  /\ \A t \in Threads :
       /\ WF_vars(SendEnds(t)) /\ SF_vars(LockToClose(t))
       /\ WF_vars(WaitReconnect(t)) /\ WF_vars(Join(t)) /\ WF_vars(Raced(t))
       /\ WF_vars(ResetHandle(t)) /\ WF_vars(CloseSocket(t))
       /\ WF_vars(StartReconnect(t))
  /\ WF_vars(TestSocket) /\ SF_vars(LockToPoll)
  /\ WF_vars(PollFails \/ PollRecovers \/ PollRefused) /\ SF_vars(PollRecovers)

-----------------------------------------------------------------------------
(* A thread that waits for the reconnect thread while it holds mutex_ (a   *)
(* write that failed, Connection.cpp:69) never waits for a thread that     *)
(* needs mutex_ itself: PollReconnect is past its last lock.               *)
NeedsMutex == poller \in {"lock", "poll"} \/ (poller = "test" /\ conn = "none")

JoinIsSafe ==
  \A t \in Threads : pc[t] = "join" /\ mutex = t => ~NeedsMutex

(* No socket is closed under the reader: while recv uses it, socket_ is    *)
(* not given back, whoever closes it and for whatever reason.              *)
ReadsAnOpenSocket == pc[Reader] = "recv" => conn # "none"

(* Without a connection somebody is at it: a reconnect thread runs, or the *)
(* thread that closed the socket is about to start one.                    *)
SomebodyReconnects ==
  ReconnectEnabled /\ ~shuttingDown /\ conn = "none" =>
    poller # "ended" \/ \E t \in Threads : pc[t] = "start"

(* The client survives whatever happens to its connection: it "Reconnects  *)
(* automatically on disconnect".                                           *)
ClientSurvives == ~Terminated

Over == Terminated \/ shuttingDown

(* A lost or quiet connection is replaced (or comes back by itself), as    *)
(* long as the client and the session exist: the reader or the keepalive   *)
(* notices, and PollReconnect gets a new one.  It is not while it is up    *)
(* and carries nothing: the keepalive thread, which notices, waits to      *)
(* close it for the lock of the reader in recv, or of a send that blocks.  *)
Silent == conn = "silent"
DeadConnectionIsReplaced ==
  conn # "live" ~> (conn = "live" \/ Silent \/ Over)

(* mutex_ is released by everyone who takes it: no thread that holds it    *)
(* waits for another that needs it, or for the network for good, but for   *)
(* the same case.                                                          *)
LocksAreReleased == mutex # NoOne ~> (mutex = NoOne \/ Silent \/ Over)

-----------------------------------------------------------------------------
(* The inductive invariant behind the first three.                         *)

(* What the owner of mutex_ is doing, and that whoever writes owns it.     *)
MutexInv ==
  /\ poller = "poll" <=> mutex = Poller
  /\ writing # NoOne => mutex = writing
  /\ \A t \in Threads : pc[t] \in {"close", "send"} => mutex = t
  /\ \A t \in Threads : pc[t] = "send" => writing = t
  /\ \A t \in Threads :
       pc[t] \in {"idle", "enter", "recv", "pinged"} => mutex # t
  /\ \A t \in Threads : mutex = t /\ writing # t => pc[t] = "close"

(* While PollReconnect locks mutex_ or has it, there is no connection;     *)
(* while a write is failing there is one.                                  *)
ConnInv ==
  /\ poller \in {"lock", "poll"} => conn = "none"
  /\ \A t \in Threads :
       /\ pc[t] \in {"close", "send"} => conn # "none"
       /\ writing = t /\ pc[t] # "start" => conn # "none"

(* A reconnect thread that runs is the one reconnect_thread_ owns, not yet *)
(* joined: there is never a second.                                        *)
HandleInv == poller \in {"test", "lock", "poll"} => handle = "joinable"

IInv ==
  /\ TypeOK /\ MutexInv /\ ConnInv /\ HandleInv
  /\ ReadsAnOpenSocket /\ SomebodyReconnects
===============================================================================
