------------------------------- MODULE Session -------------------------------
(***************************************************************************)
(* One session at the server, from the terminal's registration to its end: *)
(* client processes that come and go, one after the other or at the same   *)
(* time, a handler thread for every connection they make, the registry's   *)
(* entry, the named pipe, and the terminal process with its shell.         *)
(*                                                                         *)
(* A handler also names the TCP connection it was started for and, if it   *)
(* answers NEW_CLIENT, the ServerClientConnection it makes.  What Recover  *)
(* exchanges is the subject of Recovery.  Here a connection has an owner,  *)
(* the process whose INITIAL_PAYLOAD it has read, and Recover, one step,   *)
(* succeeds with its owner, or before there is one with a process that has *)
(* only sent that payload; never in Connect, where the writer already has  *)
(* a socket.  Two packets the shell prints differ; keys are counted.       *)
(* Clients are interactive and reconnect; the pipe takes every packet.     *)
(***************************************************************************)
EXTENDS Naturals, Sequences, FiniteSets

CONSTANTS
  MaxRuns,             \* bound: client processes started
  MaxHandlers,         \* bound: handlers that something still refers to
  MaxOutputs,          \* bound: packets of output from the shell
  MaxKeys,             \* bound: packets of input each client sends
  MaxLosses,           \* bound: TCP connections that break
  ClientsAreKilled,    \* may a client process be killed?
  TerminalIsKilled,    \* may the terminal process be killed?
  ClientsTakeTurns,    \* does a client process start when the one before has gone?
  ServerNoticesFirst   \* does the server see a loss before the client returns?

Runs == 1..MaxRuns
Handlers == 1..MaxHandlers
None == 0

ASSUME BoundsAssumption ==
  {MaxRuns, MaxHandlers, MaxOutputs, MaxKeys, MaxLosses} \subseteq Nat
ASSUME ModeAssumption ==
  {ClientsAreKilled, TerminalIsKilled, ClientsTakeTurns, ServerNoticesFirst}
    \subseteq BOOLEAN

(* No client finds the registry's connection with a socket that is valid,  *)
(* because another client is there or because its own loss is not seen, so *)
(* that the server takes it for a new one and replaces the connection.     *)
NoTakeover == ClientsTakeTurns /\ ServerNoticesFirst

VARIABLES
  client,      \* per process: where it is
  leaving,     \* processes whose main waits in ~ClientConnection
  tcp,         \* per process: its socket_
  typed,       \* per process: packets of input sent
  fed,         \* per process: packets of input a relay has read
  got,         \* per process: output received
  pc,          \* per handler: where it is
  recovering,  \* per handler in Recover: the connection it looked up
  held,        \* per handler: output it is writing
  sock,        \* per connection: its socket_
  owner,       \* per connection: the process that can recover it
  payload,     \* per TCP connection: whose INITIAL_PAYLOAD is on its way
  written,     \* per connection: output written to it
  line,        \* per TCP connection: output on its way
  known,       \* sessions_ has the client id
  registered,  \* connection of its entry
  pipeServer,  \* the server's end of the pipe is open
  pipeTerm,    \* the terminal's end of the pipe is open
  toTerm,      \* packets in the pipe to the terminal
  toServer,    \* output in the pipe to the server
  shell,       \* the shell
  reader,      \* the terminal's main thread, then its input thread
  writer,      \* the terminal's output thread
  printed,     \* number of packets of output so far
  losses       \* bound: TCP connections broken so far

clients == <<client, leaving, tcp, typed, fed, got>>
conns == <<sock, owner, payload, written, line>>
registry == <<known, registered>>
pipe == <<pipeServer, pipeTerm, toTerm, toServer>>
terminal == <<shell, reader, writer, printed>>
vars == <<clients, pc, recovering, held, conns, registry, pipe, terminal, losses>>

(* "asked": in Connect; "hello": waits for the INITIAL_RESPONSE; "polled": *)
(* in an attempt of PollReconnect; "refused": told that there is no such   *)
(* session; "failed": has given up its first contact.                      *)
ClientPlaces == {"off", "asked", "hello", "attached", "polling", "polled",
                 "refused", "failed", "killed"}
Gone == {"refused", "failed", "killed"}

(* The lines of HandleClient; a relay is in its loop, or in a write of it. *)
Relaying == {"relay", "input", "output"}
Places == {"free", "answer", "recover", "store", "initial", "attach", "init",
           "close", "unregister", "hangup", "done"} \cup Relaying

TypeOK ==
  /\ client \in [Runs -> ClientPlaces] /\ leaving \subseteq Runs
  /\ tcp \in [Runs -> Handlers \cup {None}]
  /\ typed \in [Runs -> 0..MaxKeys]
  /\ fed \in [Runs -> 0..MaxKeys] /\ \A r \in Runs : fed[r] <= typed[r]
  /\ got \in [Runs -> Seq(1..MaxOutputs)]
  /\ pc \in [Handlers -> Places]
  /\ recovering \in [Handlers -> Handlers \cup {None}]
  /\ held \in [Handlers -> 0..MaxOutputs]
  /\ sock \in [Handlers -> Handlers \cup {None}]
  /\ owner \in [Handlers -> Runs \cup {None}]
  /\ payload \in [Handlers -> Runs \cup {None}]
  /\ written \in [Handlers -> Seq(1..MaxOutputs)]
  /\ line \in [Handlers -> Seq(1..MaxOutputs)]
  /\ known \in BOOLEAN /\ registered \in Handlers \cup {None}
  /\ pipeServer \in BOOLEAN /\ pipeTerm \in BOOLEAN
  /\ toTerm \in Seq({"init", "key"}) /\ toServer \in Seq(1..MaxOutputs)
  /\ shell \in {"none", "running", "exited"}
  /\ reader \in {"start", "init", "reading", "done"}
  /\ writer \in {"reading", "writing", "done"}
  /\ printed \in 0..MaxOutputs /\ losses \in 0..MaxLosses

Init ==
  /\ client = [r \in Runs |-> "off"] /\ leaving = {}
  /\ tcp = [r \in Runs |-> None]
  /\ typed = [r \in Runs |-> 0] /\ fed = [r \in Runs |-> 0]
  /\ got = [r \in Runs |-> <<>>]
  /\ pc = [h \in Handlers |-> "free"]
  /\ recovering = [h \in Handlers |-> None]
  /\ held = [h \in Handlers |-> 0]
  /\ sock = [h \in Handlers |-> None] /\ owner = [h \in Handlers |-> None]
  /\ payload = [h \in Handlers |-> None]
  /\ written = [h \in Handlers |-> <<>>] /\ line = [h \in Handlers |-> <<>>]
  /\ known = FALSE /\ registered = None
  /\ pipeServer = TRUE /\ pipeTerm = TRUE /\ toTerm = <<>> /\ toServer = <<>>
  /\ shell = "none" /\ reader = "start" /\ writer = "reading"
  /\ printed = 0 /\ losses = 0

Goto(h, p) == pc' = [pc EXCEPT ![h] = p]

(* the process at the other end of a TCP connection *)
At(t) == {r \in Runs : tcp[r] = t}

PipeOpen == pipeServer /\ pipeTerm

(***************************************************************************)
(* Clients                                                                 *)
(***************************************************************************)

(* The server has not closed its side of a TCP connection.                 *)
ServerSide(t) ==
  pc[t] \in {"answer", "recover", "store"} \/ \E c \in Handlers : sock[c] = t

(* c's handler will find out that its connection is broken; one that       *)
(* writes to a closed pipe never does, and nobody looks after it is done.  *)
Watches(c) ==
  /\ pc[c] \in {"initial", "attach", "init"} \cup Relaying
  /\ pc[c] \in {"init", "input"} => PipeOpen

(* ServerNoticesFirst: the server has seen that a connection broke, if a   *)
(* handler looks, before the client connects again.  PollReconnect starts  *)
(* at once, but AcceptLoop sleeps 50 ms between connections, a relay 5 ms. *)
ServerHasNoticed ==
  \A t \in Handlers :
    /\ pc[t] \in {"answer", "recover", "store"} => At(t) # {}
    /\ Watches(t) /\ sock[t] # None => At(sock[t]) # {}

(* A handler's number may be used again when nothing refers to it.         *)
Unused(h) ==
  /\ pc[h] \in {"free", "done"} /\ At(h) = {} /\ registered # h
  /\ sock[h] = None /\ \A c \in Handlers : sock[c] # h
  /\ \A g \in Handlers : pc[g] = "recover" => recovering[g] # h

(* A connection is made: AcceptLoop starts a handler.                      *)
Dial(r, h) ==
  /\ ServerNoticesFirst => ServerHasNoticed
  /\ Unused(h) /\ \A g \in Handlers : Unused(g) => h <= g
  /\ tcp' = [tcp EXCEPT ![r] = h]
  /\ Goto(h, "answer")
  /\ owner' = [owner EXCEPT ![h] = None]
  /\ payload' = [payload EXCEPT ![h] = None]
  /\ written' = [written EXCEPT ![h] = <<>>]
  /\ line' = [line EXCEPT ![h] = <<>>]
  /\ UNCHANGED <<leaving, typed, fed, got, recovering, held, sock, registry, pipe,
                 terminal, losses>>

(* A client process is started: at any time, or when those before have     *)
(* gone.                                                                   *)
Start(r, h) ==
  /\ client[r] = "off"
  /\ \A q \in Runs : q < r => client[q] # "off" /\ (ClientsTakeTurns => client[q] \in Gone)
  /\ Dial(r, h)
  /\ client' = [client EXCEPT ![r] = "asked"]

(* A turn of PollReconnect.                                                *)
Poll(r, h) ==
  /\ client[r] = "polling"
  /\ Dial(r, h)
  /\ client' = [client EXCEPT ![r] = "polled"]

(* The client's side of a connection fails.  Connect gives up; a lost      *)
(* first contact makes main return, and the destructor waits for the       *)
(* reconnect thread that ReadPacket has started.                           *)
Drop(r) ==
  /\ tcp' = [tcp EXCEPT ![r] = None]
  /\ line' = [line EXCEPT ![tcp[r]] = <<>>]
  /\ client' = [client EXCEPT ![r] = IF @ = "asked" THEN "failed" ELSE "polling"]
  /\ leaving' = IF client[r] = "hello" THEN leaving \cup {r} ELSE leaving
  /\ UNCHANGED <<typed, fed, got, pc, recovering, held, sock, owner, payload, written,
                 registry, pipe, terminal>>

Lose(r) ==
  /\ losses < MaxLosses /\ tcp[r] # None
  /\ losses' = losses + 1
  /\ Drop(r)

(* The server has closed its side; what is on the way may get lost.        *)
NoticeClose(r) ==
  /\ tcp[r] # None /\ ~ServerSide(tcp[r])
  /\ Drop(r)
  /\ UNCHANGED losses

Kill(r) ==
  /\ ClientsAreKilled /\ client[r] \notin Gone \cup {"off"}
  /\ tcp' = [tcp EXCEPT ![r] = None]
  /\ line' = [t \in Handlers |-> IF t = tcp[r] THEN <<>> ELSE line[t]]
  /\ client' = [client EXCEPT ![r] = "killed"]
  /\ leaving' = leaving \ {r}
  /\ UNCHANGED <<typed, fed, got, pc, recovering, held, sock, owner, payload, written,
                 registry, pipe, terminal, losses>>

(* The INITIAL_RESPONSE arrives.                                           *)
Welcome(r) ==
  /\ client[r] = "hello"
  /\ tcp[r] # None /\ owner[tcp[r]] = r
  /\ client' = [client EXCEPT ![r] = "attached"]
  /\ UNCHANGED <<leaving, tcp, typed, fed, got, pc, recovering, held, conns,
                 registry, pipe, terminal, losses>>

Type(r) ==
  /\ client[r] = "attached" /\ tcp[r] # None /\ typed[r] < MaxKeys
  /\ typed' = [typed EXCEPT ![r] = @ + 1]
  /\ UNCHANGED <<client, leaving, tcp, fed, got, pc, recovering, held, conns,
                 registry, pipe, terminal, losses>>

Receive(r) ==
  /\ client[r] = "attached" /\ tcp[r] # None /\ line[tcp[r]] # <<>>
  /\ got' = [got EXCEPT ![r] = Append(@, Head(line[tcp[r]]))]
  /\ line' = [line EXCEPT ![tcp[r]] = Tail(@)]
  /\ UNCHANGED <<client, leaving, tcp, typed, fed, pc, recovering, held, sock,
                 owner, payload, written, registry, pipe, terminal, losses>>

(***************************************************************************)
(* HandleClient: the request                                               *)
(***************************************************************************)

(* The client is told, or turns away, and is at p; its connection closes.  *)
TurnAway(h, p) ==
  /\ client' = [r \in Runs |-> IF r \in At(h) THEN p[client[r]] ELSE client[r]]
  /\ tcp' = [r \in Runs |-> IF r \in At(h) THEN None ELSE tcp[r]]

(* INVALID_KEY makes PollReconnect shut the connection down.               *)
AnswerUnknown(h) ==
  /\ pc[h] = "answer" /\ ~known
  /\ TurnAway(h, [asked |-> "failed", polled |-> "refused"])
  /\ Goto(h, "done")
  /\ UNCHANGED <<leaving, typed, fed, got, recovering, held, conns, registry,
                 pipe, terminal, losses>>

AnswerReturning(h) ==
  /\ pc[h] = "answer" /\ known
  /\ registered # None /\ sock[registered] = None
  /\ recovering' = [recovering EXCEPT ![h] = registered]
  /\ Goto(h, "recover")
  /\ UNCHANGED <<clients, held, conns, registry, pipe, terminal, losses>>

AnswerNew_Always(h) ==
  /\ pc[h] = "answer" /\ known
  /\ client' = [r \in Runs |-> IF r \notin At(h) THEN client[r]
                               ELSE IF client[r] = "asked" THEN "hello"
                               ELSE "polling"]
  /\ tcp' = [r \in Runs |-> IF r \in At(h) /\ client[r] = "polled" THEN None
                            ELSE tcp[r]]
  /\ payload' = [payload EXCEPT ![h] =
                   IF \E r \in At(h) : client[r] = "asked"
                   THEN CHOOSE r \in At(h) : TRUE ELSE None]
  /\ Goto(h, "store")
  /\ UNCHANGED <<leaving, typed, fed, got, recovering, held, sock, owner, written,
                 line, registry, pipe, terminal, losses>>

(* A client in Connect sends its INITIAL_PAYLOAD; PollReconnect closes.    *)
AnswerNew(h) ==
  /\ pc[h] = "answer" /\ known
  /\ registered # None => sock[registered] # None
  /\ client' = [r \in Runs |-> IF r \notin At(h) THEN client[r]
                               ELSE IF client[r] = "asked" THEN "hello"
                               ELSE "polling"]
  /\ tcp' = [r \in Runs |-> IF r \in At(h) /\ client[r] = "polled" THEN None
                            ELSE tcp[r]]
  /\ payload' = [payload EXCEPT ![h] =
                   IF \E r \in At(h) : client[r] = "asked"
                   THEN CHOOSE r \in At(h) : TRUE ELSE None]
  /\ Goto(h, "store")
  /\ UNCHANGED <<leaving, typed, fed, got, recovering, held, sock, owner, written,
                 line, registry, pipe, terminal, losses>>

(* ReadProto fails.                                                        *)
RequestFails(h) ==
  /\ pc[h] = "answer" /\ At(h) = {}
  /\ Goto(h, "done")
  /\ UNCHANGED <<clients, recovering, held, conns, registry, pipe, terminal, losses>>

(* A connection object lives as long as the registry, its first handler or *)
(* one that recovers it hold it; its destructor closes the socket.         *)
Lives(c, released, entry) ==
  \/ entry = c \/ pc[c] # "done"
  \/ \E g \in Handlers \ {released} : pc[g] = "recover" /\ recovering[g] = c

(* Recover of a client that polls finds the numbers of its own connection, *)
(* or, if it has only sent its INITIAL_PAYLOAD, of one that has read none. *)
(* In Connect it always throws, since writer_ was made with the socket     *)
(* (BackedWriter.cpp:75).  A process that meets another's connection is    *)
(* refused here; in the code the numbers decide.  That takes a takeover    *)
(* and a loss.                                                             *)
Continues(r, c) ==
  /\ client[r] = "polled"
  /\ owner[c] = r \/ (owner[c] = None /\ r \in leaving)

RecoverSucceeds_All(h, r) ==
  LET c == recovering[h] IN
  /\ pc[h] = "recover" /\ r \in At(h)
  /\ sock[c] = None /\ Continues(r, c)
  /\ sock' = [sock EXCEPT ![c] = IF Lives(c, h, registered) THEN h ELSE None]
  /\ owner' = [owner EXCEPT ![c] = r]
  /\ IF r \in leaving
     THEN /\ client' = [client EXCEPT ![r] = "failed"]
          /\ tcp' = [tcp EXCEPT ![r] = None]
          /\ UNCHANGED line
     ELSE /\ client' = [client EXCEPT ![r] = "attached"]
          /\ line' = [line EXCEPT ![h] =
                        written[c]]
          /\ UNCHANGED tcp
  /\ leaving' = leaving \ {r}
  /\ Goto(h, "done")
  /\ UNCHANGED <<typed, fed, got, recovering, held, payload, written, registry, pipe,
                 terminal, losses>>

RecoverSucceeds_Nothing(h, r) ==
  LET c == recovering[h] IN
  /\ pc[h] = "recover" /\ r \in At(h)
  /\ sock[c] = None /\ Continues(r, c)
  /\ sock' = [sock EXCEPT ![c] = IF Lives(c, h, registered) THEN h ELSE None]
  /\ owner' = [owner EXCEPT ![c] = r]
  /\ IF r \in leaving
     THEN /\ client' = [client EXCEPT ![r] = "failed"]
          /\ tcp' = [tcp EXCEPT ![r] = None]
          /\ UNCHANGED line
     ELSE /\ client' = [client EXCEPT ![r] = "attached"]
          /\ UNCHANGED <<line, tcp>>
  /\ leaving' = leaving \ {r}
  /\ Goto(h, "done")
  /\ UNCHANGED <<typed, fed, got, recovering, held, payload, written, registry, pipe,
                 terminal, losses>>

RecoverSucceeds(h, r) ==
  LET c == recovering[h] IN
  /\ pc[h] = "recover" /\ r \in At(h)
  /\ sock[c] = None /\ Continues(r, c)
  /\ sock' = [sock EXCEPT ![c] = IF Lives(c, h, registered) THEN h ELSE None]
  /\ owner' = [owner EXCEPT ![c] = r]
  /\ IF r \in leaving
     THEN /\ client' = [client EXCEPT ![r] = "failed"]
          /\ tcp' = [tcp EXCEPT ![r] = None]
          /\ UNCHANGED line
     ELSE /\ client' = [client EXCEPT ![r] = "attached"]
          /\ line' = [line EXCEPT ![h] =
                        SubSeq(written[c], Len(got[r]) + 1, Len(written[c]))]
          /\ UNCHANGED tcp
  /\ leaving' = leaving \ {r}
  /\ Goto(h, "done")
  /\ UNCHANGED <<typed, fed, got, recovering, held, payload, written, registry, pipe,
                 terminal, losses>>

RecoverFails(h) ==
  LET c == recovering[h] IN
  /\ pc[h] = "recover"
  /\ sock[c] # None \/ \A r \in At(h) : ~Continues(r, c)
  /\ TurnAway(h, [asked |-> "failed", polled |-> "polling"])
  /\ sock' = [sock EXCEPT ![c] = IF Lives(c, h, registered) THEN @ ELSE None]
  /\ Goto(h, "done")
  /\ UNCHANGED <<leaving, typed, fed, got, recovering, held, owner, payload,
                 written, line, registry, pipe, terminal, losses>>

(***************************************************************************)
(* HandleClient: the first contact                                         *)
(***************************************************************************)

StoreConnection(h) ==
  /\ pc[h] = "store"
  /\ registered' = IF known THEN h ELSE registered
  /\ sock' = [c \in Handlers |->
                IF c = h THEN h
                ELSE IF c = registered /\ ~Lives(c, h, registered') THEN None
                ELSE sock[c]]
  /\ Goto(h, "initial")
  /\ UNCHANGED <<clients, recovering, held, owner, payload, written, line, known, pipe,
                 terminal, losses>>

(* The INITIAL_PAYLOAD is read and the INITIAL_RESPONSE written.           *)
ReadInitial(h) ==
  /\ pc[h] = "initial"
  /\ payload[h] # None
  /\ owner' = [owner EXCEPT ![h] = payload[h]]
  /\ Goto(h, "attach")
  /\ UNCHANGED <<clients, recovering, held, sock, payload, written, line, registry, pipe,
                 terminal, losses>>

InitialFails_Unregisters(h) ==
  /\ pc[h] = "initial" /\ At(h) = {}
  /\ sock' = [sock EXCEPT ![h] = None]
  /\ Goto(h, "done")
  /\ known' = FALSE /\ registered' = None
  /\ UNCHANGED <<clients, recovering, held, owner, payload, written, line, pipe,
                 terminal, losses>>

(* The connection is closed, but stays in the registry.                    *)
InitialFails(h) ==
  /\ pc[h] = "initial" /\ At(h) = {}
  /\ sock' = [sock EXCEPT ![h] = None]
  /\ Goto(h, "done")
  /\ UNCHANGED <<clients, recovering, held, owner, payload, written, line, registry, pipe,
                 terminal, losses>>

LookupTerminal(h) ==
  /\ pc[h] = "attach"
  /\ Goto(h, IF known THEN "init" ELSE "done")
  /\ sock' = IF known THEN sock ELSE [sock EXCEPT ![h] = None]
  /\ UNCHANGED <<clients, recovering, held, owner, payload, written, line, registry, pipe,
                 terminal, losses>>

(* A write to a broken pipe is repeated for ever.                          *)
WritePipe(h, packet) ==
  /\ PipeOpen
  /\ toTerm' = Append(toTerm, packet)
  /\ Goto(h, "relay")
  /\ UNCHANGED <<clients, recovering, held, conns, registry, pipeServer, pipeTerm,
                 toServer, terminal, losses>>

SendTermInit(h) == pc[h] = "init" /\ WritePipe(h, "init")

(***************************************************************************)
(* HandleClient: the relay loop and what follows it                        *)
(***************************************************************************)

(* IsConnected: the pipe is open, or there is something left to read.      *)
IsConnected == pipeServer /\ (pipeTerm \/ toServer # <<>>)

RelayInput(h) ==
  LET r == owner[h] IN
  /\ pc[h] = "relay" /\ sock[h] # None /\ fed[r] < typed[r]
  /\ fed' = [fed EXCEPT ![r] = @ + 1]
  /\ Goto(h, "input")
  /\ UNCHANGED <<client, leaving, tcp, typed, got, recovering, held, conns,
                 registry, pipe, terminal, losses>>

WriteInput(h) == pc[h] = "input" /\ WritePipe(h, "key")

RelayLost_Ends(h) ==
  /\ pc[h] = "relay" /\ sock[h] # None /\ At(sock[h]) = {}
  /\ sock' = [sock EXCEPT ![h] = None]
  /\ Goto(h, "close")
  /\ UNCHANGED <<clients, recovering, held, owner, payload, written, line, registry,
                 pipe, terminal, losses>>

(* A broken connection is closed: by a read, or by a write, which leaves   *)
(* the packet in the backup.                                               *)
RelayLost(h) ==
  /\ pc[h] = "relay" /\ sock[h] # None /\ At(sock[h]) = {}
  /\ sock' = [sock EXCEPT ![h] = None]
  /\ UNCHANGED <<clients, pc, recovering, held, owner, payload, written, line, registry,
                 pipe, terminal, losses>>

RelayOutput(h) ==
  /\ pc[h] = "relay" /\ IsConnected /\ toServer # <<>>
  /\ held' = [held EXCEPT ![h] = Head(toServer)]
  /\ toServer' = Tail(toServer)
  /\ Goto(h, "output")
  /\ UNCHANGED <<clients, recovering, conns, registry, pipeServer, pipeTerm,
                 toTerm, terminal, losses>>

WriteOutput_Dropped(h) ==
  /\ pc[h] = "output" /\ sock[h] # None
  /\ IF At(sock[h]) # {}
     THEN /\ written' = [written EXCEPT ![h] = Append(@, held[h])]
          /\ line' = [line EXCEPT ![sock[h]] = Append(@, held[h])]
          /\ UNCHANGED sock
     ELSE /\ UNCHANGED <<line, written>>
          /\ sock' \in {sock, [sock EXCEPT ![h] = None]}
  /\ held' = [held EXCEPT ![h] = 0]
  /\ Goto(h, "relay")
  /\ UNCHANGED <<clients, recovering, owner, payload, registry, pipe, terminal, losses>>

(* WritePacket waits until there is a socket.                              *)
WriteOutput(h) ==
  /\ pc[h] = "output" /\ sock[h] # None
  /\ written' = [written EXCEPT ![h] = Append(@, held[h])]
  /\ IF At(sock[h]) # {}
     THEN /\ line' = [line EXCEPT ![sock[h]] = Append(@, held[h])]
          /\ UNCHANGED sock
     ELSE /\ UNCHANGED line
          /\ sock' \in {sock, [sock EXCEPT ![h] = None]}
  /\ held' = [held EXCEPT ![h] = 0]
  /\ Goto(h, "relay")
  /\ UNCHANGED <<clients, recovering, owner, payload, registry, pipe, terminal, losses>>

RelayBreak(h) ==
  /\ pc[h] = "relay" /\ ~IsConnected
  /\ Goto(h, "close")
  /\ UNCHANGED <<clients, recovering, held, conns, registry, pipe, terminal, losses>>

ClosePipe(h) ==
  /\ pc[h] = "close"
  /\ pipeServer' = FALSE /\ toServer' = <<>>
  /\ Goto(h, "unregister")
  /\ UNCHANGED <<clients, recovering, held, conns, registry, pipeTerm, toTerm,
                 terminal, losses>>

UnregisterTerminal(h) ==
  /\ pc[h] = "unregister"
  /\ known' = FALSE /\ registered' = None
  /\ sock' = [c \in Handlers |->
                IF c = registered /\ ~Lives(c, h, None) THEN None ELSE sock[c]]
  /\ Goto(h, "hangup")
  /\ UNCHANGED <<clients, recovering, held, owner, payload, written, line, pipe,
                 terminal, losses>>

Hangup_Open(h) ==
  /\ pc[h] = "hangup"
  /\ UNCHANGED sock
  /\ Goto(h, "done")
  /\ UNCHANGED <<clients, recovering, held, owner, payload, written, line, registry, pipe,
                 terminal, losses>>

Hangup(h) ==
  /\ pc[h] = "hangup"
  /\ sock' = [sock EXCEPT ![h] = None]
  /\ Goto(h, "done")
  /\ UNCHANGED <<clients, recovering, held, owner, payload, written, line, registry, pipe,
                 terminal, losses>>

(***************************************************************************)
(* The terminal process                                                    *)
(***************************************************************************)

(* TERMINAL_USER_INFO is written, and the pipe server's worker takes it.   *)
RegisterTerminal ==
  /\ reader = "start" /\ pipeTerm
  /\ known' = TRUE
  /\ reader' = "init"
  /\ UNCHANGED <<clients, pc, recovering, held, conns, registered, pipe, shell,
                 writer, printed, losses>>

(* The first packet is an init: a relay writes one before anything else.   *)
ReadInit ==
  /\ reader = "init" /\ pipeTerm /\ toTerm # <<>> /\ Head(toTerm) = "init"
  /\ toTerm' = Tail(toTerm)
  /\ reader' = "reading" /\ shell' = "running"
  /\ UNCHANGED <<clients, pc, recovering, held, conns, registry, pipeServer,
                 pipeTerm, toServer, writer, printed, losses>>

(* ReadPacket returns; then IsRunning is asked.  It does not return when   *)
(* the server closes the pipe.                                             *)
InputThread ==
  /\ reader = "reading" /\ toTerm # <<>>
  /\ toTerm' = Tail(toTerm)
  /\ reader' = IF shell = "exited" THEN "done" ELSE "reading"
  /\ UNCHANGED <<clients, pc, recovering, held, conns, registry, pipeServer,
                 pipeTerm, toServer, shell, writer, printed, losses>>

(* The output thread reads from the shell, and writes what it has read.    *)
OutputRead ==
  /\ shell = "running" /\ writer = "reading" /\ printed < MaxOutputs
  /\ writer' = "writing"
  /\ UNCHANGED <<clients, pc, recovering, held, conns, registry, pipe, shell,
                 reader, printed, losses>>

OutputWrite ==
  /\ writer = "writing" /\ PipeOpen
  /\ printed' = printed + 1
  /\ toServer' = Append(toServer, printed')
  /\ writer' = "reading"
  /\ UNCHANGED <<clients, pc, recovering, held, conns, registry, pipeServer,
                 pipeTerm, toTerm, shell, reader, losses>>

OutputEnds ==
  /\ writer = "reading" /\ shell = "exited"
  /\ writer' = "done"
  /\ UNCHANGED <<clients, pc, recovering, held, conns, registry, pipe, shell,
                 reader, printed, losses>>

ShellExits ==
  /\ shell = "running"
  /\ shell' = "exited"
  /\ UNCHANGED <<clients, pc, recovering, held, conns, registry, pipe, reader,
                 writer, printed, losses>>

(* main joins both threads before it closes the pipe.                      *)
TerminalEnds ==
  /\ pipeTerm /\ shell = "exited" /\ reader = "done" /\ writer = "done"
  /\ pipeTerm' = FALSE /\ toTerm' = <<>>
  /\ UNCHANGED <<clients, pc, recovering, held, conns, registry, pipeServer,
                 toServer, terminal, losses>>

TerminalKilled ==
  /\ TerminalIsKilled /\ pipeTerm
  /\ pipeTerm' = FALSE /\ toTerm' = <<>>
  /\ shell' = IF shell = "none" THEN "none" ELSE "exited"
  /\ reader' = "done" /\ writer' = "done"
  /\ UNCHANGED <<clients, pc, recovering, held, conns, registry, pipeServer,
                 toServer, printed, losses>>

(***************************************************************************)
(* The specification                                                       *)
(***************************************************************************)

HandlerStep(h) ==
  \/ AnswerUnknown(h) \/ AnswerReturning(h) \/ AnswerNew(h) \/ RequestFails(h)
  \/ RecoverFails(h) \/ (\E r \in Runs : RecoverSucceeds(h, r))
  \/ StoreConnection(h) \/ ReadInitial(h) \/ InitialFails(h)
  \/ LookupTerminal(h) \/ SendTermInit(h)
  \/ RelayInput(h) \/ WriteInput(h) \/ RelayLost(h)
  \/ RelayOutput(h) \/ WriteOutput(h)
  \/ RelayBreak(h) \/ ClosePipe(h) \/ UnregisterTerminal(h) \/ Hangup(h)

TerminalStep ==
  \/ RegisterTerminal \/ ReadInit \/ InputThread
  \/ OutputWrite \/ OutputEnds \/ TerminalEnds

(* What a process that runs does by itself.                                *)
ClientStep(r) ==
  \/ NoticeClose(r) \/ Welcome(r) \/ Receive(r)
  \/ (\E h \in Handlers : Poll(r, h))

Next ==
  \/ (\E r \in Runs : ClientStep(r))
  \/ (\E r \in Runs : \E h \in Handlers : Start(r, h))
  \/ (\E r \in Runs : Lose(r))
  \/ (\E r \in Runs : Kill(r))
  \/ (\E r \in Runs : Type(r))
  \/ (\E h \in Handlers : HandlerStep(h))
  \/ TerminalStep
  \/ OutputRead
  \/ ShellExits
  \/ TerminalKilled

Spec == Init /\ [][Next]_vars

(* Every thread runs on.  Nobody need type, print, exit, kill or start.    *)
FairSpec ==
  /\ Spec
  /\ \A r \in Runs : WF_vars(ClientStep(r))
  /\ \A h \in Handlers : WF_vars(HandlerStep(h))
  /\ WF_vars(TerminalStep)

(***************************************************************************)
(* Properties                                                              *)
(***************************************************************************)

Count(n) == [k \in 1..n |-> k]

(* What the output thread has written to the pipe is still there, or in    *)
(* the relay's hands, or written to its connection, each packet once and   *)
(* in order, however often clients leave and come back.                    *)
OutputIsKept ==
  \A h \in Handlers :
    pc[h] \in Relaying =>
      written[h] \o (IF pc[h] = "output" THEN <<held[h]>> ELSE <<>>) \o toServer
        = Count(printed)

(* A client reads what the shell has printed, in order, from the start.    *)
OutputInOrder ==
  \A r \in Runs : got[r] = Count(Len(got[r])) /\ Len(got[r]) <= printed

(* PollReconnect is refused only after the session has ended.              *)
RefusedAfterTheEnd ==
  \A r \in Runs : client[r] = "refused" => ~pipeTerm

(* The server, its handlers, the pipe and the terminal implement the       *)
(* durable session: clients that leave, die, fail or come back print,      *)
(* close and erase nothing, and are refused only when it has ended.        *)
Durable == INSTANCE DurableSession
             WITH Clients <- Runs, alive <- pipeTerm, open <- pipeServer, read <- got,
                  refused <- {r \in Runs : client[r] = "refused"}

IsDurable == Durable!Spec

(* What the shell prints reaches a client that stays.                      *)
OutputArrives ==
  \A r \in Runs : \A k \in 1..MaxOutputs :
    client[r] = "attached" /\ printed >= k
      ~> Len(got[r]) >= k \/ client[r] \in Gone \/ ~pipeTerm

(* When the terminal has ended, the client of its relay learns of it,      *)
(* unless the relay is about to write to the pipe, where it then stays.    *)
ClientLearnsOfTheEnd ==
  \A r \in Runs :
    ~pipeTerm /\ (\E h \in Handlers : pc[h] \in {"relay", "output"} /\ owner[h] = r)
      ~> client[r] \in Gone \/ \E h \in Handlers : pc[h] = "input"

(* persistent-sessions.mdx:42 "Can be closed and restarted without         *)
(* affecting session": while the shell runs and no connection breaks, no   *)
(* new client fails to connect.                                            *)
RestartedClientConnects ==
  [][\A r \in Runs : client'[r] = "failed" /\ client[r] = "asked"
       => shell # "running" \/ losses > 0]_vars

(* persistent-sessions.mdx:191 "Both clients see the same output": of      *)
(* several clients of one session, each attached by its own takeover, none *)
(* misses a packet between two that it has read.                           *)
BothSeeTheOutput ==
  \A r \in Runs : \A k \in 1..(Len(got[r]) - 1) : got[r][k + 1] = got[r][k] + 1

(* persistent-sessions.mdx:111 "Running `exit` in the shell" terminates a  *)
(* session: its end is noticed and the entry removed.                      *)
ExitEndsSession == shell = "exited" ~> ~known
=============================================================================
