# Undying Terminal in TLA+

Undying Terminal is a terminal session that outlives its network connection: a
client on one machine, a server on another, and beside the server one terminal
process per session. This directory specifies the parts of it that are hard to
get right by testing: what happens when connections break, when two threads act
on the same failure, when a request arrives earlier or later than anybody
expected, and when a program is started, stopped or left half-way. Paths below are relative to `src/`, the root of the repository.

## The system

| Component | Source | State it keeps | Operations |
|---|---|---|---|
| Recovering connection | `src/ut/protocol/{Connection,BackedWriter,BackedReader,CryptoHandler}.cpp` | `socket_`, backup buffer, sequence numbers, packets recovered but not yet read, a part of a packet, two nonces; one mutex and two recover mutexes | Write, Read, CloseSocket, Recover, Shutdown |
| Client connection | `src/ut/protocol/ClientConnection.cpp` | `reconnect_thread_`, `shutting_down_` | Connect, CloseSocketAndMaybeReconnect, PollReconnect |
| Connection handlers | `src/utserver/TcpListener.cpp` | one detached thread per accepted connection | HandleClient: answer, first contact, relay loop, cleanup |
| Registry | `src/utserver/ClientRegistry.cpp` | per client id: pipe handle, passkey, connection, activity | register, look up, store, erase, clean up |
| Server | `src/utserver/{Server,main,WindowsService,JobObject}.cpp` | the listener, the pipe server, a job object, the service's status | Start, Stop, Ctrl+C, service control |
| Named pipe server | `src/utserver/NamedPipeServer.cpp` | one worker thread, a stop event | Start, Stop, Run, HandleClient |
| Terminal process | `src/utterminal/main.cpp`, `ConPTYSession.cpp` | the shell, a pipe, two relay threads | start, relay both ways, wait for the shell, jump mode |
| Port forwarding | `src/ut/protocol/PortForwardHandler.cpp`, `TunnelUtils.cpp` | listeners, pending clients, active sockets | AddForwardRequest, Update, HandlePacket |
| Client program | `src/ut/main.cpp` (`--connect`) | the flag `running`, threads for input, output, keepalive, resizing, forwarding; predictive echo | start, the threads, the end |
| SSH bootstrap | `src/ut/main.cpp` (`--ssh`), `SshSubprocess.cpp`, `SshCommandBuilder.cpp`, `SshConfig.cpp` | one or two ssh processes, the id they have brought | start ssh, read the id, end ssh, connect |
| Session UI | `src/ut/main.cpp` (`--ui`) | profiles, and the client process of each | add, change, start, stop, remove, quit |
| Helpers | `ReconnectionManager`, `Keepalive`, `Config`, `CryptoUtils`, ... | small | parsing, arithmetic, console and files |

How they meet: client and server exchange framed, encrypted packets over TCP.
The server's handler thread of a session relays between that connection and the
terminal's named pipe. The registry is how a new TCP connection finds the
session it belongs to; it is shared, without a lock, by the handlers, the relay
loops and the pipe worker. In the client, all threads share one
`ClientConnection`; whoever notices a failure closes the socket and starts the
thread that reconnects.

What is hard, by component:

- **Recovering connection.** Both ends exchange sequence numbers and what the
  other lacks, and may be cut off at any point of it: one side may have revived
  and the other not. Correct means: every packet is read once, in order, under
  the nonce it was written with; attempts end; a lost connection comes back.
- **Client threads.** The reader, the writers and the keepalive thread act on
  the same failure, or on one that a recovery has already repaired.
- **Handlers and registry.** `HandleClient` decides by a socket it reads without
  a lock; the same client may have several handlers at once, and several clients
  one session; sessions end meanwhile.
- **Server, named pipe server, terminal.** A start that fails half-way, a worker
  that only a connection can wake, reads without a timeout, threads that wait for
  each other when a session or the server ends.
- **Client program.** Six threads that look at one flag and are joined in one
  order; a predictor that drops from the output what it has already shown.
- **SSH bootstrap, session UI.** Child processes that must be found and ended on
  every way out.
- **Port forwarding.** Two maps per side, kept in step only by messages.

Every one of these hazards is listed at its line in `PROJECT.json`.

## Modules

| Module | What it is |
|---|---|
| `ReliableStream` | abstract: two streams of packets, each delivered in order, once |
| `Recovery` | the recovering connection at both ends, the client's PollReconnect, the answers of the server's handlers, TCP |
| `RecoveryInvariant` | the inductive invariant of `Recovery` |
| `MCRecovery` | symmetry for a run of `Recovery` |
| `RecoveryProofs` | its proof, the theorems, and the refinement |
| `ReconnectThreads` | the threads of one client on one `ClientConnection`: locks, thread handle, PollReconnect |
| `ReconnectThreadsProofs` | the invariant of `ReconnectThreads` and its theorems |
| `PortForward` | both port forwarding handlers at both ends of a session, and the applications |
| `PortForwardInvariant` | the inductive invariant of `PortForward` |
| `PortForwardProofs` | its proof and the theorems |
| `DurableSession` | abstract: a session that lasts until its terminal ends, then ends in order, with one stream of output for every client |
| `Session` | one session at the server: client processes, `HandleClient`, registry, pipe, terminal process |
| `SessionInvariant` | the two inductive invariants of `Session`: who may end it, and where its output is |
| `SessionProofs` | their proofs, the theorems, and the refinement |
| `ServerLife` | the server process: its start, its end, the pipe worker, the accept thread, terminals that register |
| `ServerLifeProofs` | the invariant of `ServerLife` and its theorems |
| `ClientProgram` | the client process of `--connect`: its threads, its end, its predictive echo |
| `ClientProgramProofs` | the invariant of `ClientProgram` and its theorems |
| `SshBootstrap` | the client of `--ssh` up to its connection, with ssh and the terminals it starts |
| `SshBootstrapProofs` | the invariant of `SshBootstrap` and its theorems |
| `BuiltInUi` | the prompt of `--ui` and the clients it starts |
| `BuiltInUiProofs` | the invariant of `BuiltInUi` and its theorems |
| `UtMain` | the program `ut`: the first argument chooses among the three |

Where one module leaves something out, another has it: `Recovery` what a recovery
exchanges, `ReconnectThreads` who may start one, `Session` which connection is
recovered at the server, `ClientProgram` what the client's threads do meanwhile.
`TypeOK` of each module says what its variables are, and no run spends itself on it
alone. It is a part of an invariant that is proved in every module but `PortForward`,
whose invariants have a `TypeInv` of their own.

### Recovery

It begins when the initial handshake is done: each side has written one packet
and read one. A packet is named by its position in its writer's stream, which is
also the nonce it is encrypted under; it carries no payload, only a length,
because the backup buffer is bounded in bytes.

*State.* `socket[s]` is `socket_` of the connection and of its reader and
writer: `CloseSocket` and `Recover` change the three together, under the
locks. `attempt[s]` and `stage[s]` are the local state of a thread that runs
`PollReconnect` or `Recover`; while `attempt[s]` is a connection that thread
holds `mutex_` (and from `Recover` on both recover mutexes), so that no
other operation of side `s` can start. `written[s]` has one entry per packet
ever written, the number of bytes up to and including it; its length is
`sequence_number_` of the `BackedWriter`. `evicted[s]` says how many of them
have left `backup_buffer_`. `rseq`, `localBuffer` and `partial` are the fields
of the `BackedReader`. `delivered` is a history variable: what `Read` returned,
0 where `Decrypt` would throw. `requests` and `pending` are the handler
threads before and after their answer; `registry` says whether the session's
connection is the one both ends have counted with (`kept`), has been replaced
because a request was taken for a new client (`replaced`), or the session is
gone (`erased`).

*Steps.* `Connection::Write` is one step, with its two outcomes. `Recover` is
split where it waits for the peer: up to the header it sends, from the header it
receives to the catch-up it sends, from the catch-up it receives to the end.
`PollReconnect`'s request and the answer to it are steps of their own, and any
step of the other side, of other handlers and of the network can come between.

*Network.* A connection delivers in order a prefix of what was written to it.
`Break` keeps a prefix of what is in flight; afterwards nothing crosses, and a
side learns of it only when it reads (`ReadFails`) or writes (`WriteFails`); a
write may as well succeed and be lost. Handles of closed connections are used
again.

*Left out.* Lengths of time (a timeout is an event that may happen while it is
allowed to); bytes within a packet, except that a part of one may have been
read; the write of a handshake message that fails after 30 seconds, which ends
the attempt as a failing read does; the packets' contents. After a takeover the
new `ServerClientConnection` is modelled only by what the old client sees of
it (`AnswerAfterReplacement`), not by a stream of its own.

*Assumed.* `Recover`'s catch closes the new socket and `HandleClient` closes the
same handle once more (`TcpListener.cpp:154`); the model takes the second
call to do nothing, which is so unless the handle has been given out again in
between.

*Found on the way.* When the backup has dropped what a returning client lacks,
`BackedWriter::Recover` throws (`BackedWriter.cpp:95`), the connection is refused, and
the client retries for ever. The documentation describes something else:
`docs/concepts/persistent-sessions.mdx:74` says "The connection will still recover,
but you'll see a gap in output", and `docs/concepts/recovery-protocol.mdx:170-208` that
the server names a "Sequence gap", the client displays "Recovery gap detected", and
the session is "still functional". No message of `UT.proto` could carry the gap.
`RetainedBacklogIsResent` and `InOrderDelivery` are about what the code does: it
refuses exactly then, and never skips.

### ReconnectThreads

`Recovery` lets a side close its connection and start `PollReconnect` in one
step. `ReconnectThreads` takes that step apart. One connection, of which only
the state matters (live, silent, broken, none), is shared by the output thread
(`Reader`), the keepalive thread, the threads that write (input, resize,
forwarding) and the reconnect thread (`poller`).

*Steps.* A step of the model ends where a thread waits or has read a field
without a lock. `CloseSocketAndMaybeReconnect` is six steps: the test of
`reconnect_thread_` (`WaitReconnect`), `join` (`Join`, and `Raced` for the other
threads that were in `join` on the same object), `reset` (`ResetHandle`), the
two locks of `CloseSocket` (`LockToClose`, `CloseSocket`) and the assignment
(`StartReconnect`). `Connection::Write` keeps `mutex_` throughout, also when
it fails and closes the socket; the reader and the keepalive thread come without
it. `PollReconnect` tests `socket_` without a lock and then holds `mutex_` for a
whole attempt.

*Undefined behaviour.* The handle is a `shared_ptr` without a lock. Two threads
in `join` of one `std::thread`: one succeeds, the other goes on or throws. A
`join` of a joined thread throws; the destruction of a joinable thread, by `reset`
or by an assignment, terminates. No thread function catches: every exception ends
the process.

*Left out.* What a recovery exchanges (that is `Recovery`), and packets that
it leaves in `local_buffer_`; the writer's `recover_mutex_`, which is only taken
under `mutex_`; how the client ends (that is `ClientProgram`).

### PortForward

A tunnel has a source side, which accepts connections, and a target side, which
connects to the destination. Each side has a handler for either role; a forward
tunnel (`-t`) has its source at the client, a reverse tunnel (`-r`) at the
server. `listening` says which sides accept, that is, which kinds of tunnel the
session has.

*State.* `pending`, `active`, `nextFd` and `nextId` are the fields of
`PortForwardHandler`: only a source handler has pending clients, only a target
handler gives out socket ids. `sock` is what stands behind a handle: the TCP
connection to an application (an *end*: the number of the connection and the
role of the handler), or nothing once it is closed. `sent`, `taken` and `got` say
what an application has written, what the handler has read of it, and what the
application at the other end has received; a piece is what one `recv` returns.
`net` is the session's two streams, in order and without loss, as
`ReliableStream` has them.

*Steps.* One step per turn of a loop of `Update`, and one per packet in
`HandlePacket`, with one exception: the new socket is in `active_sockets_` before
the response is sent (`Connect`, `Respond`). In the server one loop does
everything; in the client the forwarding thread may run between the two. The
refusal of a destination is a response without a socket id, which `HandlePacket`
drops before it looks at the error.

*Data race.* In the client `Update` and `HandlePacket` run in two threads on the
same maps without a lock. That is undefined behaviour; the model takes single
operations on the maps to be atomic.

*Left out.* `AddForwardRequest` happens before the session relays anything, and
a listener that cannot be opened is dropped: both are the choice of `listening`.
A connection is closed in both directions at once; half-closed connections, and
data that a blocking `send` delays, are not modelled. Nor is what a new client
process finds (no tunnels are set up again for a returning client).

*Switches.* Four constants separate what works from what does not.
`HandlesAreReused`: may the system give out the handle of a socket that is closed
but still in a map? `SpeakingFirst`: from which of the two sides may a destination
send, or hang up, before it has been sent anything? `MayRefuse`: may it refuse? And `Listeners`
says whether a session may have both kinds of tunnel. All of these happen: nothing
removes an entry from `active_sockets_` after a `Close` (`PortForwardHandler.cpp:90`,
126), and the documentation recommends both kinds of tunnel together
(`docs/guides/port-forwarding.mdx:312`) and a reverse tunnel to ssh, whose server
speaks first (line 305). *Bounds*, below, says
what breaks when they do, and *Proofs* what holds all the same.

### Session

The other modules look at a session while it is connected; this one looks at its
life: client processes that come and go, one after the other or at the same time,
a handler thread for each connection they make, the registry's entry, the pipe,
and the terminal process.

*State.* `client[r]` and `tcp[r]` are a client process and its `socket_`. A handler
`h` also names the TCP connection it was started for, and the
`ServerClientConnection` it makes if it answers `NEW_CLIENT`: `pc[h]` is its
line in `HandleClient`, `sock[h]` the `socket_` of its connection object.
`owner[h]` is the client process whose `INITIAL_PAYLOAD` that object has read,
`payload[h]` an `INITIAL_PAYLOAD` on its way. `written` is all the output written
to a connection, `line` what is on its way on a TCP connection, `got` what a
process has read. `known` and `registered` are the entry of the registry.
`shell`, `reader` and `writer` are the terminal process: `reader` is its main thread
up to the init packet and its input thread afterwards.

*Steps.* One per stretch of `HandleClient` between two waits or two accesses to
the registry; every turn of the relay loop is a read and, apart from it, the write
that follows, because each write is repeated until it succeeds: to the pipe for
ever (`WriteAllOrThrow`), to the client until it is back (`WritePacket`).
`Recover` is one step. What it exchanges is `Recovery`'s subject; here it
succeeds when the client polls and the numbers are those of its own connection
(`Continues`): that whose first contact it made, or, for a process whose first
contact was lost, one that has read nothing yet. In `Connect` it never succeeds:
`ClientConnection.cpp:49-54` makes the writer with a socket, and
`BackedWriter::Recover` throws when there is one (lines 75-76). The output thread reads from the shell and writes to the pipe in two
steps. A connection object's life ends with its last `shared_ptr` (`Lives`),
and its destructor closes the socket.

*Abstractly.* `DurableSession` has only the id, the two ends of the pipe, the number of
packets printed, and what each client has read or been told. `IsDurable` maps `Session`
to it: `pipeTerm` is the living terminal, `pipeServer` the open pipe, `got` what has been
read, and a process that is `"refused"` has been told that there is no session.

*The client.* A process whose first contact is lost returns from `main`; its
destructor waits for the reconnect thread, which goes on connecting: `leaving`.
Otherwise clients are interactive, with reconnection enabled.

*Assumed.* A write to the pipe does not wait for room, and a pipe whose other end
is closed can still be read to its end. The answer to a client that has just gone
is written without an error. Data races on the registry's map are taken as
atomic calls.

*Takeovers.* A request that finds the registry's connection with a valid socket is
answered `NEW_CLIENT`, the connection is replaced, and a second relay starts on the
same pipe (`TcpListener.cpp:149-163`, 226). That happens when a second client
attaches to a session, and when a client returns before the server has noticed its
loss. Two switches say whether it may: `ClientsTakeTurns` (a client process starts
when those before it have gone) and `ServerNoticesFirst` (when a client connects, those
handlers that look have already seen that its former connection is broken; nothing
in the code guarantees it, but the client starts at once, while the listener sleeps
for 50 ms between connections and a relay for 5 ms). With both, `NoTakeover`, the
output is kept and in order; without them it is not, which is what `SessionShared`
shows. What ends the session, and when a client is refused, does not depend on them
and is proved without them.

*Left out.* Jump mode, `--tunnel-only`, tunnels, resizing (as keys, for the pipe),
`CleanupStale`, `MarkActive` and `last_seen` (nothing reads or calls them), an
`INITIAL_PAYLOAD` that arrives in pieces. After a takeover and a loss a client may
poll and meet another process's connection; the code lets the numbers decide, the
model refuses. No run has a takeover and a loss.

*Found on the way.* A handler may be in `Recover` while the session ends: the client
is then back on a connection object that no relay reads and that the registry
does not hold. Only the destructor, when the handler returns, throws it off.
Where the registry does hold such an object, it stays: a first contact that fails
leaves a connection without a relay behind. The process that made it may poll, get
it back, and is attached to nothing; every later process is told that it returns,
and fails. And a terminal that dies without a relay stays registered.

### ServerLife

*State.* `stage` is the line of the main thread in `Server::Start`, in `main`'s wait
and in `Server::Stop`; `worker` and `accepter` those of the other two threads.
`instance` is the pipe instance the worker holds, named by who has opened it:
nobody (`Free`), a terminal, or `Stop` itself (`Canceller`). `told` are the
terminals that have written their `TERMINAL_USER_INFO`, `registry` those that
`RegisterTerminal` has been called for. `status` is what the service manager has
been told.

*Steps.* Each of the four things `Start` does may fail, and each failure takes the
way the code takes: without an event nothing runs; later ones stop the pipe
server. `CloseJob` and `ReportStopped` end the server in the order of the case:
`Stop` closes the job object before the control handler reports STOPPED
(`WindowsService.cpp:24-28`); after a start that failed, `ServiceMain` reports it at once
(42-46), and the job object goes with its destructor, when `RunAsService` has
returned to `main`. `NamedPipeServer::Stop` is four steps
(`ClearPipe`, `SetStopEvent`, `ConnectToCancel`, `JoinWorker`) because the worker
may run between any two; the worker's turn is `CheckToStop`, `CreatePipe`, the
second look at the event (`CheckAgain`), and `ConnectNamedPipe`, which finds the
instance free, opened, or opened and left again.

*Left out.* What a connection's handler does (`Session`); firewall rules; the
registration of the service; the configuration. The job object has no process
assigned to it anywhere in the code, so that closing it ends nothing.

*Assumed.* `ReadPacket` on a pipe whose client has gone returns if the packet was
written before, and never otherwise: `HasData` answers false both for an error
of `PeekNamedPipe` and for an empty pipe, and `ReadAll` has no timeout there.

*Found on the way.* When `CreateNamedPipe` fails once, the worker ends and the
server goes on without it: no terminal can register any more. A terminal that
finds no free instance (the worker is busy with another) gives up.

### ClientProgram

*State.* `main` and `input`, `output`, `keepalive`, `sender` say where each thread is;
`running` is the flag they share. `conn` is the connection: up, broken and not
noticed, down, or up again. `pending` is `PredictiveEcho::pending_`, and `credit`
counts, per character, what the predictor has put on the screen less what it has
dropped from the output.

*Steps.* One per turn of a thread's loop between two waits. A `WritePacket` on a
connection that is down is not enabled until it is up again, because it repeats;
the output thread's `recv` likewise. A mode is interactive (`shell`), a command
that ends by time (`CommandTimeout`: 5 seconds without a first packet, 500 ms
without another), or tunnels only; in the last two a lost connection stays lost
(`SetReconnectEnabled(interactive)`). The first packet is `SendInitialPayload`, which
may fail to parse a reverse tunnel or write for ever, and `ReadInitialResponse`,
which ends the program for a wrong packet, an error or a loss, and waits for a
server that is silent.

*Left out.* The options' wording; whether a tunnel's packets mean anything; the
initial payload's contents, except that a tunnel may not parse; losses while the predictor runs (recovered packets
carry the same text).

*Assumed.* A packet that has begun to arrive arrives whole, or the connection
fails. What `--ssh` does after it has connected (`main.cpp:744-1041`) repeats these
threads line by line; the map names the copy of `--connect`.

*Found on the way.* The end of the standard input clears the flag but wakes
nobody: the output thread stays in `recv` until the server says something, and
the keepalive thread, whose echo would be that, has just ended. A forward tunnel
that cannot be parsed throws out of `main` (`main.cpp:1220`, outside any `try`) with
`keepalive_thread` running, so that the process ends in `std::terminate`; the `catch`
behind it (1232) is never reached, because a listener that cannot be opened is passed
over in silence. A client that is not interactive and has lost its connection stays
in `WritePacket` for ever if it has something to write: the command, or an answer of
its output thread (`WritesForEver`). A command that prints
nothing for five seconds, or pauses for half a second, is cut off. After a
mismatch the predictor forgets what it has shown, and characters appear twice,
although `docs/basic-usage.mdx:337` says "No duplicate characters visible"; what it never does is swallow
one (`NothingIsSwallowed`).

### SshBootstrap

*State.* Per link (target, jumphost) an `SshSubprocess` with its handles, and the
terminal behind it; `lines` is what stands unread in the one pipe that both the
standard output and the standard error of ssh are written to. A line is the
terminal's id, another text, or a text with a slash in it, which the client takes
for an id.

*Steps.* One per call that may fail or wait. `Exit` is every `return` of `main`: the
two destructors run. `Start` closes what it has opened when it fails. `ReadLine`
waits until there is a line or nobody can write one any more.

*Left out.* What stands in `ssh_config`, which is read and gives options or an
error; what is quoted and how, except where `Build` refuses it; the terminal's
session afterwards.

*Assumed.* A terminal may outlive the ssh that started it or be ended by sshd.
`quotes` says whether the remote shell leaves the quotes in `echo '...'`, as
cmd.exe does.

*Found on the way.* With `--tmux` ssh is never started: `WrapWithTmux` puts the
command in double quotes, and `Build` returns nothing for a command with a double
quote in it. Behind cmd.exe the terminal takes `'XXX...` for an id, not for the
wish to be given one, prints nothing and registers, and the client waits for ever
(`NothingToRead`). What ssh says first, a new host key or a banner, is taken for
the reply. The client connects without waiting for the terminal to be
registered; the server answers `INVALID_KEY` to an id it does not know, and the
client gives up. With a jumphost, whose terminal has only just been
started, that is the likely case.

### BuiltInUi

*State.* `profiles` and `running` are the two maps of `RunBuiltInUi`, from a name to
a profile and to the handle of a child; `state` and `owner` are the children
themselves. `unkilled` are those that `TerminateProcess` has failed on, which the
code does not look at.

*Steps.* One per command that changes something, one per round of the loop after
`quit`, and `ChildExits` at any time: nothing tells the prompt.

*Left out.* `help`, `list` and `show`, which print; what a profile holds, apart from
being changed.

*Found on the way.* A client that has exited is listed as running, and `start` is
refused until `stop`. `quit`, and the end of the input, terminate all clients
(`main.cpp:448-456`, in `EndOne`), while `docs/guides/built-in-ui.mdx:167` says
"Quitting the UI does **not** stop running sessions. They continue in their own
windows", and lines 208 and 256-258 say so again.

### UtMain

*State and steps.* Those of `ClientProgram`, `BuiltInUi` and `SshBootstrap`, which
share nothing: the first argument (`main.cpp:459-481`, 1044) chooses one of them in
the initial state, and the other two are at rest. `--ssh` goes on, once connected,
with a copy of the client's threads, and is not followed into it. One run checks
the three.

## Runs

| Run | Expect | Question |
|---|---|---|
| `RecoverySafety` | pass | Three handles, a backup of two bytes and three packets each way, two faults, takeovers allowed: order, counting, completeness, refusals, refinement of `ReliableStream`, and the inductive invariant |
| `RecoveryLive` | pass | Two handles, two packets each way, two faults, no overflow, and a server that notices a loss first: attempts end, the client reconnects, everything arrives |
| `Threads` | pass | Reader, keepalive and two writers, two losses, silent connections: who waits for whom, what is closed under whom, who reconnects; the connection comes back, `mutex_` is released |
| `ThreadsTerminate` | violation | the client survives a loss: two threads that notice it at once end the process |
| `PortForwardTunnel` | pass | one kind of tunnel, two connections, two pieces, hang-ups at any time, destinations that speak first or refuse: the right data at the right application, nothing lost, every end passed on, and only after the data |
| `SessionLife` | pass | two client processes, four handlers, two losses, kills at any time, two packets of output, no takeover: output kept and in order, refinement of `DurableSession` (the session outlives its clients, and ends in order), both ends learn of each other's end |
| `SessionRestart` | violation | a client is killed and started again: it can connect. It cannot, while the shell runs |
| `SessionShared` | violation | two clients of one session, connected at once, see the same output. The pipe's packets are split between them |
| `SessionExit` | violation | when the shell has exited the session ends. It waits for the user to type once more |
| `ServerLife` | pass | two terminals, one waiting client, a start that fails anywhere, a stop at any time: the worker is woken, nothing is left, terminals are registered, and the end is reached unless the worker reads from a client that has gone |
| `ServerStop` | violation | without that exception: Ctrl+C does not end the server |
| `UtMain` | pass | the client in three modes, with three keys, two packets, one loss: commands end, a client stops or listens, no output is swallowed; the bootstrap with every failure of two links: only the jumphost's ssh is kept, and only by a session, and the read of the id ends; the prompt with two profiles, three clients: every live one is listed |

*Bounds.* `MaxPackets` bounds the packets each side writes, `MaxFaults` the
breaks, timeouts and closings by the keepalive thread. A backup of two bytes and
packets of one byte overflow with the third packet, so that each of `Recover`'s
three outcomes occurs; three handles allow a connection in use by the server, an
attempt on a second, and a handler left over on a third. Two faults reach a
recovery that is itself cut off and repeated. The answers and the number of
reconnections are not bounded. In `RecoverySafety` the handles are symmetric;
the liveness runs use no symmetry.
In `ReconnectThreads` only the losses of a connection are counted (`MaxLosses`);
failed attempts, silences and turns of the keepalive thread are not. Two losses
let a thread act on the first while another deals with the second; two writers
let one hold `mutex_` and another wait for it. The two liveness properties leave out
a client that has been terminated, or whose session is over (`Over`), and, with
`Silent`, the time a connection is up and carries nothing.
In `PortForward`, `MaxConns` bounds connections and `MaxChunks` the pieces of all
applications together: two connections are what it takes for one to be mistaken
for another, and two pieces are two on one end, one and its answer, or one on each of
two connections. (With three pieces, and so two and an answer, the safety
properties hold as well; they are proved for any number.) Either kind of tunnel is
an initial state, and the destinations of a forward tunnel, which the server
connects to, may speak first.
Two properties of `PortForward` hold only as far as the switches go.
`NothingLost` and `RightStream` fail with `"client" \in SpeakingFirst` and a reverse
tunnel: what a destination at the client sends at once may reach the server before
the response does, and is dropped there, and what it sends afterwards arrives
without its beginning. In the server, one loop sends the response before it reads
from the destination again, and the case does not arise.
`RefusalIsPassedOn` fails with `MayRefuse`: the application whose
destination refuses is never told, and its socket stays open. Neither has a run;
`Delivery` and `HangUpIsPassedOn` leave refused connections out.

Other switches show the following, without a run of their own. `Recovery` with
`ServerNoticesFirst = FALSE` violates `EventualDelivery`: a request that reaches the
server before it has noticed the loss is taken for a new client and the session's
backup is replaced (`TcpListener.cpp:150`, against the "**zero data loss**" of
`docs/concepts/recovery-protocol.mdx:8`). `Recovery` with a
backup too small for what was written (`MaxBackupBytes = 1`) violates
`Reconnects`: a client that is too far behind retries for ever.
`ReconnectThreads` with `ReconnectEnabled = FALSE` (`--tunnel-only`) violates
`DeadConnectionIsReplaced`, as it does without the exception of `Silent`: the keepalive
thread cannot close a connection that has fallen silent, because it waits for
the lock that the reader keeps in `recv`. `PortForward` with both kinds of tunnel
(`Listeners = {{"client", "server"}}`) violates `RightStream`: both target handlers number
their sockets from 1 and each packet is given to both. With `HandlesAreReused` it violates
`RightStream` too: what was on its way for a closed socket reaches the connection
that got its handle. With all the switches on a piece may even be received twice, which
is why `InOrderFromEach`, proved for every setting of them, says no more than it does.

In `SessionLife` and `SessionRestart`, two processes are what it takes for one to find
what another left; two losses let a client be lost during its first contact and again later; one
key is enough to be in a relay's hands when the pipe breaks, and two packets of
output to be put in the wrong order. Four handlers suffice: a connection in the
registry, the TCP connection it has been recovered on, one whose handler has not
ended, and a new one. `SessionShared` needs neither losses nor kills: two clients that
attach, and three packets, of which one client misses the second. `SessionExit` needs
one client and one packet.

In `ServerLife` a second terminal is what it takes for one to find the worker busy
with another; terminals die at any time and clients reset at will. `MaxPending = 1`
has both an empty and a full queue. In `ClientProgram`, `PendingLimit` (4096 in the
code) is 2, so that three keys overflow it; two packets of one or two characters
match all, a part or nothing of what is pending. Turns of the threads, timeouts
and keepalives are not counted. `SshBootstrap` has no bound: each thing in it
happens once. In `BuiltInUi` three clients allow one of two profiles to have a
second one after its first has been lost, stopped or could not be killed, beside one
of the other. Of the states of `UtMain` nine in ten are the client's; the three programs do
not multiply, since only one of them runs.

*Fairness.* For `Recovery`: weak fairness on what a running thread does next: reading what has
arrived, noticing a closed or broken connection when reading, each step of the
handshake, the retry of `PollReconnect`, the handler's answer. Threads are
never starved by the code: each of these steps only waits for locks that
`AttemptsEnd` shows to be released. None on writes, breaks, timeouts, closings
by the keepalive, or the end of the session. That a reader notices a broken
connection is an assumption on TCP (its retransmission timer, or the keepalive
packets that make it fail).

For `ReconnectThreads`: weak fairness on each thread that is not waiting for
`mutex_`, on the clock (`Age`) and on the arrival of data on a live connection
(the server echoes every keepalive); strong fairness on taking `mutex_`, because
every thread that takes it again sleeps first, and on a successful attempt,
because the server can be reached from time to time. A silent connection need not
end.

For `PortForward`: weak fairness on `Update` and on `HandlePacket` of each side,
which their threads call for ever; none on applications.

For `ServerLife`: weak fairness on each of the server's three threads, and on a
terminal that has connected, whose next call writes its packet; none on stopping,
failing, arriving, killing. For `UtMain`, as a client: on each thread and on reconnecting,
which `Recovery` and `ReconnectThreads` show to come about when the server can be
reached; none on typing, the end of the input or the server's packets, nor on the main
thread while it waits for the initial response. As a bootstrap: on the client, the
terminals, and on ssh once its command has ended; none on ssh getting through. As a prompt, none: it waits for its user.

For `Session`: weak fairness on each handler thread, on the terminal process, and on
a client that polls, reads or is told; none on starting, typing, printing,
exiting, killing or losing. A handler whose write can never succeed is not
enabled, so that fairness does not help it.

*Violations.* Each refutes what the repository says of the program and is described,
with the quotation, under `findings` in `PROJECT.json`.

- `ThreadsTerminate`: the reader and a writer notice one loss, both find no reconnect
  thread, and the second assignment destroys a joinable `std::thread`.
- `SessionRestart`: a new client process is told that it returns, and calls `Recover`
  with a writer that has a socket already, which throws.
- `SessionShared`: while one client is connected another is taken for a new one, and a
  second relay reads the pipe of the first. Each packet goes to one of the two.
- `SessionExit`: after the shell's exit the terminal joins a thread that waits for one
  more packet from the server. The property is of a specification with fairness for
  every thread; the user, who could end it by a key, need not type.
- `ServerStop`: `Stop` wakes the worker by connecting to the pipe. The worker
  takes that for a terminal and reads its first packet, which never comes, without a
  timeout; `join` waits for it. `StopEndsOrIsStuck` of `ServerLife` shows that nothing else
  keeps the server from ending, and `WorkerIsWoken` that the wake-up itself never
  misses.

## Proofs

For every set of handles, lengths, backup size and int32 range that satisfies
the module's assumptions (packets have at least one byte; the backup holds fewer
bytes than there are int32 values, as 64 MiB does), and without a bound on the
number of faults (`MaxFaults` is any natural number), `RecoveryProofs` proves

- `Invariance`: `IInv` is an invariant;
- `TypeCorrect`, `Delivery`, `Announced`, `Complete`, `Shutdown`: the run's
  invariants follow;
- `NotReplaced`: no step swaps a live connection;
- `BacklogIsResent`: a returning peer is refused only for what the backup has
  dropped, as long as a side has written fewer than 2^31 packets
  (`MaxPackets \in 1 .. HalfRange - 1`); with more, `TLC` finds a peer that is refused
  although the backup has all it lacks, because its number has not survived the
  int32 (`Connection.cpp:96`);
- `Refinement`: `Recovery` implements `ReliableStream`.

The properties are not inductive by themselves: that the next `Read` returns the
right packet depends on what is in flight, which depends on which header the
peer has seen. `IInv` says, for each side and each connection it is on:
which kinds of message can be in flight to it in each stage of the handshake
and that their numbers continue its reader's (`ShapeInv`); that a side that has
not seen a header has sent no catch-up, so that the other cannot be connected
yet (`OrderInv`); that on a working connection nothing is missing (`CompleteInv`);
what an unanswered handler leaves in flight (`WaitingInv`); who can be where
(`PlaceInv`); and how the counters of one side hang together (`ReaderInv`,
`WriterInv`). The truncation to int32 is where the assumption on the backup's
size is needed: a header that was cut off and is nevertheless accepted must be
the number it was cut from.

The induction goes by the parts of `IInv` (`TypeStep`, `WriterStep`,
`ReaderStep`, `LinkStep`, `RegistryStep`), and for `LinkStep`, the largest, by
kinds of step: a side leaves its connection, a side writes, a message of the
handshake is sent or taken, a packet is read, a connection breaks. `TLC` checks
`IInv` on the instance of `RecoverySafety`.

`ReconnectThreadsProofs` proves, for every set of writers, both modes and with or
without silent connections, `Invariance` (the `IInv` of that module) and from it
`SafeJoin`, `OpenWhileRead` and `NeverAbandoned`. Two conjuncts carry the
induction. While `PollReconnect` wants `mutex_` there is no connection, and while a
write is failing there is one (`ConnInv`): therefore a write that waits for the
reconnect thread with `mutex_` locked waits for one that is past its last lock. And
a reconnect thread that runs is owned by `reconnect_thread_`, not yet joined
(`HandleInv`): without it a second thread could be started beside the one that
holds `mutex_`.

`SessionProofs` proves, for any numbers of processes, handlers, packets and losses,
that the two invariants of `SessionInvariant` are invariants: `IInv` (`Invariance`),
and from it `EndsAfterTheTerminal` and `RefusedLate`, with clients at the same time and
takeovers; and, if there are none (`ASSUME NoTakeover`), `SInv` (`StreamInvariance`), and
from it `TypeInvariance`, `OutputKept`, `OutputOrdered`, and `Durability`: `Session`
implements `DurableSession`. The hypothesis is needed for all of them but the types:
with two relays on a pipe, output is missing from each client's stream
(`SessionShared`).

For `IInv`: that the server closes the pipe only after the terminal's end, and erases
the session after that, needs the places where a handler is in between (`EndInv`); that
a client is refused only then needs in addition that nobody polls before the
terminal has registered (`StartInv`), and that whoever has a socket to an answering
handler is in `Connect` or `PollReconnect` (`PlaceInv`).

For `SInv`: that no two relays use the pipe (`UseInv`) rests on there being one handler at a time between a
request and its answer, and none during a first contact (`FrontInv`, from
`ClientsTakeTurns`); and on a
request being read, while the pipe is in use, only after the connection in the
registry has lost its socket, so that the answer is `RETURNING_CLIENT` and no second
relay starts. That is where `ServerNoticesFirst` enters. For the output,
each piece is followed from the shell to the client: nothing is printed before there
is a relay (`OutputInv`), a process reads from the one connection that it owns
(`PayloadInv`, `OwnerInv`), and what is on a TCP connection continues what its reader
has read, up to what has been written (`LineInv`).

For `Durability`, each kind of step maps to one step of `DurableSession` or to none.
The output thread's write is an `Output`, which needs a registered session: a thread
writes only when a relay has sent the init packet (`OutputInv`), and there is no
relay before the registration (`StartInv`). What a client takes from its connection is
the next packet (`LineInv`). An answer to an unknown id refuses at most one process
(one has a socket to that handler), and none while the terminal lives; the registration
happens once, and the pipe's end and the entry's end come in that order (`EndInv`).
Losses, polls, recoveries and failed first contacts are invisible.

`PortForwardProofs` proves two groups of theorems, for any number of connections and
pieces and every setting of the switches. The first is about behaviours, not about
constants: those in which all tunnels are of one kind (`OneSource`), no handle is given out
that a map still has for a closed socket (`NoStaleHandle`), and no destination at the client
sends or hangs up before it has been sent to (`ReverseWaits`; the last two are conditions
on steps, `[][Undisturbed]_vars`). In all of these the `IInv` of `PortForwardInvariant`
is an invariant (`Invariance`), and `RightEntry`, `EveryPieceIsKept` and
`NoConnectionIsCut` hold. The code does not keep to them (see *Switches*, above): they
say what a user has to avoid, and each is necessary, since without any one of them
`TLC` finds a violation of `RightStream` or `NothingLost`.

The second group has no hypothesis: `TypeCorrect`, and `InOrder`. Also where both kinds
of tunnel have entries under one id, a handle is that of another connection by now, or a
destination has spoken too soon, whatever an application receives of any one sender has been
sent by it, in the order in which it was sent. Pieces may go astray, be missing, or come
twice, but are never invented or swapped. Behind
it is `OInv`: each connection has one source and one target side for good, so that what is
on its way of it goes to the side of the other end (`Ways`); ids and numbers are
given out in order and are no more than there were requests (`Numbers`); and of each
sender, what has been received is behind what is on its way, which is in order and
behind what has not been read (`Queues`, `Pieces`).

In `IInv`, the two maps are tied together
by `LinkInv`: from the response on, an id leads at both sides to the two ends of one
connection, or to a socket that is closed since its application hung up.
`DataInv` extends it to what is in flight: data finds its entry, or the response that
makes it is ahead in the same queue, which is why the destination at the client has
to wait, and why the one at the server has not (its loop sends the response before
it reads again). That needs what may follow what in a queue (`OrderInv`), that ids and
handles are given out once (`IdInv`, `HandleInv`), and where an unanswered request
stands (`RequestInv`, `ResponseInv`, `QuietInv`). `StreamInv` says that the pieces
an end has still to receive are exactly those in flight to it; that they are as many
as `NothingLost` counts is a bijection from the packets to the numbers of their
pieces. For `NoConnectionIsCut`, a "closed" is sent only by the side whose application
has hung up, after everything that was read from it (`CloseInv`).

`SshBootstrapProofs` proves that its `IInv` is an invariant (`Invariance`,
`TypeInvariance`), and from it `NoSshIsLeft`, without hypotheses. Where the client
stands says which handles it has, whichever way it came there, and it has handles of
every ssh that runs (`HandlesInv`): so it can end it on every way out.

`ServerLifeProofs` proves, for any set of terminals and any number of waiting clients,
that the `IInv` of `ServerLife` is an invariant, and from it `Woken` and `Clean`. For
`Woken`, that `Stop` sets the event before it connects (`StopInv`) is not enough: what
counts is that the worker looks at the event once more after it has an instance
that can be connected to, so that an instance created too late for `Stop` to find is
never waited on (`CheckAgain`); and that it has an instance exactly between
`CreateNamedPipe` and the end of a turn (`InstanceInv`). For `Clean`, the order of
`Stop`: no stage after a join has the thread that was joined (`ListenerInv`, `StopInv`),
and STOPPED is told after the job object is closed, or, if the start has failed, before,
but then nothing else is left.

`BuiltInUiProofs` proves, for any sets of names, settings and children, if the marks for
"no profile" and "no child" are none of these (`MarksDiffer`), that the `IInv` of
`BuiltInUi` is an invariant, and from it `Listed`. A live child that can be killed is the
one whose handle is kept (`LiveIsTracked`), and each kept handle belongs to a child
started for that name (`HandlesAreOwn`), so that stopping one never loses another.

`ClientProgramProofs` proves, for any characters, any limit on `pending_` and any
numbers of keys, packets and losses, that its `IInv` is an invariant (`Invariance`,
`TypeInvariance`), and from it `NoneSwallowed`. That no credit is negative is not
inductive: a prefix that is matched may be long. What counts is that of each
character at least as many have been shown, and not dropped, as `pending_` holds
(`CreditInv`); what is cut off at the limit or cleared only helps. The proof rests on
lemmas about the model's operators: a sequence has of a character what its two parts
have (`OccursSplit`), and what is matched is a prefix of both texts (`MatchFacts`, for
which a longest common prefix has to exist).

The inductive invariants hold on the instances of the runs, too: `TLC` accepts the
`IInv` of `PortForwardInvariant` and the `SInv` of `SessionInvariant` as `INVARIANT`s of
`PortForwardTunnel` and `SessionLife`. The runs check the properties that follow from
them.

Only model-checked are the liveness properties, since fairness and `ENABLED` are out
of the prover's reach: `AttemptsEnd`, `EventualDelivery` and `Reconnects` of `Recovery`,
`DeadConnectionIsReplaced` and `LocksAreReleased` of `ReconnectThreads`, `Delivery` and
`HangUpIsPassedOn` of `PortForward`, `OutputArrives` and `ClientLearnsOfTheEnd` of `Session`,
`StopEndsOrIsStuck` and `TellingRegisters` of `ServerLife`, `CommandEnds` and
`StopsOrListens` of `ClientProgram`, `ReadingEnds` of `SshBootstrap`. Every safety
property that a passing run checks is proved: those of `Session` about output under
`NoTakeover`, those of `PortForward` under its three hypotheses, which are also what the
runs assume; `LiveIsListed` and `OnlyTheProxyIsKept` for the modules that `UtMain` takes
them from.

## Plan

What would be worth adding next, in this order.

1. What takeovers do beyond splitting the output: a loss on the connection that was
   replaced, whose relay then writes for ever, a client that recovers another one's
   connection, two clients of one session whose terminal ends. And jump mode (a
   terminal that is itself a client).
2. Several sessions at one server, so that a handle closed twice
   (`Connection.cpp:116`, `TcpListener.cpp:154`) can be another session's.

## Not modelled

- `ReconnectionManager`, `Keepalive`, `MockServer`, `TcpClient`, `SubprocessUtils` and the
  terminal's `NamedPipeClient`: no program uses them; tests do, if anything does.
- `SshConfig` and `TunnelUtils`: functions of a text, without state, that the unit tests
  check; their outcomes (options or an error) are choices in the modules.
- Cryptography: a nonce either matches or not (`Recovery`).
- Console, file and environment access, the firewall rule, the installation of the
  service, the generated protobuf code, the web site.
- Data races on `std::unordered_map` (the registry, the port forwarding tables): no
  outcomes can be enumerated, and each call is taken as atomic.
- What happens after `main` of the server has returned while a detached handler
  still runs, and an exception in such a thread (`TcpListener.cpp:152`), which ends the
  process.
- `tests/integration_e2e_test.cpp` speaks a text protocol that this server does not have, and says
  nothing about the program modelled here.
