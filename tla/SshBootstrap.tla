---------------------------- MODULE SshBootstrap ----------------------------
(***************************************************************************)
(* A client started with --ssh, up to its connection: it starts a terminal *)
(* on the target through ssh.exe, reads the id and passkey the terminal    *)
(* prints, ends ssh and connects.  With a jumphost it starts a second      *)
(* terminal there, which registers the same id, and keeps that ssh.        *)
(*                                                                         *)
(* The standard output and the standard error of ssh and of the remote     *)
(* command arrive in one pipe, of which the client reads the first line.   *)
(* A line is "id" (the terminal's), "text", or "path", a text with a slash *)
(* in it; the client takes what stands around a slash for id and passkey.  *)
(* The remote command is echo '...' | terminal: cmd.exe echoes the quotes  *)
(* too, other shells do not.                                               *)
(***************************************************************************)
EXTENDS Sequences

Links == {"target", "jumphost"}   \* the two runs of ssh and their terminals
Texts == {"text", "path"}

VARIABLES
  jump,        \* --jumphost is given
  tmux,        \* --tmux is given
  quotes,      \* the remote shell leaves the quotes in what it echoes
  main,        \* where the client is
  reply,       \* idpasskey_reply: a line, or "seed", what the client sent
  ssh,         \* per link: the ssh process
  handles,     \* per link: handles the client has open
  lines,       \* what stands unread in the pipe of the first ssh
  warned,      \* the first ssh has written a line of its own
  term,        \* per link: the terminal process
  registered   \* links whose server has the terminal in its registry

options == <<jump, tmux, quotes>>
client == <<main, reply, handles>>
remote == <<term, registered>>
vars == <<options, client, ssh, lines, warned, remote>>

Kept == {"process", "thread", "stdin", "stdout"}

TypeOK ==
  /\ jump \in BOOLEAN /\ tmux \in BOOLEAN /\ quotes \in BOOLEAN
  /\ main \in {"options", "start", "read", "terminate", "parse", "proxy",
               "tunnels", "connect", "session", "exit"}
  /\ reply \in {"none", "id", "seed"} \cup Texts
  /\ ssh \in [Links -> {"none", "live", "ended"}]
  /\ handles \in [Links -> SUBSET (Kept \cup {"childStdout"})]
  /\ lines \in Seq({"id"} \cup Texts) /\ warned \in BOOLEAN
  /\ term \in [Links -> {"none", "started", "printed", "connected", "gone"}]
  /\ registered \subseteq Links

CommandLine == jump \in BOOLEAN /\ tmux \in BOOLEAN /\ quotes \in BOOLEAN

AtRest ==
  /\ reply = "none"
  /\ ssh = [k \in Links |-> "none"] /\ handles = [k \in Links |-> {}]
  /\ lines = <<>> /\ warned = FALSE
  /\ term = [k \in Links |-> "none"] /\ registered = {}

Init == CommandLine /\ main = "options" /\ AtRest

-----------------------------------------------------------------------------
(* SshSubprocess.                                                          *)

Ended(k) == IF ssh[k] = "live" THEN "ended" ELSE ssh[k]

TerminateLater(k) == k \in Links /\ UNCHANGED <<ssh, handles>>

(* The destructors of both end what still runs.                            *)
Exit ==
  /\ main' = "exit" /\ handles' = [k \in Links |-> {}]
  /\ ssh' = [k \in Links |-> Ended(k)]

SucceedKeepingEnds(k) ==
  /\ ~tmux
  /\ ssh' = [ssh EXCEPT ![k] = "live"]
  /\ handles' = [handles EXCEPT ![k] = Kept \cup {"childStdout"}]

(* Two pipes and a process, whose ends of the pipes are closed here: only  *)
(* so the end of ssh is the end of the file.  Build takes no command with  *)
(* a quote in it, and WrapWithTmux puts the command in quotes.             *)
Succeed(k) ==
  /\ ~tmux
  /\ ssh' = [ssh EXCEPT ![k] = "live"]
  /\ handles' = [handles EXCEPT ![k] = Kept]

(* What one of the three calls has opened is closed when another fails.    *)
Start(k, next) == Exit \/ (Succeed(k) /\ main' = next)

Terminate(k) ==
  /\ ssh' = [ssh EXCEPT ![k] = Ended(k)]
  /\ handles' = [handles EXCEPT ![k] = {}]

-----------------------------------------------------------------------------
(* The client.                                                             *)

(* An error in ssh_config, or options that exclude each other.             *)
ReadOptions ==
  /\ main = "options"
  /\ \/ Exit
     \/ main' = "start" /\ UNCHANGED <<handles, ssh>>
  /\ UNCHANGED <<options, reply, lines, warned, remote>>

StartSsh ==
  /\ main = "start" /\ Start("target", "read")
  /\ UNCHANGED <<options, reply, lines, warned, remote>>

(* ReadLineFromSsh blocks until there is a line or nobody can write one;   *)
(* then the client goes on with the id it has sent.                        *)
CanBeWritten == ssh["target"] = "live" \/ "childStdout" \in handles["target"]

ReadLine ==
  /\ main = "read" /\ main' = "terminate"
  /\ \/ lines # <<>> /\ reply' = Head(lines) /\ lines' = Tail(lines)
     \/ lines = <<>> /\ ~CanBeWritten /\ reply' = "seed" /\ UNCHANGED lines
  /\ UNCHANGED <<options, handles, ssh, warned, remote>>

TerminateSsh ==
  /\ main = "terminate" /\ main' = "parse"
  /\ Terminate("target")
  /\ UNCHANGED <<options, reply, lines, warned, remote>>

ParseReply ==
  /\ main = "parse"
  /\ IF reply = "text" THEN Exit
     ELSE /\ main' = IF jump THEN "proxy" ELSE "tunnels"
          /\ UNCHANGED <<handles, ssh>>
  /\ UNCHANGED <<options, reply, lines, warned, remote>>

StartJump ==
  /\ main = "proxy" /\ Start("jumphost", "tunnels")
  /\ UNCHANGED <<options, reply, lines, warned, remote>>

ParseTunnels ==
  /\ main = "tunnels"
  /\ \/ Exit
     \/ main' = "connect" /\ UNCHANGED <<handles, ssh>>
  /\ UNCHANGED <<options, reply, lines, warned, remote>>

(* The client waits for no terminal to be registered: a server that does   *)
(* not know the id yet turns it away for good.  A jumphost's terminal      *)
(* takes the id it is given, unless that is a seed.                        *)
Known ==
  IF jump THEN ~quotes /\ reply # "seed" /\ "jumphost" \in registered
          ELSE reply = "id" /\ "target" \in registered

Connect ==
  /\ main = "connect"
  /\ \/ Exit
     \/ Known /\ main' = "session" /\ UNCHANGED <<handles, ssh>>
  /\ UNCHANGED <<options, reply, lines, warned, remote>>

LeaveSession ==
  /\ main = "session" /\ Exit
  /\ UNCHANGED <<options, reply, lines, warned, remote>>

-----------------------------------------------------------------------------
(* ssh.exe and sshd.                                                       *)

(* What ssh itself says first: a new host key, a banner.                   *)
Warn ==
  /\ ssh["target"] = "live" /\ ~warned /\ term["target"] = "none"
  /\ warned' = TRUE /\ \E t \in Texts : lines' = Append(lines, t)
  /\ UNCHANGED <<options, client, ssh, remote>>

RunCommand(k) ==
  /\ ssh[k] = "live" /\ term[k] = "none"
  /\ term' = [term EXCEPT ![k] = "started"]
  /\ UNCHANGED <<options, client, ssh, lines, warned, registered>>

(* No login or no network; or the remote command has ended.                *)
SshEnds(k) ==
  /\ ssh[k] = "live" /\ term[k] \in {"none", "gone"}
  /\ ssh' = [ssh EXCEPT ![k] = "ended"]
  /\ UNCHANGED <<options, client, lines, warned, remote>>

(* sshd may end what a connection that is gone has started.                *)
SshdEnds(k) ==
  /\ ssh[k] = "ended" /\ term[k] \notin {"none", "gone"}
  /\ term' = [term EXCEPT ![k] = "gone"]
  /\ UNCHANGED <<options, client, ssh, lines, warned, registered>>

-----------------------------------------------------------------------------
(* The terminals.                                                          *)

Says(k, line) ==
  lines' = IF k = "target" /\ ssh[k] = "live" THEN Append(lines, line) ELSE lines

(* A terminal makes up an id for a seed, and prints it; what begins with a *)
(* quote is no seed, but the id itself.                                    *)
PrintId(k) ==
  /\ term[k] = "started" /\ term' = [term EXCEPT ![k] = "printed"]
  /\ IF quotes THEN UNCHANGED lines ELSE Says(k, "id")
  /\ UNCHANGED <<options, client, ssh, warned, registered>>

ConnectPipe(k) ==
  /\ term[k] = "printed"
  /\ \/ term' = [term EXCEPT ![k] = "connected"] /\ UNCHANGED lines
     \/ term' = [term EXCEPT ![k] = "gone"] /\ Says(k, "text")
  /\ UNCHANGED <<options, client, ssh, warned, registered>>

(* The server's worker has read its TERMINAL_USER_INFO.                    *)
Register(k) ==
  /\ term[k] = "connected" /\ k \notin registered
  /\ registered' = registered \cup {k}
  /\ UNCHANGED <<options, client, ssh, lines, warned, term>>

-----------------------------------------------------------------------------
MainStep ==
  \/ ReadOptions \/ StartSsh \/ ReadLine \/ TerminateSsh \/ ParseReply
  \/ StartJump \/ ParseTunnels \/ Connect
TerminalStep(k) == PrintId(k) \/ ConnectPipe(k) \/ Register(k)

Next ==
  \/ MainStep \/ LeaveSession
  \/ Warn
  \/ \E k \in Links :
       RunCommand(k) \/ SshEnds(k) \/ SshdEnds(k) \/ TerminalStep(k)

Spec == Init /\ [][Next]_vars

(* Programs run, and ssh ends after its command; it may wait for the       *)
(* network as long as it likes, and a session may last.                    *)
Fairness ==
  /\ WF_vars(MainStep)
  /\ \A k \in Links :
       /\ WF_vars(TerminalStep(k))
       /\ WF_vars(SshEnds(k) /\ term[k] = "gone")

-----------------------------------------------------------------------------
(* Whichever of the returns between main.cpp:602 and 741 the client takes, *)
(* or after its session, no ssh of its own still runs, with a terminal     *)
(* behind it that nobody will connect to, and no handle is open; during a  *)
(* session only those of the ssh that keeps the jumphost's terminal.       *)
OnlyTheProxyIsKept ==
  /\ main \in {"session", "exit"} =>
       ssh["target"] # "live" /\ handles["target"] = {}
  /\ main = "session" => handles["jumphost"] = IF jump THEN Kept ELSE {}
  /\ main = "exit" => ssh["jumphost"] # "live" /\ handles["jumphost"] = {}

(* The client does not wait for its id for ever: not when ssh is refused   *)
(* or dies, and not when the terminal cannot be started or ends without a  *)
(* word; only for an ssh that neither gets through nor gives up, and for a *)
(* terminal that has registered the quoted seed and has nothing to print   *)
(* (main.cpp:64, 636, 666).                                                *)
NothingToRead ==
  /\ ssh["target"] = "live" /\ lines = <<>>
  /\ term["target"] = "none" \/ (quotes /\ term["target"] = "connected")
ReadingEnds == main = "read" ~> (main # "read" \/ NothingToRead)
=============================================================================
