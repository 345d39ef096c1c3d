---------------------------- MODULE ClientProgram ----------------------------
(***************************************************************************)
(* The client process in connect mode, from ClientConnection::Connect to   *)
(* its exit: the main thread, which starts the others and joins them, and  *)
(* the threads for the keyboard, the output, the keepalives, the tunnels   *)
(* and the size of the window, which all look at one flag.                 *)
(*                                                                         *)
(* A client is a "shell" (interactive), runs a "command", or has "tunnel"s *)
(* only; connections other than a shell's are not made anew.  How that is  *)
(* done is the subject of Recovery and ReconnectThreads: here a lost       *)
(* connection is "broken" until somebody notices, then "down" until it is  *)
(* "up" again, and packets of a shell survive it.  A packet that has begun *)
(* to arrive is taken to arrive whole.                                     *)
(***************************************************************************)
EXTENDS Integers, Sequences, SequencesExt

CONSTANTS
  Chars,         \* printable characters
  Backspace,     \* the key that takes one back
  Control,       \* any other key: it is sent, and not predicted
  PendingLimit,  \* at most this many predictions are kept (4096)
  MaxKeys,       \* bound: keys typed
  MaxPackets,    \* bound: packets the server sends, echoed keepalives aside
  MaxLosses      \* bound: connections lost

ASSUME KeysAssumption == Backspace # Control /\ {Backspace, Control} \cap Chars = {}
ASSUME BoundsAssumption ==
  /\ PendingLimit \in Nat \ {0}
  /\ {MaxKeys, MaxPackets, MaxLosses} \subseteq Nat

VARIABLES
  mode,       \* "shell", "command" or "tunnel"
  command,    \* packets of the command (-c) still to be sent
  tunnels,    \* are there tunnels?
  predictive, \* --predictive-echo
  main,       \* where the main thread is
  running,    \* the flag
  input,      \* where the input thread is
  output,     \* where the output thread is
  keepalive,  \* where the keepalive thread is
  sender,     \* the forward and resize threads
  conn,       \* the connection
  shutdown,   \* shutting_down_
  inbox,      \* packets from the server that have not been read
  pending,    \* pending_: characters on the screen that await their echo
  credit,     \* per character: shown by the predictor, less echoes dropped
  typed,      \* bound: keys read so far
  packets,    \* bound: packets from the server so far
  losses      \* bound: connections lost so far

options == <<mode, tunnels, predictive>>
threads == <<input, output, keepalive, sender>>
echo == <<pending, credit>>
network == <<conn, shutdown, inbox>>
counts == <<typed, packets, losses>>
vars == <<options, command, main, running, threads, echo, network, counts>>

Senders == {"forward", "resize"}
Exits == {"exit0", "exit1", "aborted"}
NoThread == {"none", "ended"}
Texts == {<<c>> : c \in Chars} \cup (Chars \X Chars)
Out(s) == [kind |-> "buffer", text |-> s]
Alive == [kind |-> "keepalive", text |-> <<>>]
Tunnelled == [kind |-> "tunnel", text |-> <<>>]

TypeOK ==
  /\ mode \in {"shell", "command", "tunnel"} /\ tunnels \in BOOLEAN
  /\ predictive \in BOOLEAN /\ command \in 0..2
  /\ main \in {"connect", "initial", "response", "send", "keepalive",
               "tunnels", "start", "joinInput", "joinOutput", "joinRest"}
              \cup Exits
  /\ running \in BOOLEAN /\ shutdown \in BOOLEAN
  /\ input \in {"check", "read", "send"} \cup NoThread
  /\ output \in {"check", "recv", "reply"} \cup NoThread
  /\ keepalive \in {"sleep"} \cup NoThread
  /\ sender \in [Senders -> {"check", "send"} \cup NoThread]
  /\ conn \in {"none", "up", "broken", "down"}
  /\ inbox \in Seq({Out(s) : s \in Texts \cup {<<>>}} \cup {Alive, Tunnelled})
  /\ pending \in Seq(Chars) /\ credit \in [Chars -> Int]
  /\ typed \in 0..MaxKeys /\ packets \in 0..MaxPackets
  /\ losses \in 0..MaxLosses

(* The command line: a command with --noexit is a shell's first input; a   *)
(* command without it is followed by "exit".  The predictor has nothing   *)
(* in common with either tunnels or commands, and is tried without them.   *)
CommandLine ==
  /\ mode \in {"shell", "command", "tunnel"} /\ tunnels \in BOOLEAN
  /\ command \in (CASE mode = "shell" -> {0, 1}
                    [] mode = "command" -> {2}
                    [] mode = "tunnel" -> {0})
  /\ predictive \in BOOLEAN
  /\ predictive => mode = "shell" /\ command = 0 /\ ~tunnels

AtRest ==
  /\ running = TRUE
  /\ input = "none" /\ output = "none" /\ keepalive = "none"
  /\ sender = [s \in Senders |-> "none"]
  /\ conn = "none" /\ shutdown = FALSE /\ inbox = <<>>
  /\ pending = <<>> /\ credit = [c \in Chars |-> 0]
  /\ typed = 0 /\ packets = 0 /\ losses = 0

Init == CommandLine /\ main = "connect" /\ AtRest

-----------------------------------------------------------------------------
(* Connection::WritePacket tries until the connection is there; a write    *)
(* that fails counts, and closes the connection.                           *)
WritePacket ==
  /\ UNCHANGED <<shutdown, inbox>>
  /\ \/ (conn = "up" \/ shutdown) /\ UNCHANGED conn
     \/ conn = "broken" /\ ~shutdown /\ conn' = "down"

-----------------------------------------------------------------------------
(* The main thread.                                                        *)

(* A client that returns skips the first exchange, and its command.        *)
Connect ==
  /\ main = "connect"
  /\ \/ main' \in {"initial", "keepalive"} /\ conn' = "up"
     \/ main' = "exit1" /\ UNCHANGED conn
  /\ UNCHANGED <<options, command, running, threads, echo, shutdown, inbox,
                 counts>>

(* The reverse tunnels are in it, and may not parse.                       *)
SendInitialPayload ==
  /\ main = "initial"
  /\ \/ WritePacket /\ main' = "response"
     \/ tunnels /\ main' = "exit1" /\ UNCHANGED network
  /\ UNCHANGED <<options, command, running, threads, echo, counts>>

(* The server's answer, or an error, or another packet; or no connection.  *)
ReadInitialResponse ==
  /\ main = "response"
  /\ \/ conn = "up" /\ main' \in {"send", "exit1"} /\ UNCHANGED conn
     \/ conn \in {"broken", "down"} /\ main' = "exit1" /\ conn' = "down"
  /\ UNCHANGED <<options, command, running, threads, echo, shutdown, inbox,
                 counts>>

SendCommand ==
  /\ main = "send"
  /\ IF command = 0
     THEN main' = "keepalive" /\ UNCHANGED <<command, network>>
     ELSE command' = command - 1 /\ WritePacket /\ UNCHANGED main
  /\ UNCHANGED <<options, running, threads, echo, counts>>

StartKeepalive ==
  /\ main = "keepalive" /\ main' = "tunnels"
  /\ keepalive' = IF mode = "command" THEN "none" ELSE "sleep"
  /\ UNCHANGED <<options, command, running, input, output, sender, echo,
                 network, counts>>

(* A forward tunnel that cannot be parsed throws out of main; a listener   *)
(* that cannot be opened is passed over.                                   *)
OpenTunnels ==
  /\ main = "tunnels"
  /\ \/ main' = "start"
     \/ tunnels /\ main' = "aborted"
  /\ UNCHANGED <<options, command, running, threads, echo, network, counts>>

StartThreads ==
  /\ main = "start" /\ main' = "joinInput"
  /\ input' = IF mode = "shell" THEN "check" ELSE "none"
  /\ output' = "check"
  /\ sender' = [s \in Senders |->
                  CASE s = "resize" -> IF mode = "shell" THEN "send" ELSE "none"
                    [] s = "forward" -> IF tunnels THEN "check" ELSE "none"]
  /\ UNCHANGED <<options, command, running, keepalive, echo, network, counts>>

JoinInput ==
  /\ main = "joinInput" /\ input \in NoThread /\ main' = "joinOutput"
  /\ UNCHANGED <<options, command, running, threads, echo, network, counts>>

JoinOutput ==
  /\ main = "joinOutput" /\ output = "ended" /\ main' = "joinRest"
  /\ running' = FALSE
  /\ UNCHANGED <<options, command, threads, echo, network, counts>>

(* ~ClientConnection waits for the thread that makes a connection anew.    *)
JoinRest ==
  /\ main = "joinRest" /\ keepalive \in NoThread
  /\ \A s \in Senders : sender[s] \in NoThread
  /\ mode = "shell" => conn # "down"
  /\ main' = "exit0"
  /\ UNCHANGED <<options, command, running, threads, echo, network, counts>>

-----------------------------------------------------------------------------
(* The input thread.                                                       *)

(* ReadFile waits for a key; after the last one comes the end of the file. *)
InputCheck ==
  /\ input = "check" /\ input' = IF running THEN "read" ELSE "ended"
  /\ UNCHANGED <<options, command, main, running, output, keepalive, sender,
                 echo, network, counts>>

EndOfInput ==
  /\ input = "read" /\ input' = "ended" /\ running' = FALSE
  /\ UNCHANGED <<options, command, main, output, keepalive, sender, echo,
                 network, counts>>

(* OnLocalInput: the newest predictions stay.  What the key is matters to  *)
(* the predictor alone.                                                    *)
Newest(s) ==
  IF Len(s) > PendingLimit
  THEN SubSeq(s, Len(s) - PendingLimit + 1, Len(s)) ELSE s

Predict(key) ==
  CASE key \in Chars ->
         /\ pending' = Newest(Append(pending, key))
         /\ credit' = [credit EXCEPT ![key] = @ + 1]
    [] key = Backspace /\ pending # <<>> ->
         /\ pending' = Front(pending)
         /\ credit' = [credit EXCEPT ![Last(pending)] = @ - 1]
    [] OTHER -> UNCHANGED echo

ReadKey ==
  /\ input = "read" /\ typed < MaxKeys
  /\ IF predictive THEN \E key \in Chars \cup {Backspace, Control} : Predict(key)
                   ELSE UNCHANGED echo
  /\ input' = "send" /\ typed' = typed + 1
  /\ UNCHANGED <<options, command, main, running, output, keepalive, sender,
                 network, packets, losses>>

SendKey ==
  /\ input = "send" /\ WritePacket /\ input' = "check"
  /\ UNCHANGED <<options, command, main, running, output, keepalive, sender,
                 echo, counts>>

-----------------------------------------------------------------------------
(* The output thread.  With a command it reads only what is there, and     *)
(* ends by a timeout; otherwise it blocks in recv.                         *)

OutputUnchanged == UNCHANGED <<options, command, main, input, keepalive,
                               sender, counts>>

OutputCheckBlocks ==
  /\ output = "check" /\ output' = IF running THEN "recv" ELSE "ended"
  /\ UNCHANGED <<running, pending, credit, network>> /\ OutputUnchanged

OutputCheck ==
  /\ output = "check"
  /\ \/ ~running /\ output' = "ended"
     \/ running /\ mode # "command" /\ output' = "recv"
     \/ running /\ mode = "command" /\ output' = "recv"
        /\ \/ conn = "up" /\ inbox # <<>>
           \/ conn = "broken"
  /\ UNCHANGED <<running, pending, credit, network>> /\ OutputUnchanged

(* No output for 5 seconds, or no more for 500 milliseconds.               *)
CommandTimeout ==
  /\ output = "check" /\ mode = "command" /\ running
  /\ (conn = "up" /\ inbox = <<>>) \/ conn = "down"
  /\ output' = "ended" /\ running' = FALSE
  /\ shutdown' = TRUE /\ conn' = "down"
  /\ UNCHANGED <<inbox, pending, credit>> /\ OutputUnchanged

(* OnRemoteOutput drops the longest common prefix; a mismatch clears.      *)
Match(s) == Len(LongestCommonPrefix({s, pending}))
Occurs(c, s) == Cardinality({k \in DOMAIN s : s[k] = c})

TakeEchoKeeps(s) ==
  IF predictive /\ Match(s) > 0
  THEN /\ UNCHANGED pending
       /\ credit' = [c \in Chars |->
                       credit[c] - Occurs(c, SubSeq(s, 1, Match(s)))]
  ELSE pending' = <<>> /\ UNCHANGED credit

TakeEcho(s) ==
  IF predictive /\ Match(s) > 0
  THEN /\ pending' = SubSeq(pending, Match(s) + 1, Len(pending))
       /\ credit' = [c \in Chars |->
                       credit[c] - Occurs(c, SubSeq(s, 1, Match(s)))]
  ELSE pending' = <<>> /\ UNCHANGED credit

Receive ==
  /\ output = "recv" /\ conn \in {"up", "broken"} /\ inbox # <<>>
  /\ inbox' = Tail(inbox)
  /\ CASE Head(inbox).kind = "buffer" /\ mode # "tunnel" ->
            TakeEcho(Head(inbox).text) /\ output' = "check"
       [] Head(inbox).kind = "tunnel" ->
            output' \in {"check", "reply"} /\ UNCHANGED <<pending, credit>>
       [] OTHER -> output' = "check" /\ UNCHANGED <<pending, credit>>
  /\ UNCHANGED <<running, conn, shutdown>> /\ OutputUnchanged

(* recv fails, or there is no socket to receive from.                      *)
ReceiveFails ==
  /\ output = "recv" /\ conn \in {"broken", "down"}
  /\ output' = "check" /\ conn' = "down"
  /\ UNCHANGED <<running, shutdown, inbox, pending, credit>> /\ OutputUnchanged

(* HandlePacket sends an answer from the output thread.                    *)
Reply ==
  /\ output = "reply" /\ WritePacket /\ output' = "check"
  /\ UNCHANGED <<running, pending, credit>> /\ OutputUnchanged

-----------------------------------------------------------------------------
(* The other threads.                                                      *)

(* One try of Write, echoed by the server if it arrives; then, after 15    *)
(* seconds without a packet, the connection is closed, unless the output   *)
(* thread is in recv on it: CloseSocket waits for its lock.                *)
KeepAlive ==
  /\ keepalive = "sleep"
  /\ IF ~running THEN keepalive' = "ended" /\ UNCHANGED network
     ELSE /\ UNCHANGED <<keepalive, shutdown>>
          /\ \/ conn = "up" /\ UNCHANGED conn
                /\ inbox' = IF inbox = <<>> THEN <<Alive>> ELSE inbox
             \/ conn = "up" /\ output # "recv" /\ conn' = "down"
                /\ UNCHANGED inbox
             \/ conn \in {"broken", "down"} /\ conn' = "down"
                /\ UNCHANGED inbox
  /\ UNCHANGED <<options, command, main, running, input, output, sender, echo,
                 counts>>

SenderGoesOn(s) ==
  /\ sender[s] = "check" /\ sender' = [sender EXCEPT ![s] = "send"]
  /\ UNCHANGED <<options, command, main, running, input, output, keepalive,
                 echo, network, counts>>

(* Update and GetConsoleSize, which find something to send, or nothing.    *)
SenderCheck(s) ==
  /\ sender[s] = "check"
  /\ IF running THEN sender' = [sender EXCEPT ![s] = "send"]
                ELSE sender' = [sender EXCEPT ![s] = "ended"]
  /\ UNCHANGED <<options, command, main, running, input, output, keepalive,
                 echo, network, counts>>

SenderSend(s) ==
  /\ sender[s] = "send" /\ WritePacket
  /\ sender' = [sender EXCEPT ![s] = "check"]
  /\ UNCHANGED <<options, command, main, running, input, output, keepalive,
                 echo, counts>>

-----------------------------------------------------------------------------
(* The network and the server.  What a text is matters to the predictor.   *)

ServerSends ==
  /\ conn = "up" /\ packets < MaxPackets
  /\ main \notin {"initial", "response"}
  /\ \E s \in IF predictive THEN Texts ELSE {<<>>} :
       inbox' = Append(inbox, Out(s)) \/ (tunnels /\ inbox' = Append(inbox, Tunnelled))
  /\ packets' = packets + 1
  /\ UNCHANGED <<options, command, main, running, threads, echo, conn,
                 shutdown, typed, losses>>

(* The predictor sees the same text when packets have been recovered, and  *)
(* is tried without losses.                                                *)
Lose ==
  /\ conn = "up" /\ losses < MaxLosses /\ ~predictive
  /\ conn' = "broken"
  /\ losses' = losses + 1
  /\ UNCHANGED <<options, command, main, running, threads, echo, shutdown,
                 inbox, typed, packets>>

(* SetReconnectEnabled(interactive).                                       *)
Reconnect ==
  /\ mode = "shell" /\ conn = "down" /\ conn' = "up"
  /\ UNCHANGED <<options, command, main, running, threads, echo, shutdown,
                 inbox, counts>>

-----------------------------------------------------------------------------
Working == main \notin Exits
MainStep ==
  \/ Connect \/ SendInitialPayload \/ ReadInitialResponse \/ SendCommand
  \/ StartKeepalive \/ OpenTunnels \/ StartThreads \/ JoinInput \/ JoinOutput \/ JoinRest
InputStep == InputCheck \/ SendKey
OutputStep ==
  OutputCheck \/ CommandTimeout \/ Receive \/ ReceiveFails \/ Reply
SenderStep(s) == SenderCheck(s) \/ SenderSend(s)

Next ==
  Working /\ \/ MainStep
             \/ InputStep \/ ReadKey \/ EndOfInput
             \/ OutputStep
             \/ KeepAlive
             \/ \E s \in Senders : SenderStep(s)
             \/ ServerSends \/ Lose \/ Reconnect

Spec == Init /\ [][Next]_vars

(* Threads run and the network comes back; nobody has to type or to send,  *)
(* and the server need not answer the first packet.                        *)
AwaitsResponse == main = "response" /\ conn = "up"
Fairness ==
  /\ WF_vars(Working /\ MainStep /\ ~AwaitsResponse) /\ WF_vars(Working /\ InputStep)
  /\ WF_vars(Working /\ OutputStep) /\ WF_vars(Working /\ KeepAlive)
  /\ \A s \in Senders : WF_vars(Working /\ SenderStep(s))
  /\ WF_vars(Working /\ Reconnect)

-----------------------------------------------------------------------------
(* PredictiveEcho (main.cpp:124-185) never drops more of a character from  *)
(* the output than it has put on the screen itself: whatever is typed,     *)
(* taken back and printed in between, no character of the server's output  *)
(* is swallowed.                                                           *)
NothingIsSwallowed == \A c \in Chars : credit[c] >= 0

(* A command's client that has been let in ends, also when the server      *)
(* falls silent, never prints anything or is lost (main.cpp:1168-1334);    *)
(* but not if it has something to write on a lost connection, which nobody *)
(* makes anew: the command itself, or an answer of the output thread, with *)
(* which its timeouts are gone.                                            *)
WritesForEver ==
  /\ conn = "down" /\ mode # "shell" /\ ~shutdown
  /\ (main = "send" /\ command > 0) \/ output = "reply"
CommandEnds ==
  mode = "command" /\ main \notin {"connect", "initial", "response"}
    ~> (main \in Exits \/ WritesForEver)

(* Once the flag is cleared, every thread ends and the client exits, or    *)
(* its output thread waits in recv for a server that has nothing to say:   *)
(* the end of the input does not wake it, and the keepalive thread, whose  *)
(* echo would, has ended (main.cpp:1336-1337, 1203-1207).                  *)
Listening == output = "recv" /\ conn = "up" /\ inbox = <<>>
StopsOrListens == ~running ~> (main = "exit0" \/ Listening \/ WritesForEver)
=============================================================================
