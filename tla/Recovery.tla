------------------------------ MODULE Recovery ------------------------------
(***************************************************************************)
(* The reconnecting byte stream of Undying Terminal: a client's            *)
(* ClientConnection and the ServerClientConnection that the server's       *)
(* ClientRegistry keeps for it, each with a BackedWriter and a             *)
(* BackedReader, over TCP connections that break.                          *)
(*                                                                         *)
(* The model starts when the initial handshake is done.  A step of the     *)
(* model is what one call does between two points where another thread or  *)
(* the other process can be seen to act:                                   *)
(*   - Connection::Write holds mutex_ throughout: one step;                *)
(*   - Connection::Recover holds mutex_ and both recover_mutexes from its  *)
(*     first to its last line, but waits twice for the peer: one step up   *)
(*     to each wait.  While attempt[s] is a connection the locks of side s *)
(*     are held, and no other operation of that side can start;            *)
(*   - BackedReader::Read holds its recover_mutex: one step per message.   *)
(*                                                                         *)
(* A packet is named by its position in its writer's stream, which is also *)
(* the nonce it is encrypted under (CryptoHandler increments the nonce in  *)
(* every Encrypt and every Decrypt).  Payloads are left out; a packet has  *)
(* a length because the backup buffer is bounded in bytes.                 *)
(*                                                                         *)
(* TCP: a connection delivers, in order, a prefix of what was written to   *)
(* it; after Break nothing more crosses it, and a side may or may not      *)
(* notice.                                                                 *)
(***************************************************************************)
EXTENDS Integers, Sequences, FiniteSets

CONSTANTS
  Conns,               \* handles of TCP connections; a closed one is reused
  NoConn,              \* kInvalidSocket
  Lengths,             \* values of Packet::length()
  MaxBackupBytes,      \* kMaxBackupBytes (UtConstants.hpp)
  HalfRange,           \* 2^31: SequenceHeader carries an int32
  MaxPackets,          \* bound: packets written per side
  MaxFaults,           \* bound: breaks, timeouts and closings by a keepalive
  ServerNoticesFirst   \* assume that the server has noticed a lost
                       \* connection before it reads the next request

ASSUME ConnsAssumption == NoConn \notin Conns
ASSUME LengthsAssumption == Lengths \subseteq Nat \ {0}
ASSUME BackupAssumption == MaxBackupBytes \in Nat
ASSUME RangeAssumption == HalfRange \in Nat /\ MaxBackupBytes < 2 * HalfRange
ASSUME BoundsAssumption == MaxPackets \in Nat /\ MaxFaults \in Nat
ASSUME NoticeAssumption == ServerNoticesFirst \in BOOLEAN

Sides == {"client", "server"}

Peer(s) == IF s = "client" THEN "server" ELSE "client"

VARIABLES
  \* Connection and the locks it holds
  socket,        \* socket_ of the connection, its reader and its writer
  attempt,       \* the new_socket of the attempt that holds the locks
  stage,         \* what that attempt waits for
  shuttingDown,  \* shutting_down_ of the client
  \* BackedWriter
  written,       \* per packet ever written: bytes up to and including it
  evicted,       \* packets that have left backup_buffer_
  \* BackedReader
  rseq,          \* sequence_number_
  localBuffer,   \* local_buffer_
  partial,       \* the packet of which partial_message_ holds a part, or 0
  delivered,     \* history: what Read returned, 0 where Decrypt threw
  \* the network
  toward,        \* toward[s][c]: messages in flight to side s on c
  open,          \* open[s]: connections of which side s has its end open
  broken,        \* connections that carry nothing any more
  \* the server's handler threads and ClientRegistry
  requests,      \* accepted connections whose ConnectRequest is not handled
  pending,       \* handlers that answered RETURNING_CLIENT and wait for mutex_
  registry,      \* "kept", "replaced" by a NEW_CLIENT, or "erased"
  faults         \* bound: faults so far

sideVars == <<socket, attempt, stage, shuttingDown>>
writerVars == <<written, evicted>>
readerVars == <<rseq, localBuffer, partial, delivered>>
netVars == <<toward, open, broken>>
serverVars == <<requests, pending, registry>>
vars == <<sideVars, writerVars, readerVars, netVars, serverVars, faults>>

Stages == {"idle", "response", "header", "catchup"}

Kinds == {"NEW_CLIENT", "RETURNING_CLIENT", "INVALID_KEY",
          "header", "catchup", "packet"}

Message == [kind : Kinds, num : Int, buf : Seq(Int)]

(* ConnectResponse, SequenceHeader, CatchupBuffer and a framed Packet.     *)
Response(status) == [kind |-> status, num |-> 0, buf |-> <<>>]
SequenceHeader(n) == [kind |-> "header", num |-> n, buf |-> <<>>]
CatchupBuffer(b) == [kind |-> "catchup", num |-> 0, buf |-> b]
Framed(n) == [kind |-> "packet", num |-> n, buf |-> <<>>]

(* static_cast<int32_t> of a sequence number.                              *)
ToInt32(n) == n - 2 * HalfRange * ((n + HalfRange) \div (2 * HalfRange))

-----------------------------------------------------------------------------
(* The backup buffer: packets evicted[s]+1 .. Len(written[s]).             *)

BytesUpTo(w, n) == IF n = 0 THEN 0 ELSE w[n]

TotalBytes(w) == BytesUpTo(w, Len(w))

(* Of a backup that has written w, n packets have left: the oldest go      *)
(* until the rest fits, the packet just written included when it alone     *)
(* does not.                                                               *)
Evicts(w, gone, n) ==
  /\ n \in gone .. Len(w)
  /\ TotalBytes(w) - BytesUpTo(w, n) <= MaxBackupBytes
  /\ \A m \in gone .. n - 1 :
       TotalBytes(w) - BytesUpTo(w, m) > MaxBackupBytes

(* Mutants: Recover does not look at the socket; stops one packet short;   *)
(* has no early return for an empty backlog; leaves out the last packet.   *)
CanRecover_NoSocketCheck(s, remote) ==
  LET need == Len(written[s]) - remote
  IN  need >= 0 /\ need <= Len(written[s]) - evicted[s]

CanRecover_OffByOne(s, remote) ==
  LET need == Len(written[s]) - remote
  IN  socket[s] = NoConn /\ need >= 0 /\ need < Len(written[s]) - evicted[s]

CanRecover_NeverEmpty(s, remote) ==
  LET need == Len(written[s]) - remote
  IN  socket[s] = NoConn /\ need > 0 /\ need <= Len(written[s]) - evicted[s]

Recovered_DropsLast(s, remote) ==
  [k \in 1 .. Len(written[s]) - remote - 1 |-> remote + k]

(* The three outcomes of BackedWriter::Recover: it throws, or returns the  *)
(* newest `need' packets, oldest first.                                    *)
CanRecover(s, remote) ==
  LET need == Len(written[s]) - remote
  IN  /\ socket[s] = NoConn
      /\ need >= 0
      /\ need <= Len(written[s]) - evicted[s]

Recovered(s, remote) ==
  [k \in 1 .. Len(written[s]) - remote |-> remote + k]

-----------------------------------------------------------------------------
(* The network.                                                            *)

Carries(s, c) == c \notin broken /\ c \in open[Peer(s)]

(* What the streams `net' become when side s sends m on c: a message on a   *)
(* connection that carries nothing is lost without notice.                 *)
Sent(net, s, c, m) ==
  IF Carries(s, c) THEN [net EXCEPT ![Peer(s)][c] = Append(@, m)] ELSE net

Closed(s, c) == [open EXCEPT ![s] = @ \ {c}]

Arrived(s, c, k) == toward[s][c] # <<>> /\ Head(toward[s][c]).kind = k

Consumed(s, c) == [toward EXCEPT ![s][c] = Tail(@)]

(* Side s takes the message at the head of its stream and answers it.      *)
Replied(s, c, m) == Sent(Consumed(s, c), s, c, m)

(* Mutant: an orderly close by the peer (recv returns 0) goes unnoticed.   *)
Dry_IgnoresClose(s, c) == toward[s][c] = <<>> /\ c \in broken

(* A read that finds nothing left and nothing to come: recv returns 0 or   *)
(* an error.                                                               *)
Dry(s, c) ==
  toward[s][c] = <<>> /\ (c \in broken \/ c \notin open[Peer(s)])

InUse == {socket[s] : s \in Sides} \cup {attempt[s] : s \in Sides}
           \cup requests \cup pending

-----------------------------------------------------------------------------
Init ==
  \E c \in Conns, l \in [Sides -> {l \in Lengths : l <= MaxBackupBytes}] :
    /\ socket = [s \in Sides |-> c]
    /\ attempt = [s \in Sides |-> NoConn]
    /\ stage = [s \in Sides |-> "idle"]
    /\ shuttingDown = FALSE
    /\ written = [s \in Sides |-> <<l[s]>>]
    /\ evicted = [s \in Sides |-> 0]
    /\ rseq = [s \in Sides |-> 1]
    /\ localBuffer = [s \in Sides |-> <<>>]
    /\ partial = [s \in Sides |-> 0]
    /\ delivered = [s \in Sides |-> <<1>>]
    /\ toward = [s \in Sides |-> [d \in Conns |-> <<>>]]
    /\ open = [s \in Sides |-> {c}]
    /\ broken = {}
    /\ requests = {}
    /\ pending = {}
    /\ registry = "kept"
    /\ faults = 0

(* Side s runs, has a connection, and no attempt holds its locks.          *)
Up(s) ==
  /\ socket[s] # NoConn
  /\ attempt[s] = NoConn
  /\ IF s = "client" THEN ~shuttingDown ELSE registry # "erased"

(* Connection::CloseSocket.                                                *)
CloseSocket(s) ==
  /\ socket' = [socket EXCEPT ![s] = NoConn]
  /\ open' = Closed(s, socket[s])

-----------------------------------------------------------------------------
(* Writing                                                                 *)

(* The part of BackedWriter::Write under recover_mutex_: encrypt, keep a   *)
(* copy, count, evict.                                                     *)
BackUp(s, len) ==
  LET w == Append(written[s], TotalBytes(written[s]) + len)
  IN  /\ Len(written[s]) < MaxPackets
      /\ written' = [written EXCEPT ![s] = w]
      /\ \E n \in 0 .. Len(w) :
           /\ Evicts(w, evicted[s], n)
           /\ evicted' = [evicted EXCEPT ![s] = n]

(* BackedWriter::Write returns Success: the bytes are in the send buffer   *)
(* of the connection, which may still lose them.                           *)
Write(s, len) ==
  /\ Up(s)
  /\ BackUp(s, len)
  /\ toward' = Sent(toward, s, socket[s], Framed(Len(written[s]) + 1))
  /\ UNCHANGED <<sideVars, readerVars, open, broken, serverVars, faults>>

(* It returns WroteWithFailure: the packet is kept for the next recovery,  *)
(* and the connection is closed before mutex_ is released.                 *)
WriteFails(s, len) ==
  /\ Up(s)
  /\ ~Carries(s, socket[s])
  /\ BackUp(s, len)
  /\ CloseSocket(s)
  /\ UNCHANGED <<attempt, stage, shuttingDown, readerVars, toward, broken,
                 serverVars, faults>>

-----------------------------------------------------------------------------
(* Reading                                                                 *)

(* Decrypt under the reader's nonce: it throws unless the packet was       *)
(* encrypted under the same one.                                           *)
Decrypt(s, n) == IF n = Len(delivered[s]) + 1 THEN n ELSE 0

(* Mutant: a packet from local_buffer_ is counted a second time.           *)
ReadLocal_CountsAgain(s) ==
  /\ Up(s)
  /\ localBuffer[s] # <<>>
  /\ delivered' = [delivered EXCEPT ![s] =
                     Append(@, Decrypt(s, Head(localBuffer[s])))]
  /\ localBuffer' = [localBuffer EXCEPT ![s] = Tail(@)]
  /\ rseq' = [rseq EXCEPT ![s] = @ + 1]
  /\ UNCHANGED <<sideVars, writerVars, partial, netVars, serverVars, faults>>

(* A packet that a recovery brought.                                       *)
ReadLocal(s) ==
  /\ Up(s)
  /\ localBuffer[s] # <<>>
  /\ delivered' = [delivered EXCEPT ![s] =
                     Append(@, Decrypt(s, Head(localBuffer[s])))]
  /\ localBuffer' = [localBuffer EXCEPT ![s] = Tail(@)]
  /\ UNCHANGED <<sideVars, writerVars, rseq, partial, netVars, serverVars,
                 faults>>

(* recv returns some of the bytes of the next packet.                      *)
ReadPart(s) ==
  /\ Up(s)
  /\ localBuffer[s] = <<>>
  /\ Arrived(s, socket[s], "packet")
  /\ partial[s] = 0
  /\ partial' = [partial EXCEPT ![s] = Head(toward[s][socket[s]]).num]
  /\ UNCHANGED <<sideVars, writerVars, rseq, localBuffer, delivered, netVars,
                 serverVars, faults>>

(* recv completes a packet.  Bytes kept from another packet would make it  *)
(* one that cannot be decrypted.                                           *)
ReadWire(s) ==
  LET n == Head(toward[s][socket[s]]).num
  IN  /\ Up(s)
      /\ localBuffer[s] = <<>>
      /\ Arrived(s, socket[s], "packet")
      /\ delivered' = [delivered EXCEPT ![s] =
                         Append(@, IF partial[s] \in {0, n}
                                   THEN Decrypt(s, n) ELSE 0)]
      /\ rseq' = [rseq EXCEPT ![s] = @ + 1]
      /\ partial' = [partial EXCEPT ![s] = 0]
      /\ toward' = Consumed(s, socket[s])
      /\ UNCHANGED <<sideVars, writerVars, localBuffer, open, broken,
                     serverVars, faults>>

(* recv fails: Connection::Read closes the connection.                     *)
ReadFails(s) ==
  /\ Up(s)
  /\ localBuffer[s] = <<>>
  /\ Dry(s, socket[s])
  /\ CloseSocket(s)
  /\ UNCHANGED <<attempt, stage, shuttingDown, writerVars, readerVars, toward,
                 broken, serverVars, faults>>

(* The client closes a connection that may be well: its keepalive thread   *)
(* gave up on it, or a thread acts on the failure of an earlier one.       *)
KeepaliveCloses ==
  /\ Up("client")
  /\ faults < MaxFaults
  /\ faults' = faults + 1
  /\ CloseSocket("client")
  /\ UNCHANGED <<attempt, stage, shuttingDown, writerVars, readerVars, toward,
                 broken, serverVars>>

-----------------------------------------------------------------------------
(* Reconnecting: the client's PollReconnect and the server's HandleClient. *)

(* PollReconnect takes mutex_, connects, sends the ConnectRequest.         *)
PollReconnect(c) ==
  /\ socket["client"] = NoConn
  /\ attempt["client"] = NoConn
  /\ ~shuttingDown
  /\ c \notin InUse
  /\ attempt' = [attempt EXCEPT !["client"] = c]
  /\ stage' = [stage EXCEPT !["client"] = "response"]
  /\ toward' = [s \in Sides |-> [toward[s] EXCEPT ![c] = <<>>]]
  /\ open' = [s \in Sides |-> open[s] \cup {c}]
  /\ broken' = broken \ {c}
  /\ requests' = requests \cup {c}
  /\ UNCHANGED <<socket, shuttingDown, writerVars, readerVars, pending,
                 registry, faults>>

(* HandleClient reads the request and answers by what the registry holds.  *)
(* socket_ of the existing connection is read without its mutex_.          *)
AnswerReturning(c) ==
  /\ c \in requests
  /\ registry = "kept"
  /\ socket["server"] = NoConn
  /\ requests' = requests \ {c}
  /\ pending' = pending \cup {c}
  /\ toward' = Sent(toward, "server", c, Response("RETURNING_CLIENT"))
  /\ UNCHANGED <<sideVars, writerVars, readerVars, open, broken, registry,
                 faults>>

(* The registry's connection still has its socket: the caller is taken for *)
(* a new client, and its fresh ServerClientConnection replaces the one     *)
(* that holds the session's backup and sequence numbers.                   *)
AnswerNew(c) ==
  /\ c \in requests
  /\ registry = "kept"
  /\ socket["server"] # NoConn
  /\ ~ServerNoticesFirst
  /\ requests' = requests \ {c}
  /\ registry' = "replaced"
  /\ toward' = Sent(toward, "server", c, Response("NEW_CLIENT"))
  /\ UNCHANGED <<sideVars, writerVars, readerVars, open, broken, pending,
                 faults>>

(* The registry holds a fresh connection.  While its socket is valid the   *)
(* answer is NEW_CLIENT again; afterwards its Recover announces sequence   *)
(* number 0, and throws "peer ahead of writer" at the client's header.     *)
AnswerAfterReplacement(c) ==
  /\ c \in requests
  /\ registry = "replaced"
  /\ requests' = requests \ {c}
  /\ \/ /\ toward' = Sent(toward, "server", c, Response("NEW_CLIENT"))
        /\ UNCHANGED open
     \/ /\ toward' = IF Carries("server", c)
                     THEN [toward EXCEPT !["client"][c] =
                             @ \o <<Response("RETURNING_CLIENT"),
                                    SequenceHeader(ToInt32(0))>>]
                     ELSE toward
        /\ open' = Closed("server", c)
  /\ UNCHANGED <<sideVars, writerVars, readerVars, broken, pending, registry,
                 faults>>

(* The session is gone: INVALID_KEY, and the connection is closed.         *)
AnswerUnknown(c) ==
  /\ c \in requests
  /\ registry = "erased"
  /\ requests' = requests \ {c}
  /\ toward' = Sent(toward, "server", c, Response("INVALID_KEY"))
  /\ open' = Closed("server", c)
  /\ UNCHANGED <<sideVars, writerVars, readerVars, broken, pending, registry,
                 faults>>

(* The request does not arrive.                                            *)
RequestLost(c) ==
  /\ c \in requests
  /\ c \in broken \/ c \notin open["client"]
  /\ requests' = requests \ {c}
  /\ open' = Closed("server", c)
  /\ UNCHANGED <<sideVars, writerVars, readerVars, toward, broken, pending,
                 registry, faults>>

(* The client reads the ConnectResponse.                                   *)
ReadReturning ==
  LET c == attempt["client"]
  IN  /\ stage["client"] = "response"
      /\ Arrived("client", c, "RETURNING_CLIENT")
      /\ stage' = [stage EXCEPT !["client"] = "header"]
      /\ toward' = Replied("client", c,
                           SequenceHeader(ToInt32(rseq["client"])))
      /\ UNCHANGED <<socket, attempt, shuttingDown, writerVars, readerVars,
                     open, broken, serverVars, faults>>

(* Mutant: every refusal makes the client give up.                         *)
ReadRefusal_GivesUp ==
  LET c == attempt["client"]
  IN  /\ stage["client"] = "response"
      /\ \/ Arrived("client", c, "NEW_CLIENT")
         \/ Arrived("client", c, "INVALID_KEY")
      /\ shuttingDown' = TRUE
      /\ attempt' = [attempt EXCEPT !["client"] = NoConn]
      /\ stage' = [stage EXCEPT !["client"] = "idle"]
      /\ toward' = Consumed("client", c)
      /\ open' = Closed("client", c)
      /\ UNCHANGED <<socket, writerVars, readerVars, broken, serverVars,
                     faults>>

ReadRefusal ==
  LET c == attempt["client"]
  IN  /\ stage["client"] = "response"
      /\ \/ /\ Arrived("client", c, "NEW_CLIENT")
            /\ UNCHANGED shuttingDown
         \/ /\ Arrived("client", c, "INVALID_KEY")
            /\ shuttingDown' = TRUE
      /\ attempt' = [attempt EXCEPT !["client"] = NoConn]
      /\ stage' = [stage EXCEPT !["client"] = "idle"]
      /\ toward' = Consumed("client", c)
      /\ open' = Closed("client", c)
      /\ UNCHANGED <<socket, writerVars, readerVars, broken, serverVars,
                     faults>>

-----------------------------------------------------------------------------
(* Connection::Recover                                                     *)

(* A handler gets mutex_ and sends the server's SequenceHeader.  The       *)
(* connection may meanwhile have been recovered by another handler.        *)
BeginRecover(c) ==
  /\ c \in pending
  /\ attempt["server"] = NoConn
  /\ pending' = pending \ {c}
  /\ attempt' = [attempt EXCEPT !["server"] = c]
  /\ stage' = [stage EXCEPT !["server"] = "header"]
  /\ toward' = Sent(toward, "server", c, SequenceHeader(ToInt32(rseq["server"])))
  /\ UNCHANGED <<socket, shuttingDown, writerVars, readerVars, open, broken,
                 requests, registry, faults>>

(* The attempt of side s ends: Recover's catch closes new_socket.  (The     *)
(* server's HandleClient closes the handle once more; the model assumes    *)
(* that it has not been reused by then.)                                   *)
GiveUp(s) ==
  /\ attempt' = [attempt EXCEPT ![s] = NoConn]
  /\ stage' = [stage EXCEPT ![s] = "idle"]
  /\ open' = Closed(s, attempt[s])

(* The peer's SequenceHeader arrives and the backup covers what the peer   *)
(* lacks: send the CatchupBuffer.                                          *)
SendCatchup(s) ==
  LET c == attempt[s]
      remote == Head(toward[s][c]).num
  IN  /\ stage[s] = "header"
      /\ Arrived(s, c, "header")
      /\ CanRecover(s, remote)
      /\ stage' = [stage EXCEPT ![s] = "catchup"]
      /\ toward' = Replied(s, c, CatchupBuffer(Recovered(s, remote)))
      /\ UNCHANGED <<socket, attempt, shuttingDown, writerVars, readerVars,
                     open, broken, serverVars, faults>>

(* BackedWriter::Recover throws.                                           *)
RefuseCatchup(s) ==
  LET c == attempt[s]
  IN  /\ stage[s] = "header"
      /\ Arrived(s, c, "header")
      /\ ~CanRecover(s, Head(toward[s][c]).num)
      /\ GiveUp(s)
      /\ toward' = Consumed(s, c)
      /\ UNCHANGED <<socket, shuttingDown, writerVars, readerVars, broken,
                     serverVars, faults>>

(* Mutants of the next definition: partial_message_ is kept; the backlog   *)
(* replaces local_buffer_; it is not counted, or counted backwards; it is  *)
(* counted and thrown away.                                                *)
ReviveReader_KeepsPartial(s, buffered) ==
  /\ UNCHANGED partial
  /\ localBuffer' = [localBuffer EXCEPT ![s] = @ \o buffered]
  /\ rseq' = [rseq EXCEPT ![s] = @ + Len(buffered)]

ReviveReader_Replaces(s, buffered) ==
  /\ partial' = [partial EXCEPT ![s] = 0]
  /\ localBuffer' = [localBuffer EXCEPT ![s] = buffered]
  /\ rseq' = [rseq EXCEPT ![s] = @ + Len(buffered)]

ReviveReader_NotCounted(s, buffered) ==
  /\ partial' = [partial EXCEPT ![s] = 0]
  /\ localBuffer' = [localBuffer EXCEPT ![s] = @ \o buffered]
  /\ UNCHANGED rseq

ReviveReader_Drops(s, buffered) ==
  /\ partial' = [partial EXCEPT ![s] = 0]
  /\ UNCHANGED localBuffer
  /\ rseq' = [rseq EXCEPT ![s] = @ + Len(buffered)]

(* BackedReader::Revive.                                                   *)
ReviveReader(s, buffered) ==
  /\ partial' = [partial EXCEPT ![s] = 0]
  /\ localBuffer' = [localBuffer EXCEPT ![s] = @ \o buffered]
  /\ rseq' = [rseq EXCEPT ![s] = @ + Len(buffered)]

(* The peer's CatchupBuffer arrives: reader and writer are revived.        *)
Revive(s) ==
  LET c == attempt[s]
  IN  /\ stage[s] = "catchup"
      /\ Arrived(s, c, "catchup")
      /\ ReviveReader(s, Head(toward[s][c]).buf)
      /\ socket' = [socket EXCEPT ![s] = c]
      /\ attempt' = [attempt EXCEPT ![s] = NoConn]
      /\ stage' = [stage EXCEPT ![s] = "idle"]
      /\ toward' = Consumed(s, c)
      /\ UNCHANGED <<shuttingDown, writerVars, delivered, open, broken,
                     serverVars, faults>>

(* A read of the handshake fails.                                          *)
AttemptFails(s) ==
  /\ attempt[s] # NoConn
  /\ Dry(s, attempt[s])
  /\ GiveUp(s)
  /\ UNCHANGED <<socket, shuttingDown, writerVars, readerVars, toward, broken,
                 serverVars, faults>>

(* A read of the handshake takes longer than its 30 seconds.               *)
AttemptTimesOut(s) ==
  /\ attempt[s] # NoConn
  /\ faults < MaxFaults
  /\ faults' = faults + 1
  /\ GiveUp(s)
  /\ UNCHANGED <<socket, shuttingDown, writerVars, readerVars, toward, broken,
                 serverVars>>

-----------------------------------------------------------------------------
(* The environment                                                         *)

(* A connection stops carrying; of what is in flight a prefix arrives.     *)
Break(c) ==
  /\ faults < MaxFaults
  /\ c \in InUse \ broken
  /\ faults' = faults + 1
  /\ broken' = broken \cup {c}
  /\ \E i \in 0 .. Len(toward["client"][c]),
        j \in 0 .. Len(toward["server"][c]) :
       toward' = [toward EXCEPT !["client"][c] = SubSeq(@, 1, i),
                                !["server"][c] = SubSeq(@, 1, j)]
  /\ UNCHANGED <<sideVars, writerVars, readerVars, open, serverVars>>

(* The terminal is gone, or the server stops: the relay loop ends and      *)
(* UnregisterTerminal erases the session.                                  *)
SessionEnds ==
  /\ registry # "erased"
  /\ registry' = "erased"
  /\ UNCHANGED <<sideVars, writerVars, readerVars, netVars, requests, pending,
                 faults>>

(* Its connection is closed by the relay thread, or by the destructor when *)
(* a late Recover has revived it.                                          *)
ErasedCloses ==
  /\ registry = "erased"
  /\ socket["server"] # NoConn
  /\ attempt["server"] = NoConn
  /\ CloseSocket("server")
  /\ UNCHANGED <<attempt, stage, shuttingDown, writerVars, readerVars, toward,
                 broken, serverVars, faults>>

-----------------------------------------------------------------------------
SideNext(s) ==
  \/ \E len \in Lengths : Write(s, len) \/ WriteFails(s, len)
  \/ ReadLocal(s) \/ ReadPart(s) \/ ReadWire(s) \/ ReadFails(s)
  \/ SendCatchup(s) \/ RefuseCatchup(s) \/ Revive(s)
  \/ AttemptFails(s) \/ AttemptTimesOut(s)

ConnNext(c) ==
  \/ PollReconnect(c)
  \/ AnswerReturning(c) \/ AnswerNew(c) \/ AnswerAfterReplacement(c)
  \/ AnswerUnknown(c) \/ RequestLost(c)
  \/ BeginRecover(c)
  \/ Break(c)

Next ==
  \/ \E s \in Sides : SideNext(s)
  \/ \E c \in Conns : ConnNext(c)
  \/ ReadReturning \/ ReadRefusal \/ KeepaliveCloses
  \/ SessionEnds \/ ErasedCloses

Spec == Init /\ [][Next]_vars

(* Fairness.  Threads keep running: the two handshakes go on, the readers   *)
(* read, failures are noticed.  Nothing obliges anybody to write, a         *)
(* connection to break, a timeout to fire or the session to end.            *)
Fairness ==
  /\ \A s \in Sides :
       /\ WF_vars(ReadLocal(s)) /\ WF_vars(ReadWire(s))
       /\ WF_vars(ReadFails(s))
       /\ WF_vars(SendCatchup(s)) /\ WF_vars(RefuseCatchup(s))
       /\ WF_vars(Revive(s)) /\ WF_vars(AttemptFails(s))
  /\ WF_vars(\E c \in Conns : PollReconnect(c))
  /\ WF_vars(\E c \in Conns : BeginRecover(c))
  /\ \A c \in Conns :
       WF_vars(AnswerReturning(c) \/ AnswerNew(c) \/ AnswerAfterReplacement(c)
                 \/ AnswerUnknown(c) \/ RequestLost(c))
  /\ WF_vars(ReadReturning) /\ WF_vars(ReadRefusal)
  /\ WF_vars(ErasedCloses)

FairSpec == Spec /\ Fairness

-----------------------------------------------------------------------------
(* Properties                                                               *)

TypeOK ==
  /\ socket \in [Sides -> Conns \cup {NoConn}]
  /\ attempt \in [Sides -> Conns \cup {NoConn}]
  /\ stage \in [Sides -> Stages]
  /\ shuttingDown \in BOOLEAN
  /\ written \in [Sides -> Seq(Nat)]
  /\ evicted \in [Sides -> Nat]
  /\ rseq \in [Sides -> Nat]
  /\ localBuffer \in [Sides -> Seq(Int)]
  /\ partial \in [Sides -> Int]
  /\ delivered \in [Sides -> Seq(Nat)]
  /\ toward \in [Sides -> [Conns -> Seq(Message)]]
  /\ open \in [Sides -> SUBSET Conns]
  /\ broken \subseteq Conns
  /\ requests \subseteq Conns
  /\ pending \subseteq Conns
  /\ registry \in {"kept", "replaced", "erased"}
  /\ faults \in 0 .. MaxFaults

(* Whatever breaks, the reader of each side gets the packets of the other   *)
(* in the order they were written, none missing and none twice, and no      *)
(* Decrypt ever throws: the nonces of both ends stay in step through        *)
(* Connection::Recover.                                                     *)
InOrderDelivery ==
  \A s \in Sides : \A k \in 1 .. Len(delivered[s]) : delivered[s][k] = k

(* The number a reader announces in its SequenceHeader counts packets that  *)
(* its peer wrote and that Read has returned or will return from            *)
(* local_buffer_: acknowledging never runs ahead of the writer or of what   *)
(* the session will see.                                                    *)
AnnouncedIsHeld ==
  \A s \in Sides :
    /\ rseq[s] = Len(delivered[s]) + Len(localBuffer[s])
    /\ rseq[s] <= Len(written[Peer(s)])

(* While both ends use the same working connection, what the writer has     *)
(* counted is exactly what the reader has counted plus what is on the way:  *)
(* no recovery leaves a gap that later packets would paper over.            *)
ConnectedMeansComplete ==
  \A s \in Sides :
    LET c == socket[s]
    IN  c # NoConn /\ c = socket[Peer(s)] /\ c \notin broken
          => Len(written[Peer(s)]) = rseq[s] + Len(toward[s][c])

(* The client gives up for good (PollReconnect on INVALID_KEY) only when    *)
(* the session really has been erased.                                      *)
ShutdownMeansErased == shuttingDown => registry = "erased"

(* A live connection is closed before another takes its place: a second     *)
(* handler that saw the socket invalid before the first one's Recover ended *)
(* never swaps the socket under the relay thread.                           *)
LiveSocketIsNotReplaced ==
  [][\A s \in Sides :
       socket[s] # NoConn => socket'[s] \in {socket[s], NoConn}]_vars

(* A writer refuses the header of a peer that is still waiting on the same  *)
(* connection only when the peer lacks a packet that has been evicted, or   *)
(* when the connection is in use already.                                   *)
RetainedBacklogIsResent ==
  [][\A s \in Sides :
       LET c == attempt[s]
       IN  /\ stage[s] = "header" /\ Arrived(s, c, "header")
           /\ toward'[s][c] # toward[s][c]
           /\ attempt'[s] = NoConn
           /\ attempt[Peer(s)] = c
           => \/ socket[s] # NoConn
              \/ rseq[Peer(s)] < evicted[s]]_vars

(* An attempt that holds mutex_ and the recover_mutexes releases them.      *)
AttemptsEnd == \A s \in Sides : []<>(attempt[s] = NoConn)

(* Zero data loss: what one side has written reaches the other, unless the  *)
(* session is over.                                                         *)
EventualDelivery ==
  \A s \in Sides : \A n \in 1 .. MaxPackets :
    Len(written[s]) >= n
      ~> Len(delivered[Peer(s)]) >= n \/ registry = "erased"

(* A client that has lost its connection gets one again, as long as the     *)
(* session lasts: PollReconnect never retries for ever in vain.             *)
Reconnects ==
  socket["client"] = NoConn ~> socket["client"] # NoConn \/ registry = "erased"

(* The pair of connections implements the stream it stands for.             *)
Stream == INSTANCE ReliableStream
            WITH sent <- [s \in Sides |-> Len(written[s])]

ImplementsStream == Stream!Spec

=============================================================================
