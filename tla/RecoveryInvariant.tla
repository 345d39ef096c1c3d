------------------------- MODULE RecoveryInvariant --------------------------
(***************************************************************************)
(* The inductive invariant behind the safety properties of Recovery.  It   *)
(* says, for each side and each connection the side is on, which messages  *)
(* can be in flight to it and how their numbers relate to the counters at  *)
(* both ends.  TLC checks it on small instances; RecoveryProofs proves it. *)
(***************************************************************************)
EXTENDS Recovery

(* Side s is trying c, waiting for st; side s uses c.                      *)
Trying(s, c, st) == attempt[s] = c /\ stage[s] = st

OnConn(s, c) == attempt[s] = c \/ socket[s] = c

(* Side s has sent its CatchupBuffer on c and is still there.              *)
CaughtUp(s, c) == Trying(s, c, "catchup") \/ socket[s] = c

Answers == {"NEW_CLIENT", "RETURNING_CLIENT", "INVALID_KEY"}

Contiguous(b, n) == \A k \in 1 .. Len(b) : b[k] = n + k

-----------------------------------------------------------------------------
(* The reader: what it has returned and what it holds are the packets      *)
(* 1 .. rseq in order, and a part it holds is of the next one.             *)
ReaderInv ==
  \A s \in Sides :
    /\ rseq[s] = Len(delivered[s]) + Len(localBuffer[s])
    /\ Contiguous(delivered[s], 0)
    /\ Contiguous(localBuffer[s], Len(delivered[s]))
    /\ partial[s] \in {0, rseq[s] + 1}
    /\ rseq[s] <= Len(written[Peer(s)])

(* The writer: every packet has a length of at least one byte, and the     *)
(* backup fits.                                                            *)
WriterInv ==
  \A s \in Sides :
    /\ \A i, j \in 0 .. Len(written[s]) :
         i <= j => BytesUpTo(written[s], j) - BytesUpTo(written[s], i) >= j - i
    /\ evicted[s] <= Len(written[s])
    /\ TotalBytes(written[s]) - BytesUpTo(written[s], evicted[s])
         <= MaxBackupBytes

(* Where the two sides can be.                                             *)
PlaceInv ==
  /\ \A s \in Sides :
       /\ attempt[s] = NoConn <=> stage[s] = "idle"
       /\ stage[s] = "catchup" => socket[s] = NoConn
       /\ attempt[s] # NoConn => socket[s] # attempt[s]
       /\ \A c \in Conns : OnConn(s, c) => c \in open[s]
  /\ attempt["client"] # NoConn => socket["client"] = NoConn
  /\ stage["server"] # "response"
  /\ requests \cap pending = {}
  /\ \A c \in requests \cup pending :
       c \in open["server"] /\ ~OnConn("server", c) /\ ~CaughtUp("client", c)

(* What is in flight on a connection whose request the server has not      *)
(* answered, or has answered RETURNING_CLIENT without taking it up yet.    *)
WaitingInv ==
  /\ \A c \in requests :
       /\ toward["client"][c] = <<>>
       /\ toward["server"][c] = <<>>
       /\ ~Trying("client", c, "header")
  /\ \A c \in pending :
       /\ \A k \in 1 .. Len(toward["client"][c]) :
            toward["client"][c][k].kind \in Answers
       /\ \A k \in 1 .. Len(toward["server"][c]) :
            toward["server"][c][k].kind = "header"
       /\ Len(toward["server"][c]) <= 1
       /\ c \notin broken =>
            /\ Trying("client", c, "response") => Len(toward["client"][c]) = 1
            /\ Trying("client", c, "header") =>
                 /\ Len(toward["client"][c]) = 0
                 /\ Len(toward["server"][c]) = 1

(* What is in flight to a side, by what it waits for.                      *)
ResponseShape(q) ==
  /\ Len(q) <= 2
  /\ Len(q) >= 1 => q[1].kind \in Answers
  /\ Len(q) = 2 => q[2].kind = "header"

HeaderShape(q, r, w) ==
  /\ Len(q) <= 2
  /\ Len(q) >= 1 => q[1].kind = "header"
  /\ Len(q) = 2 => /\ q[2].kind = "catchup"
                   /\ Contiguous(q[2].buf, r)
                   /\ r + Len(q[2].buf) <= w

CatchupShape(q, r, w) ==
  Len(q) >= 1 =>
    /\ q[1].kind = "catchup"
    /\ Contiguous(q[1].buf, r)
    /\ \A k \in 2 .. Len(q) : /\ q[k].kind = "packet"
                              /\ q[k].num = r + Len(q[1].buf) + k - 1
    /\ r + Len(q[1].buf) + Len(q) - 1 <= w

PacketShape(q, r, w) ==
  /\ \A k \in 1 .. Len(q) : q[k].kind = "packet" /\ q[k].num = r + k
  /\ r + Len(q) <= w

ShapeAt(s, c) ==
  LET q == toward[s][c]
      w == Len(written[Peer(s)])
  IN  /\ Trying(s, c, "response") => ResponseShape(q)
      /\ Trying(s, c, "header") => HeaderShape(q, rseq[s], w)
      /\ Trying(s, c, "catchup") => CatchupShape(q, rseq[s], w)
      /\ socket[s] = c => PacketShape(q, rseq[s], w)

ShapeInv == \A s \in Sides, c \in Conns : ShapeAt(s, c)

(* A side that has not seen the peer's header has sent no CatchupBuffer,   *)
(* so the peer cannot be connected; the headers it has sent announce its   *)
(* reader's number.                                                        *)
OrderAt(s, c) ==
  LET q == toward[Peer(s)][c]
  IN  /\ Trying(s, c, "response") => q = <<>> /\ ~CaughtUp(Peer(s), c)
      /\ Trying(s, c, "header") =>
           /\ socket[Peer(s)] # c
           /\ \A k \in 1 .. Len(q) : q[k].kind \in Answers \cup {"header"}
      /\ Trying(s, c, "header") \/ Trying(s, c, "catchup") =>
           \A k \in 1 .. Len(q) :
             q[k].kind = "header" => q[k].num = ToInt32(rseq[s])

OrderInv == \A s \in Sides, c \in Conns : OrderAt(s, c)

(* On a working connection nothing is missing between the two sides: what  *)
(* the peer has sent and this side has not read is in flight.              *)
CompleteAt(s, c) ==
  LET q == toward[s][c]
      r == rseq[s]
      w == Len(written[Peer(s)])
  IN  c \notin broken =>
        /\ Trying(Peer(s), c, "header") =>
             /\ Trying(s, c, "response") => Len(q) = 2
             /\ Trying(s, c, "header") => Len(q) = 1
             /\ Trying(s, c, "catchup") => Len(q) = 0
        /\ CaughtUp(Peer(s), c) =>
             /\ Trying(s, c, "header") =>
                  Len(q) = 2 /\ r + Len(q[2].buf) = w
             /\ Trying(s, c, "catchup") =>
                  Len(q) >= 1 /\ r + Len(q[1].buf) + Len(q) - 1 = w
             /\ socket[s] = c => r + Len(q) = w

CompleteInv == \A s \in Sides, c \in Conns : CompleteAt(s, c)

RegistryInv ==
  /\ shuttingDown => registry = "erased"
  /\ registry # "erased" =>
       \A c \in Conns : \A k \in 1 .. Len(toward["client"][c]) :
         toward["client"][c][k].kind # "INVALID_KEY"

IInv ==
  /\ TypeOK
  /\ ReaderInv
  /\ WriterInv
  /\ PlaceInv
  /\ WaitingInv
  /\ ShapeInv
  /\ OrderInv
  /\ CompleteInv
  /\ RegistryInv

=============================================================================
