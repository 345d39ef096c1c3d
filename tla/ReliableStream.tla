--------------------------- MODULE ReliableStream ---------------------------
(***************************************************************************)
(* What a pair of Connection objects (src/src/ut/protocol/Connection.cpp)  *)
(* promises to the two ends of a terminal session, whatever happens to the *)
(* TCP connections under them: each direction is a stream of packets that  *)
(* are handed to the reader one by one, in the order they were written,    *)
(* none lost, none twice.                                                  *)
(*                                                                         *)
(* A packet is named by its position in the stream of the side that wrote  *)
(* it.  The handshake has already passed one packet each way               *)
(* (INITIAL_PAYLOAD and INITIAL_RESPONSE).                                 *)
(***************************************************************************)
EXTENDS Naturals, Sequences

VARIABLES
  sent,        \* sent[s]: how many packets side s has written
  delivered    \* delivered[s]: the packets handed to the reader at side s

Sides == {"client", "server"}

Peer(s) == IF s = "client" THEN "server" ELSE "client"

vars == <<sent, delivered>>

Init ==
  /\ sent = [s \in Sides |-> 1]
  /\ delivered = [s \in Sides |-> <<1>>]

Send(s) ==
  /\ sent' = [sent EXCEPT ![s] = @ + 1]
  /\ UNCHANGED delivered

(* The next packet in order reaches the reader: never a later one, never   *)
(* one again.                                                              *)
Deliver(s) ==
  /\ Len(delivered[s]) < sent[Peer(s)]
  /\ delivered' = [delivered EXCEPT ![s] = Append(@, Len(@) + 1)]
  /\ UNCHANGED sent

Next == \E s \in Sides : Send(s) \/ Deliver(s)

Spec == Init /\ [][Next]_vars

=============================================================================
