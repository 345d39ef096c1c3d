---------------------------- MODULE DurableSession ----------------------------
(***************************************************************************)
(* What a session promises (docs/concepts/persistent-sessions.mdx),        *)
(* whatever its clients and their connections do: it lasts until its       *)
(* terminal ends.  Until then the server keeps the pipe open and the id in *)
(* its registry, and turns no client away that comes back.  What the       *)
(* terminal prints is one stream, which every client reads from its start  *)
(* and in order.  The end is in order too: terminal, pipe, id.             *)
(***************************************************************************)
EXTENDS Naturals, Sequences

CONSTANT Clients

VARIABLES
  known,     \* the id is in the registry
  alive,     \* the terminal runs
  open,      \* the server's end of the pipe is open
  printed,   \* number of packets of output so far
  read,      \* per client: the packets it has read
  refused    \* clients told that there is no such session

vars == <<known, alive, open, printed, read, refused>>

Init ==
  /\ known = FALSE /\ alive = TRUE /\ open = TRUE
  /\ printed = 0
  /\ read = [c \in Clients |-> <<>>]
  /\ refused = {}

Register ==
  /\ alive /\ ~known
  /\ known' = TRUE
  /\ UNCHANGED <<alive, open, printed, read, refused>>

Output ==
  /\ alive /\ open /\ known
  /\ printed' = printed + 1
  /\ UNCHANGED <<known, alive, open, read, refused>>

(* The next packet: never a later one, never one again.                    *)
Read(c) ==
  /\ c \notin refused /\ Len(read[c]) < printed
  /\ read' = [read EXCEPT ![c] = Append(@, Len(@) + 1)]
  /\ UNCHANGED <<known, alive, open, printed, refused>>

Refuse(c) ==
  /\ ~known /\ ~alive
  /\ refused' = refused \cup {c}
  /\ UNCHANGED <<known, alive, open, printed, read>>

End ==
  /\ alive
  /\ alive' = FALSE
  /\ UNCHANGED <<known, open, printed, read, refused>>

HangUp ==
  /\ ~alive /\ open
  /\ open' = FALSE
  /\ UNCHANGED <<known, alive, printed, read, refused>>

Erase ==
  /\ ~alive /\ ~open /\ known
  /\ known' = FALSE
  /\ UNCHANGED <<alive, open, printed, read, refused>>

Next ==
  \/ Register \/ Output \/ End \/ HangUp \/ Erase
  \/ \E c \in Clients : Read(c) \/ Refuse(c)

Spec == Init /\ [][Next]_vars

===============================================================================
