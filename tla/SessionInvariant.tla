--------------------------- MODULE SessionInvariant ---------------------------
(***************************************************************************)
(* The inductive invariants behind the safety properties of Session.  TLC  *)
(* checks them on small instances; SessionProofs proves them.  IInv holds  *)
(* with takeovers and without.                                             *)
(***************************************************************************)
EXTENDS Session

(***************************************************************************)
(* Who may end the session: behind IsDurable and RefusedAfterTheEnd        *)
(***************************************************************************)

(* a process that has a socket, by what its handler is doing *)
PlaceInv ==
  \A r \in Runs :
    /\ tcp[r] # None => client[r] \in {"asked", "hello", "attached", "polled"}
    /\ \A h \in Handlers :
         tcp[r] = h /\ pc[h] \in {"answer", "recover"} => client[r] \in {"asked", "polled"}

(* before the terminal has registered nobody gets beyond Connect *)
StartInv ==
  /\ reader = "start" =>
       /\ ~known
       /\ \A r \in Runs : client[r] \in {"off", "asked", "failed", "killed"}
       /\ \A h \in Handlers : pc[h] \in {"free", "answer", "done"}
  /\ reader # "start" => known \/ ~pipeTerm

(* the server closes its end, and a relay ends, only after the terminal, *)
(* and the relay closes the pipe before it erases the session            *)
EndInv ==
  /\ ~pipeServer => ~pipeTerm
  /\ \A h \in Handlers :
       /\ pc[h] \in {"close", "unregister", "hangup"} => ~pipeTerm
       /\ pc[h] \in {"unregister", "hangup"} => ~pipeServer

IInv ==
  /\ client \in [Runs -> ClientPlaces] /\ tcp \in [Runs -> Handlers \cup {None}]
  /\ pc \in [Handlers -> Places]
  /\ known \in BOOLEAN /\ pipeServer \in BOOLEAN /\ pipeTerm \in BOOLEAN
  /\ PlaceInv /\ StartInv /\ EndInv /\ RefusedAfterTheEnd

(***************************************************************************)
(* Who may use the pipe, when there are no takeovers                       *)
(***************************************************************************)

(* A handler before it has a connection, one with a connection that is not *)
(* attached yet, and one that uses the pipe or is about to.                *)
Front == {"answer", "recover", "store"}
First == {"initial", "attach"}
Using == {"init"} \cup Relaying

(* One client process runs at a time, and has at most one handler that has *)
(* not finished with the request.  A new one is not accepted while a first *)
(* contact is under way.                                                   *)
FrontInv ==
  /\ \A q, r \in Runs : q < r /\ client[r] # "off" => client[q] \in Gone
  /\ \A r \in Runs, t \in Handlers :
       tcp[r] = t /\ client[r] \in {"asked", "polled"} => pc[t] \in {"answer", "recover"}
  /\ \A g, h \in Handlers : pc[g] \in Front /\ pc[h] \in Front => g = h
  /\ \A g, h \in Handlers : pc[g] \in Front => pc[h] \notin First

(* What the numbers of handlers and connections refer to.                  *)
SockInv ==
  /\ \A h \in Handlers : pc[h] \in First => sock[h] = h
  /\ \A h \in Handlers :
       pc[h] \in Front =>
         /\ sock[h] = None /\ registered # h
         /\ \A c \in Handlers : sock[c] # h
  /\ \A h \in Handlers :
       pc[h] = "recover" => recovering[h] # None /\ recovering[h] # h
  /\ \A c, d \in Handlers : sock[c] = sock[d] /\ sock[c] # None => c = d

(* While the pipe is open there is at most one handler with a connection,  *)
(* and it is the registry's.  While it uses the pipe, a request is read    *)
(* only after its connection has been lost: so the request finds an entry  *)
(* without a socket, and makes no second connection.                       *)
UseInv ==
  /\ PipeOpen =>
       /\ \A h \in Handlers : pc[h] \in First \cup Using => registered = h
       /\ \A g, h \in Handlers :
            pc[g] \in Front /\ pc[h] \in Using => sock[h] = None /\ pc[g] # "store"
  /\ \A g, h \in Handlers :
       {pc[g], pc[h]} \subseteq {"close"} \cup Relaying => g = h

(***************************************************************************)
(* Where the output is: behind OutputIsKept and OutputInOrder              *)
(***************************************************************************)

(* Nothing is printed before a relay has sent the TERMINAL_INIT, and       *)
(* nothing is written to a connection before there is a relay.             *)
OutputInv ==
  /\ PipeOpen /\ (\A h \in Handlers : pc[h] \notin Relaying) =>
       /\ printed = 0 /\ toServer = <<>> /\ toTerm = <<>>
       /\ shell = "none" /\ writer = "reading"
  /\ writer = "writing" => printed < MaxOutputs
  /\ \A h \in Handlers : pc[h] = "output" => held[h] # 0
  /\ \A h \in Handlers : pc[h] \in Front \cup First \cup {"init"} => written[h] = <<>>
  /\ \A c \in Handlers : written[c] = Count(Len(written[c])) /\ Len(written[c]) <= printed
  /\ OutputIsKept

(* The process whose INITIAL_PAYLOAD a handler reads.                      *)
PayloadAt(h) ==
  /\ pc[h] \in Front \cup {"initial"} => owner[h] = None
  /\ pc[h] \in {"attach"} \cup Using => owner[h] # None
  /\ pc[h] \in {"store", "initial"} =>
       \A r \in Runs :
         /\ tcp[r] = h => payload[h] = r
         /\ payload[h] = r =>
              /\ got[r] = <<>>
              /\ \/ client[r] = "hello" /\ tcp[r] = h
                 \/ r \in leaving \/ client[r] \in Gone

PayloadInv == \A h \in Handlers : PayloadAt(h)

(* A process reads output only from the one connection it owns.            *)
OwnerAt(r) ==
  /\ client[r] \in {"off", "asked", "hello"} \/ r \in leaving => got[r] = <<>>
  /\ r \in leaving => client[r] \in {"polling", "polled", "refused"}
  /\ client[r] \in {"off", "asked"} => \A c \in Handlers : owner[c] # r
  /\ client[r] = "hello" => \A c \in Handlers : owner[c] = r => c = tcp[r]
  /\ client[r] \in {"attached", "polling", "polled"} /\ r \notin leaving =>
       \A c, d \in Handlers : owner[c] = r /\ owner[d] = r => c = d
  /\ \A c \in Handlers :
       /\ owner[c] = r => Len(got[r]) <= Len(written[c])
       /\ sock[c] = tcp[r] /\ sock[c] # None /\ pc[c] # "initial" => owner[c] = r

OwnerInv == \A r \in Runs : OwnerAt(r)

(* What is on its way to a process continues what it has read, up to what  *)
(* has been written to its connection.                                     *)
LineAt(r, t) ==
  LET n == Len(got[r]) + Len(line[t]) IN
  /\ pc[t] \in Front => line[t] = <<>>
  /\ \A k \in 1..Len(line[t]) : line[t][k] = Len(got[r]) + k
  /\ n <= printed
  /\ \A c \in Handlers :
       /\ owner[c] = r => n <= Len(written[c])
       /\ sock[c] = t => n = Len(written[c])

LineInv == \A r \in Runs, t \in Handlers : tcp[r] = t => LineAt(r, t)

SInv ==
  /\ TypeOK /\ IInv
  /\ FrontInv /\ SockInv /\ UseInv
  /\ OutputInv /\ PayloadInv /\ OwnerInv /\ LineInv /\ OutputInOrder
===============================================================================
