----------------------------- MODULE PortForward -----------------------------
(***************************************************************************)
(* Port forwarding over a session.  A tunnel has a source side, which      *)
(* accepts connections of applications, and a target side, which connects  *)
(* to the destination for each of them.  Each side has a                   *)
(* PortForwardHandler for each of the two roles: a forward tunnel (-t) has *)
(* its source at the client, a reverse tunnel (-r) at the server.          *)
(*                                                                         *)
(* Between the sides is the session, which delivers in order and once      *)
(* (ReliableStream).  Applications are at both ends; a connection through  *)
(* the tunnel has a name, and each of its ends is the TCP connection        *)
(* between a handler's socket and an application.                          *)
(*                                                                         *)
(* The server runs everything in the loop of TcpListener::HandleClient.    *)
(* In the client the output thread calls HandlePacket and the forwarding   *)
(* thread calls Update, on the same maps without a lock: single operations *)
(* on the maps are taken to be atomic.                                     *)
(***************************************************************************)
EXTENDS Naturals, Sequences, FiniteSets, FiniteSetsExt

CONSTANTS
  MaxConns,           \* bound: connections that applications make to the tunnels
  Listeners,          \* which sides may have listeners: a set of sets of sides
  MaxChunks,          \* bound: pieces that applications send, in all
  MayRefuse,          \* may a destination refuse the connection?
  SpeakingFirst,      \* sides from where a destination may send, or hang up,
                      \* before it is sent to
  HandlesAreReused    \* may a handle name a new socket while a map still has it?

ASSUME ConnsAssumption == MaxConns \in Nat
ASSUME ListenersAssumption == Listeners \subseteq SUBSET {"client", "server"}
ASSUME ChunksAssumption == MaxChunks \in Nat
ASSUME SpeakingAssumption == SpeakingFirst \subseteq {"client", "server"}
ASSUME ModeAssumption == {MayRefuse, HandlesAreReused} \subseteq BOOLEAN

Sides == {"client", "server"}
Other(s) == IF s = "client" THEN "server" ELSE "client"

(* "source" is a handler with server_side_ = false, "target" one with true *)
Roles == {"source", "target"}
(* Connections are numbered as they are made.  A side has at most one      *)
(* socket for each, and so needs no more handles.                          *)
Conns == 1..MaxConns
Handles == 1..MaxConns
Ends == Conns \X Roles
Peer(e) == <<e[1], IF e[2] = "source" THEN "target" ELSE "source">>
Closed == <<>>

VARIABLES
  listening,  \* the sides with listeners_
  sock,       \* per side: what each handle is connected to, or Closed
  pending,    \* pending_clients_ of the source handler: fd -> handle
  active,     \* active_sockets_ of both handlers: socket id -> handle
  nextFd,     \* next_client_fd_ of the source handler
  nextId,     \* next_socket_id_ of the target handler
  answering,  \* responses not yet passed to send_packet
  net,        \* packets on their way to a side
  sent,       \* per end: pieces the application has written
  taken,      \* per end: pieces the handler has read
  got,        \* per end: what the application has received
  hungUp,     \* ends whose application has closed its connection
  begun,      \* number of connections that applications have made
  refused     \* connections whose destination has refused

tables == <<pending, active, nextFd, nextId>>
apps == <<sent, got, hungUp, begun, refused>>
vars == <<listening, sock, tables, answering, net, taken, apps>>

Packets ==
  [type : {"request"}, fd : Nat, conn : Conns]
    \cup [type : {"response"}, fd : Nat, id : Nat]
    \cup [type : {"refusal"}, fd : Nat]
    \cup [type : {"data"}, id : Nat, chunk : Ends \X Nat]
    \cup [type : {"closed"}, id : Nat]

PartialMaps == UNION {[D -> Handles] : D \in SUBSET Conns}

(* The type invariant; every map is keyed by numbers of connections made.  *)
TypeOK ==
  /\ listening \in Listeners
  /\ sock \in [Sides -> [Handles -> Ends \cup {Closed}]]
  /\ \A s \in Sides :
       /\ pending[s] \in PartialMaps
       /\ \A r \in Roles : active[s][r] \in PartialMaps
       /\ \A i \in DOMAIN answering[s] : answering[s][i] \in Packets
       /\ \A i \in DOMAIN net[s] : net[s][i] \in Packets
  /\ nextFd \in [Sides -> Nat] /\ nextId \in [Sides -> Nat]
  /\ sent \in [Ends -> 0..MaxChunks] /\ taken \in [Ends -> 0..MaxChunks]
  /\ \A e \in Ends : \A k \in DOMAIN got[e] : got[e][k] \in Ends \X Nat
  /\ hungUp \subseteq Ends /\ begun \in 0..MaxConns /\ refused \subseteq Conns

Empty == [x \in {} |-> Closed]

(* AddForwardRequest has been called on the source handlers of the sides   *)
(* in listening; on a target handler it does nothing.                      *)
Init ==
  /\ listening \in Listeners
  /\ sock = [s \in Sides |-> [h \in Handles |-> Closed]]
  /\ pending = [s \in Sides |-> Empty]
  /\ active = [s \in Sides |-> [r \in Roles |-> Empty]]
  /\ nextFd = [s \in Sides |-> 1] /\ nextId = [s \in Sides |-> 1]
  /\ answering = [s \in Sides |-> <<>>] /\ net = [s \in Sides |-> <<>>]
  /\ sent = [e \in Ends |-> 0] /\ taken = [e \in Ends |-> 0]
  /\ got = [e \in Ends |-> <<>>]
  /\ hungUp = {} /\ begun = 0 /\ refused = {}

(***************************************************************************)
(* Maps and sockets                                                        *)
(***************************************************************************)
Put(f, k, v) == [x \in DOMAIN f \cup {k} |-> IF x = k THEN v ELSE f[x]]
Drop(f, k) == [x \in DOMAIN f \ {k} |-> f[x]]

(* the handles that the maps of a side still mention *)
Mentioned(s) ==
  {pending[s][fd] : fd \in DOMAIN pending[s]}
    \cup UNION {{active[s][r][i] : i \in DOMAIN active[s][r]} : r \in Roles}

Free(s) ==
  {h \in Handles : sock[s][h] = Closed
                     /\ (HandlesAreReused \/ h \notin Mentioned(s))}

(* The lowest free handle is given out.  Handles are only compared, so that *)
(* any other would do, except for the question whether it is in a map.      *)
Fresh(s) == {h \in Free(s) : \A g \in Free(s) : h <= g}

(* the handler's end of the connection is still open, at side s *)
OpenAt(s, e) == \E h \in Handles : sock[s][h] = e
Open(e) == \E s \in Sides : OpenAt(s, e)

Queue(s, p) == net' = [net EXCEPT ![Other(s)] = Append(@, p)]

(***************************************************************************)
(* Update                                                                  *)
(***************************************************************************)

(* In the server the loop is busy while HandlePacket runs; in the client   *)
(* Update is called by another thread.                                     *)
MayUpdate(s) == s = "client" \/ answering[s] = <<>>

(* The loop over listeners_: an application's connection is accepted.      *)
Accept(s, h) ==
  /\ MayUpdate(s) /\ s \in listening
  /\ begun < MaxConns /\ h \in Fresh(s)
  /\ sock' = [sock EXCEPT ![s][h] = <<begun + 1, "source">>]
  /\ pending' = [pending EXCEPT ![s] = Put(@, nextFd[s], h)]
  /\ nextFd' = [nextFd EXCEPT ![s] = @ + 1]
  /\ Queue(s, [type |-> "request", fd |-> nextFd[s], conn |-> begun + 1])
  /\ begun' = begun + 1
  /\ UNCHANGED <<listening, active, nextId, answering, taken, sent, got,
                 hungUp, refused>>

(* The loop over active_sockets_, in either role, for an entry whose       *)
(* socket has data.                                                        *)
ForwardData(s, r, i) ==
  /\ MayUpdate(s) /\ i \in DOMAIN active[s][r]
  /\ LET e == sock[s][active[s][r][i]] IN
       /\ e # Closed /\ taken[e] < sent[e]
       /\ taken' = [taken EXCEPT ![e] = @ + 1]
       /\ Queue(s, [type |-> "data", id |-> i, chunk |-> <<e, taken[e] + 1>>])
  /\ UNCHANGED <<listening, sock, tables, answering, apps>>

(* Mutants: the end is sent before what is still unread; the entry goes    *)
(* with the socket, unannounced.                                           *)
ForwardClose_Unread(s, r, i) ==
  /\ MayUpdate(s) /\ i \in DOMAIN active[s][r]
  /\ LET h == active[s][r][i] IN
       /\ sock[s][h] \in hungUp
       /\ sock' = [sock EXCEPT ![s][h] = Closed]
       /\ Queue(s, [type |-> "closed", id |-> i])
  /\ UNCHANGED <<listening, tables, answering, taken, apps>>

ForwardClose_Silent(s, r, i) ==
  /\ MayUpdate(s) /\ i \in DOMAIN active[s][r]
  /\ LET h == active[s][r][i]
         e == sock[s][h] IN
       /\ e \in hungUp /\ taken[e] = sent[e]
       /\ sock' = [sock EXCEPT ![s][h] = Closed]
       /\ active' = [active EXCEPT ![s][r] = Drop(@, i)]
  /\ UNCHANGED <<listening, pending, nextFd, nextId, answering, net, taken,
                 apps>>

(* The same loop when recv returns 0: the socket is closed, and its entry  *)
(* stays.                                                                  *)
ForwardClose(s, r, i) ==
  /\ MayUpdate(s) /\ i \in DOMAIN active[s][r]
  /\ LET h == active[s][r][i]
         e == sock[s][h] IN
       /\ e \in hungUp /\ taken[e] = sent[e]
       /\ sock' = [sock EXCEPT ![s][h] = Closed]
       /\ Queue(s, [type |-> "closed", id |-> i])
  /\ UNCHANGED <<listening, tables, answering, taken, apps>>

(***************************************************************************)
(* HandlePacket                                                            *)
(***************************************************************************)

(* the next packet for side s, which is not in HandlePacket already *)
Incoming(s, type) ==
  /\ net[s] # <<>> /\ answering[s] = <<>>
  /\ Head(net[s]).type = type

(* Mutant: the counter is not moved on.                                    *)
Connect_SameId(s, h) ==
  /\ Incoming(s, "request") /\ h \in Fresh(s)
  /\ LET p == Head(net[s]) IN
       /\ sock' = [sock EXCEPT ![s][h] = <<p.conn, "target">>]
       /\ answering' = [answering EXCEPT ![s] =
            <<[type |-> "response", fd |-> p.fd, id |-> nextId[s]]>>]
  /\ active' = [active EXCEPT ![s]["target"] = Put(@, nextId[s], h)]
  /\ net' = [net EXCEPT ![s] = Tail(@)]
  /\ UNCHANGED <<listening, pending, nextFd, nextId, taken, apps>>

(* A request: the destination accepts; the new socket is active before the *)
(* response is sent.                                                       *)
Connect(s, h) ==
  /\ Incoming(s, "request") /\ h \in Fresh(s)
  /\ LET p == Head(net[s]) IN
       /\ sock' = [sock EXCEPT ![s][h] = <<p.conn, "target">>]
       /\ answering' = [answering EXCEPT ![s] =
            <<[type |-> "response", fd |-> p.fd, id |-> nextId[s]]>>]
  /\ active' = [active EXCEPT ![s]["target"] = Put(@, nextId[s], h)]
  /\ nextId' = [nextId EXCEPT ![s] = @ + 1]
  /\ net' = [net EXCEPT ![s] = Tail(@)]
  /\ UNCHANGED <<listening, pending, nextFd, taken, apps>>

(* A request: the destination refuses.                                     *)
ConnectFails(s) ==
  /\ MayRefuse /\ Incoming(s, "request")
  /\ LET p == Head(net[s]) IN
       /\ answering' =
            [answering EXCEPT ![s] = <<[type |-> "refusal", fd |-> p.fd]>>]
       /\ refused' = refused \cup {p.conn}
  /\ net' = [net EXCEPT ![s] = Tail(@)]
  /\ UNCHANGED <<listening, sock, tables, taken, sent, got, hungUp, begun>>

Respond(s) ==
  /\ answering[s] # <<>>
  /\ Queue(s, Head(answering[s]))
  /\ answering' = [answering EXCEPT ![s] = <<>>]
  /\ UNCHANGED <<listening, sock, tables, taken, apps>>

(* A response with a socket id.                                            *)
HandleResponse(s) ==
  /\ Incoming(s, "response")
  /\ LET p == Head(net[s]) IN
       IF p.fd \in DOMAIN pending[s]
         THEN /\ active' = [active EXCEPT ![s]["source"] =
                              Put(@, p.id, pending[s][p.fd])]
              /\ pending' = [pending EXCEPT ![s] = Drop(@, p.fd)]
         ELSE UNCHANGED <<active, pending>>
  /\ net' = [net EXCEPT ![s] = Tail(@)]
  /\ UNCHANGED <<listening, sock, nextFd, nextId, answering, taken, apps>>

(* A refusal has no socket id and is dropped, its error unread.            *)
HandleRefusal(s) ==
  /\ Incoming(s, "refusal")
  /\ net' = [net EXCEPT ![s] = Tail(@)]
  /\ UNCHANGED <<listening, sock, tables, answering, taken, apps>>

(* the handlers of side s that know the socket id i *)
Knowing(s, i) == {r \in Roles : i \in DOMAIN active[s][r]}

(* A handler that knows the id writes the piece to its socket.             *)
Take(g, s, r, p) ==
  [e \in Ends |->
     IF /\ r \in Knowing(s, p.id) /\ sock[s][active[s][r][p.id]] = e
        /\ e \notin hungUp
       THEN Append(g[e], p.chunk)
       ELSE g[e]]

(* Data is given to both handlers.                                         *)
HandleData(s) ==
  /\ Incoming(s, "data")
  /\ LET p == Head(net[s])
     IN got' = Take(Take(got, s, "target", p), s, "source", p)
  /\ net' = [net EXCEPT ![s] = Tail(@)]
  /\ UNCHANGED <<listening, sock, tables, answering, taken, sent, hungUp,
                 begun, refused>>

(* So is the end of a connection: whoever knows the id closes its socket   *)
(* and drops the entry.                                                    *)
HandleClosed(s) ==
  /\ Incoming(s, "closed")
  /\ LET i == Head(net[s]).id
         shut == {active[s][r][i] : r \in Knowing(s, i)} IN
       /\ sock' = [sock EXCEPT ![s] =
                     [h \in Handles |-> IF h \in shut THEN Closed ELSE @[h]]]
       /\ active' = [active EXCEPT ![s] = [r \in Roles |-> Drop(@[r], i)]]
  /\ net' = [net EXCEPT ![s] = Tail(@)]
  /\ UNCHANGED <<listening, pending, nextFd, nextId, answering, taken, apps>>

(***************************************************************************)
(* Applications                                                            *)
(***************************************************************************)
MayAct(e) ==
  /\ Open(e) /\ e \notin hungUp
  /\ \/ e[2] = "source" \/ got[e] # <<>>
     \/ \E s \in SpeakingFirst : OpenAt(s, e)

AppSends(e) ==
  /\ MayAct(e)
  /\ MapThenSumSet(LAMBDA x : sent[x], Ends) < MaxChunks
  /\ sent' = [sent EXCEPT ![e] = @ + 1]
  /\ UNCHANGED <<listening, sock, tables, answering, net, taken, got, hungUp,
                 begun, refused>>

AppHangsUp(e) ==
  /\ MayAct(e)
  /\ hungUp' = hungUp \cup {e}
  /\ UNCHANGED <<listening, sock, tables, answering, net, taken, sent, got,
                 begun, refused>>

Next ==
  \/ \E s \in Sides, h \in Handles : Accept(s, h)
  \/ \E s \in Sides, r \in Roles, i \in Conns : ForwardData(s, r, i)
  \/ \E s \in Sides, r \in Roles, i \in Conns : ForwardClose(s, r, i)
  \/ \E s \in Sides, h \in Handles : Connect(s, h)
  \/ \E s \in Sides : ConnectFails(s)
  \/ \E s \in Sides : Respond(s)
  \/ \E s \in Sides : HandleResponse(s)
  \/ \E s \in Sides : HandleRefusal(s)
  \/ \E s \in Sides : HandleData(s)
  \/ \E s \in Sides : HandleClosed(s)
  \/ \E e \in Ends : AppSends(e)
  \/ \E e \in Ends : AppHangsUp(e)

Spec == Init /\ [][Next]_vars

Update(s) ==
  \E r \in Roles, i \in Conns : ForwardData(s, r, i) \/ ForwardClose(s, r, i)

HandlePacket(s) ==
  \/ \E h \in Handles : Connect(s, h)
  \/ ConnectFails(s) \/ Respond(s)
  \/ HandleResponse(s) \/ HandleRefusal(s) \/ HandleData(s) \/ HandleClosed(s)

(* Both sides keep calling Update, which visits every entry, and           *)
(* HandlePacket with whatever the session delivers.  Applications need do  *)
(* nothing.                                                                *)
Fairness == \A s \in Sides : WF_vars(Update(s)) /\ WF_vars(HandlePacket(s))

FairSpec == Spec /\ Fairness

-----------------------------------------------------------------------------
(* An application receives what the application at the other end of its    *)
(* own connection has sent, from the first piece on and in order: the      *)
(* numbers of fds and sockets lead every packet to the right entry.        *)
RightStream ==
  \A e \in Ends : \A k \in DOMAIN got[e] : got[e][k] = <<Peer(e), k>>

InFlight(e) ==
  LET carrying(s) ==
        {k \in DOMAIN net[s] : net[s][k].type = "data" /\ net[s][k].chunk[1] = e}
  IN Cardinality(carrying("client")) + Cardinality(carrying("server"))

(* What a handler has read is in the session or has been written at the    *)
(* other end: no packet finds its entry missing or its socket closed,      *)
(* unless the application there has hung up.                               *)
NothingLost ==
  \A e \in Ends :
    Peer(e) \notin hungUp => taken[e] = Len(got[Peer(e)]) + InFlight(e)

(* A handler closes a socket only when its own application has hung up, or *)
(* when the other one has and all that one sent has been written here: the *)
(* end of one connection never ends, or cuts short, another.               *)
GracefulClose ==
  [][\A e \in Ends :
       Open(e) /\ ~Open(e)' =>
         \/ e \in hungUp
         \/ Peer(e) \in hungUp /\ Len(got[e]) = sent[Peer(e)]]_vars

(* What an application has sent arrives, even if it hangs up at once,      *)
(* unless the other one hangs up or the destination refused.               *)
Delivery ==
  \A e \in Ends, n \in 1..MaxChunks :
    sent[e] >= n ~> \/ Len(got[Peer(e)]) >= n
                    \/ Peer(e) \in hungUp \/ e[1] \in refused

(* When an application hangs up, both sockets are closed, also when it did *)
(* so before the destination was reached, or the other did so too.         *)
HangUpIsPassedOn ==
  \A e \in Ends :
    e \in hungUp ~> (e[1] \in refused \/ [](~Open(e) /\ ~Open(Peer(e))))

(* An application whose connection cannot be made is told: it is closed.   *)
RefusalIsPassedOn ==
  \A c \in Conns : c \in refused ~> ~Open(<<c, "source">>)
==============================================================================
