------------------------ MODULE PortForwardInvariant ------------------------
(***************************************************************************)
(* The inductive invariant of PortForward, in a session in which one side  *)
(* has the listeners and whose steps are Undisturbed.  In every part, s is *)
(* the side with the listeners and t the other one; x and y are the two in *)
(* either order.                                                           *)
(***************************************************************************)
EXTENDS PortForward

(* There is one kind of tunnel, forward or reverse.                        *)
OneSource == \E s \in Sides : listening = {s}

(* No handle that a map still mentions is given out to a new socket.       *)
NoStaleHandle ==
  \A s \in Sides, h \in Handles :
    sock[s][h] = Closed /\ sock'[s][h] # Closed => h \notin Mentioned(s)

(* No destination at the client sends, or hangs up, before it is sent to.  *)
ReverseWaits ==
  \A e \in Ends : e[2] = "target" /\ OpenAt("client", e) /\ got[e] = <<>> =>
    /\ sent'[e] = sent[e]
    /\ e \in hungUp' => e \in hungUp

Undisturbed == NoStaleHandle /\ ReverseWaits

(* the role in which a side has entries, its entries, and their sockets    *)
Role(x) == IF x \in listening THEN "source" ELSE "target"
Tab(x) == active[x][Role(x)]
At(x, i) == sock[x][Tab(x)[i]]

Elements(q) == {q[k] : k \in DOMAIN q}
Carried(x) == Elements(net[x])
Answers(x) == Elements(answering[x])

TypeInv ==
  /\ sock \in [Sides -> [Handles -> Ends \cup {Closed}]]
  /\ pending \in [Sides -> PartialMaps]
  /\ active \in [Sides -> [Roles -> PartialMaps]]
  /\ nextFd \in [Sides -> Nat] /\ nextId \in [Sides -> Nat]
  /\ answering \in [Sides -> Seq(Packets)] /\ net \in [Sides -> Seq(Packets)]
  /\ sent \in [Ends -> Nat] /\ taken \in [Ends -> Nat]
  /\ got \in [Ends -> Seq(Ends \X Nat)]
  /\ hungUp \subseteq Ends /\ begun \in 0..MaxConns

(* Which side has what.                                                    *)
SideInv(s, t) ==
  /\ listening = {s}
  /\ \A x \in {s, t}, h \in Handles :
       sock[x][h] # Closed => sock[x][h][2] = Role(x) /\ sock[x][h][1] <= begun
  /\ DOMAIN active[s]["target"] = {} /\ DOMAIN active[t]["source"] = {}
  /\ nextFd[s] = begun + 1
  /\ answering[s] = <<>> /\ Len(answering[t]) <= 1
  /\ \A p \in Answers(t) : p.type \in {"response", "refusal"}
  /\ \A p \in Carried(t) : p.type \in {"request", "data", "closed"}
  /\ \A p \in Carried(s) : p.type \in {"response", "refusal", "data", "closed"}

(* A socket has one handle, and a handle one entry.                        *)
HandleInv(s, t) ==
  /\ \A x \in {s, t} :
       /\ \A h, g \in Handles :
            sock[x][h] = sock[x][g] /\ sock[x][h] # Closed => h = g
       /\ \A i, j \in DOMAIN Tab(x) : Tab(x)[i] = Tab(x)[j] => i = j
  /\ \A fd \in DOMAIN pending[s], i \in DOMAIN Tab(s) :
       pending[s][fd] # Tab(s)[i]

(* A client that waits for its response has its socket under its number.   *)
PendingInv(s) ==
  \A fd \in DOMAIN pending[s] : sock[s][pending[s][fd]] = <<fd, "source">>

(* Ids in use have been given out, never more than there were requests.    *)
IdInv(s, t) ==
  /\ nextId[t] \in 1 .. begun + 1
  /\ \A p \in Carried(t) : p.type = "request" => nextId[t] <= p.conn
  /\ \A x \in {s, t} : \A i \in DOMAIN Tab(x) : i < nextId[t]
  /\ \A p \in Carried(s) \cup Carried(t) \cup Answers(t) :
       p.type \in {"response", "data", "closed"} => p.id < nextId[t]

(* A request: the destination has not been reached.                        *)
RequestInv(s, t) ==
  \A p \in Carried(t) : p.type = "request" =>
    /\ p.fd = p.conn /\ p.fd \in DOMAIN pending[s]
    /\ got[<<p.conn, "target">>] = <<>> /\ <<p.conn, "target">> \notin hungUp
    /\ \A h \in Handles : sock[t][h] # <<p.conn, "target">>

(* A response: the destination has been reached and has received nothing,  *)
(* and the client still waits.                                             *)
ResponseInv(s, t) ==
  \A p \in Carried(s) \cup Answers(t) : p.type = "response" =>
    /\ p.fd \in DOMAIN pending[s]
    /\ p.id \in DOMAIN Tab(t)
    /\ \/ At(t, p.id) = <<p.fd, "target">>
       \/ /\ At(t, p.id) = Closed /\ <<p.fd, "target">> \in hungUp
          /\ taken[<<p.fd, "target">>] = sent[<<p.fd, "target">>]
    /\ got[<<p.fd, "target">>] = <<>>
    /\ p.id \notin DOMAIN Tab(s)
    /\ \A q \in Carried(t) : q.type \in {"data", "closed"} => q.id # p.id

Response(e, i) == [type |-> "response", fd |-> e[1], id |-> i]

(* Id i leads to the end e on side x, or to its socket, closed since its   *)
(* application hung up.                                                    *)
Linked(x, i, e) ==
  /\ i \in DOMAIN Tab(x)
  /\ At(x, i) = e \/ (At(x, i) = Closed /\ e \in hungUp)

(* Both sides have a connection under the same id, from the response on.   *)
LinkInv(s, t) ==
  /\ \A i \in DOMAIN Tab(s) :
       At(s, i) # Closed => Linked(t, i, Peer(At(s, i)))
  /\ \A i \in DOMAIN Tab(t) : At(t, i) # Closed =>
       \/ Linked(s, i, Peer(At(t, i)))
       \/ Response(At(t, i), i) \in Carried(s) \cup Answers(t)

(* Data finds its entry, or the response that makes it is ahead.           *)
DataInv(x) ==
  \A p \in Carried(x) : p.type = "data" =>
    /\ Peer(p.chunk[1])[2] = Role(x)
    /\ \/ Linked(x, p.id, Peer(p.chunk[1]))
       \/ Response(p.chunk[1], p.id) \in Carried(x)

(* The end of a connection is sent once all has been, by the side that     *)
(* closed it.                                                              *)
CloseInv(x, y) ==
  \A p \in Carried(x) : p.type = "closed" =>
    /\ p.id \in DOMAIN Tab(y) => At(y, p.id) = Closed
    /\ p.id \in DOMAIN Tab(x) /\ At(x, p.id) # Closed =>
         /\ Peer(At(x, p.id)) \in hungUp
         /\ taken[Peer(At(x, p.id))] = sent[Peer(At(x, p.id))]

(* What p may be followed by.                                              *)
Before(p, q) ==
  /\ p.type = "request" /\ q.type = "request" => p.conn < q.conn
  /\ p.type = "response" /\ q.type = "response" => p.fd # q.fd /\ p.id # q.id
  /\ p.type \in {"data", "closed"} /\ q.type = "response" => p.id # q.id
  /\ p.type = "closed" /\ q.type = "data" => p.id # q.id
  /\ p.type = "data" /\ q.type = "data" /\ p.chunk[1] = q.chunk[1] =>
       p.chunk[2] < q.chunk[2]

Ordered(q) == \A j, k \in DOMAIN q : j < k => Before(q[j], q[k])

OrderInv(s, t) ==
  /\ Ordered(net[s]) /\ Ordered(net[t])
  /\ \A p \in Carried(s), q \in Answers(t) : Before(p, q)

(* The pieces of an end that are still to be written at the other one are  *)
(* on their way there.                                                     *)
StreamInv(x) ==
  /\ \A p \in Carried(x) : p.type = "data" =>
       p.chunk[2] <= taken[p.chunk[1]]
  /\ \A e \in Ends : e[2] = Role(x) /\ e \notin hungUp =>
       /\ Len(got[e]) <= taken[Peer(e)]
       /\ \A p \in Carried(x) : p.type = "data" /\ p.chunk[1] = Peer(e) =>
            p.chunk[2] > Len(got[e])
       /\ \A n \in Len(got[e]) + 1 .. taken[Peer(e)] :
            \E p \in Carried(x) : p.type = "data" /\ p.chunk = <<Peer(e), n>>

(* Who has received nothing: a destination at the client does nothing      *)
(* then, and nobody does whose connection has not been made.               *)
QuietInv(t) ==
  \A e \in Ends :
    /\ e[2] = "target" /\ got[e] = <<>> =>
         t = "server" \/ (sent[e] = 0 /\ e \notin hungUp)
    /\ e[1] > begun => got[e] = <<>> /\ e \notin hungUp

Sound(s, t) ==
  /\ QuietInv(t)
  /\ SideInv(s, t) /\ HandleInv(s, t) /\ PendingInv(s) /\ IdInv(s, t)
  /\ RequestInv(s, t) /\ ResponseInv(s, t) /\ OrderInv(s, t)
  /\ LinkInv(s, t) /\ DataInv(s) /\ DataInv(t)
  /\ CloseInv(s, t) /\ CloseInv(t, s) /\ StreamInv(s) /\ StreamInv(t)

IInv ==
  /\ TypeInv /\ RightStream
  /\ \E s, t \in Sides : s # t /\ Sound(s, t)
-----------------------------------------------------------------------------
(***************************************************************************)
(* What holds in every session, also where handles are reused or both      *)
(* kinds of tunnel have entries under one id, and pieces go astray.        *)
(***************************************************************************)

(* What an application receives of the pieces of one sender has been sent, *)
(* and is in the order of sending (a piece may be received twice).         *)
InOrderFromEach ==
  \A e \in Ends :
    /\ \A k \in DOMAIN got[e] : got[e][k][2] \in 1 .. sent[got[e][k][1]]
    /\ \A j, k \in DOMAIN got[e] :
         j < k /\ got[e][j][1] = got[e][k][1] => got[e][j][2] <= got[e][k][2]

(* The side of an end, if the destination of connection c is at way[c].    *)
Place(way, e) == IF e[2] = "target" THEN way[e[1]] ELSE Other(way[e[1]])

(* Each connection has its source at one side only, and its data one way.  *)
Ways(way) ==
  /\ \A z \in Sides, h \in Handles : sock[z][h] # Closed =>
       sock[z][h][1] <= begun /\ z = Place(way, sock[z][h])
  /\ \A z \in Sides : \A p \in Carried(z) :
       /\ p.type = "request" => p.conn <= begun /\ way[p.conn] = z
       /\ p.type = "data" =>
            p.chunk[1][1] <= begun /\ Other(z) = Place(way, p.chunk[1])

(* Ids are given out in the order of the requests, and never run out.      *)
Numbers ==
  \A z \in Sides :
    /\ nextFd[z] \in 1 .. begun + 1 /\ nextId[z] \in 1 .. begun + 1
    /\ \A p \in Carried(z) : p.type = "request" => nextId[z] <= p.conn
    /\ \A p \in Answers(z) : p.type \in {"response", "refusal"}
    /\ \A p \in Carried(z) \cup Answers(z) : p.type = "response" => p.id \in Conns

Follows(p, q) ==
  /\ p.type = "request" /\ q.type = "request" => p.conn < q.conn
  /\ p.type = "data" /\ q.type = "data" /\ p.chunk[1] = q.chunk[1] =>
       p.chunk[2] < q.chunk[2]

Sequenced(q) == \A j, k \in DOMAIN q : j < k => Follows(q[j], q[k])

(* What an end has received of a sender is behind what is on its way, and  *)
(* that behind what has not been read.                                     *)
Pieces ==
  /\ \A e \in Ends : taken[e] <= sent[e]
  /\ \A z \in Sides : \A p \in Carried(z) : p.type = "data" =>
       /\ p.chunk[2] \in 1 .. taken[p.chunk[1]]
       /\ \A e \in Ends : \A k \in DOMAIN got[e] :
            got[e][k][1] = p.chunk[1] => got[e][k][2] < p.chunk[2]
  /\ \A e \in Ends : \A k \in DOMAIN got[e] :
       got[e][k][2] \in 1 .. taken[got[e][k][1]]
  /\ \A e \in Ends : \A j, k \in DOMAIN got[e] :
       j < k /\ got[e][j][1] = got[e][k][1] => got[e][j][2] <= got[e][k][2]

Queues == \A z \in Sides : Sequenced(net[z])

Steady(way) == TypeInv /\ Ways(way) /\ Numbers /\ Queues /\ Pieces

OInv == \E way \in [Conns -> Sides] : Steady(way)
=============================================================================
