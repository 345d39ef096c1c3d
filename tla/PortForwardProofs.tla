-------------------------- MODULE PortForwardProofs --------------------------
(***************************************************************************)
(* Port forwarding: what an application receives, for any number of        *)
(* connections and pieces and all values of the switches.  First, of the   *)
(* sessions that have one kind of tunnel (OneSource), in which no handle   *)
(* that is still in a map is given out (NoStaleHandle) and no destination  *)
(* of a reverse tunnel acts before it is sent to (ReverseWaits): TLC finds *)
(* that none of the three can be left out.  Last, of every session.        *)
(***************************************************************************)
EXTENDS PortForwardInvariant, SequenceTheorems, FiniteSetTheorems,
        FunctionTheorems, TLAPS

LEMMA EndFacts ==
  /\ Closed \notin Ends
  /\ \A e \in Ends : e[1] \in Conns /\ e[2] \in Roles /\ e = <<e[1], e[2]>>
  /\ \A c \in Conns, r \in Roles : <<c, r>> \in Ends
  /\ \A e \in Ends : /\ Peer(e) \in Ends /\ Peer(Peer(e)) = e
                     /\ Peer(e)[1] = e[1] /\ Peer(e)[2] # e[2]
  /\ \A c : Peer(<<c, "source">>) = <<c, "target">>
  /\ \A c : Peer(<<c, "target">>) = <<c, "source">>
  /\ Roles = {"source", "target"}
  BY DEF Closed, Ends, Roles, Peer

LEMMA SideFacts ==
  ASSUME NEW s \in Sides, NEW t \in Sides, s # t
  PROVE  Sides = {s, t} /\ Other(s) = t /\ Other(t) = s
  BY DEF Sides, Other

LEMMA PacketFacts ==
  ASSUME NEW p \in Packets
  PROVE  /\ p.type \in {"request", "response", "refusal", "data", "closed"}
         /\ p.type = "request" => p.fd \in Nat /\ p.conn \in Conns
         /\ p.type = "response" =>
              p.fd \in Nat /\ p.id \in Nat
                /\ p = [type |-> "response", fd |-> p.fd, id |-> p.id]
         /\ p.type = "data" =>
              /\ p.id \in Nat /\ p.chunk \in Ends \X Nat
              /\ p.chunk[1] \in Ends /\ p.chunk[2] \in Nat
              /\ p.chunk = <<p.chunk[1], p.chunk[2]>>
         /\ p.type = "closed" => p.id \in Nat
  BY DEF Packets

LEMMA ResponseFacts ==
  /\ \A e, i : /\ Response(e, i).type = "response"
               /\ Response(e, i).fd = e[1] /\ Response(e, i).id = i
  /\ \A p \in Packets :
       p.type = "response" => p = Response(<<p.fd, "target">>, p.id)
<1>1. \A e, i : /\ Response(e, i).type = "response"
                /\ Response(e, i).fd = e[1] /\ Response(e, i).id = i
  BY DEF Response
<1>2. ASSUME NEW p \in Packets, p.type = "response"
      PROVE  p = Response(<<p.fd, "target">>, p.id)
  BY <1>2, PacketFacts DEF Response
<1>. QED  BY <1>1, <1>2

LEMMA NewPackets ==
  /\ \A fd \in Nat, c \in Conns :
       [type |-> "request", fd |-> fd, conn |-> c] \in Packets
  /\ \A fd, i \in Nat : [type |-> "response", fd |-> fd, id |-> i] \in Packets
  /\ \A fd \in Nat : [type |-> "refusal", fd |-> fd] \in Packets
  /\ \A i \in Nat, e \in Ends, n \in Nat :
       [type |-> "data", id |-> i, chunk |-> <<e, n>>] \in Packets
  /\ \A i \in Nat : [type |-> "closed", id |-> i] \in Packets
  BY DEF Packets

-----------------------------------------------------------------------------
(* Maps                                                                    *)

LEMMA MapFacts ==
  ASSUME NEW f
  PROVE  f \in PartialMaps <=> DOMAIN f \subseteq Conns /\ f \in [DOMAIN f -> Handles]
  BY DEF PartialMaps

LEMMA PutFacts ==
  ASSUME NEW f \in PartialMaps, NEW k \in Conns, NEW h \in Handles
  PROVE  /\ Put(f, k, h) \in PartialMaps
         /\ DOMAIN Put(f, k, h) = DOMAIN f \cup {k}
         /\ Put(f, k, h)[k] = h
         /\ \A x \in DOMAIN f : x # k => Put(f, k, h)[x] = f[x]
<1>. DEFINE g == Put(f, k, h)
<1>1. g = [x \in DOMAIN f \cup {k} |-> IF x = k THEN h ELSE f[x]]
  BY DEF Put
<1>2. DOMAIN f \subseteq Conns /\ f \in [DOMAIN f -> Handles]
  BY MapFacts
<1>3. DOMAIN g \subseteq Conns /\ g \in [DOMAIN g -> Handles]
  <2>. HIDE DEF g
  <2>. QED  BY <1>1, <1>2
<1>4. g \in PartialMaps
  <2>. HIDE DEF g
  <2>. QED  BY <1>3, MapFacts
<1>. QED  BY <1>1, <1>4

LEMMA DropFacts ==
  ASSUME NEW f \in PartialMaps, NEW k
  PROVE  /\ Drop(f, k) \in PartialMaps
         /\ DOMAIN Drop(f, k) = DOMAIN f \ {k}
         /\ \A x \in DOMAIN f \ {k} : Drop(f, k)[x] = f[x]
<1>. DEFINE g == Drop(f, k)
<1>1. g = [x \in DOMAIN f \ {k} |-> f[x]]
  BY DEF Drop
<1>2. DOMAIN f \subseteq Conns /\ f \in [DOMAIN f -> Handles]
  BY MapFacts
<1>3. DOMAIN g \subseteq Conns /\ g \in [DOMAIN g -> Handles]
  <2>. HIDE DEF g
  <2>. QED  BY <1>1, <1>2
<1>4. g \in PartialMaps
  <2>. HIDE DEF g
  <2>. QED  BY <1>3, MapFacts
<1>. QED  BY <1>1, <1>4

-----------------------------------------------------------------------------
(* Packets on their way                                                    *)

LEMMA ElementsTail ==
  ASSUME NEW q \in Seq(Packets), q # <<>>
  PROVE  /\ Head(q) \in Packets /\ Head(q) \in Elements(q)
         /\ Tail(q) \in Seq(Packets)
         /\ Elements(q) = Elements(Tail(q)) \cup {Head(q)}
         /\ Ordered(q) => Ordered(Tail(q)) /\ \A p \in Elements(Tail(q)) : Before(Head(q), p)
<1>1. /\ Len(q) \in Nat \ {0} /\ DOMAIN q = 1..Len(q) /\ Head(q) = q[1]
      /\ Len(Tail(q)) = Len(q) - 1 /\ DOMAIN Tail(q) = 1 .. Len(q) - 1
      /\ \A k \in 1 .. Len(q) - 1 : Tail(q)[k] = q[k + 1]
      /\ Tail(q) \in Seq(Packets) /\ Head(q) \in Packets
  BY HeadTailProperties
<1>2. Elements(q) = Elements(Tail(q)) \cup {Head(q)}
  <2>1. ASSUME NEW k \in DOMAIN q  PROVE q[k] \in Elements(Tail(q)) \cup {Head(q)}
    <3>1. CASE k = 1
      BY <1>1, <3>1
    <3>2. CASE k # 1
      <4>1. k - 1 \in DOMAIN Tail(q) /\ Tail(q)[k - 1] = q[k]
        BY <1>1, <3>2
      <4>. QED  BY <4>1 DEF Elements
    <3>. QED  BY <3>1, <3>2
  <2>2. ASSUME NEW k \in DOMAIN Tail(q)  PROVE Tail(q)[k] \in Elements(q)
    <3>1. k + 1 \in DOMAIN q /\ Tail(q)[k] = q[k + 1]
      BY <1>1
    <3>. QED  BY <3>1 DEF Elements
  <2>3. Head(q) \in Elements(q)
    BY <1>1 DEF Elements
  <2>. QED  BY <2>1, <2>2, <2>3 DEF Elements
<1>3. ASSUME Ordered(q)  PROVE Ordered(Tail(q))
  <2>. SUFFICES ASSUME NEW j \in DOMAIN Tail(q), NEW k \in DOMAIN Tail(q), j < k
                PROVE  Before(Tail(q)[j], Tail(q)[k])
    BY DEF Ordered
  <2>1. /\ j + 1 \in DOMAIN q /\ k + 1 \in DOMAIN q /\ j + 1 < k + 1
        /\ Tail(q)[j] = q[j + 1] /\ Tail(q)[k] = q[k + 1]
    BY <1>1
  <2>. QED  BY <1>3, <2>1 DEF Ordered
<1>4. ASSUME Ordered(q), NEW k \in DOMAIN Tail(q)  PROVE Before(Head(q), Tail(q)[k])
  <2>1. /\ 1 \in DOMAIN q /\ k + 1 \in DOMAIN q /\ 1 < k + 1
        /\ Tail(q)[k] = q[k + 1]
    BY <1>1
  <2>. QED  BY <1>1, <1>4, <2>1 DEF Ordered
<1>. QED  BY <1>1, <1>2, <1>3, <1>4 DEF Elements

LEMMA ElementsAppend ==
  ASSUME NEW q \in Seq(Packets), NEW p \in Packets
  PROVE  /\ Append(q, p) \in Seq(Packets)
         /\ Elements(Append(q, p)) = Elements(q) \cup {p}
         /\ Ordered(q) /\ (\A x \in Elements(q) : Before(x, p)) => Ordered(Append(q, p))
<1>. DEFINE a == Append(q, p)
<1>1. /\ Len(q) \in Nat /\ DOMAIN q = 1..Len(q) /\ DOMAIN a = 1 .. Len(q) + 1
      /\ \A k \in 1..Len(q) : a[k] = q[k]
      /\ a[Len(q) + 1] = p /\ a \in Seq(Packets)
  BY AppendProperties
<1>. HIDE DEF a
<1>2. Elements(a) = Elements(q) \cup {p}
  <2>1. \A k \in DOMAIN a : a[k] \in Elements(q) \cup {p}
    BY <1>1 DEF Elements
  <2>2. \A k \in DOMAIN q : k \in DOMAIN a /\ q[k] = a[k]
    BY <1>1
  <2>3. p \in Elements(a)
    BY <1>1 DEF Elements
  <2>. QED  BY <2>1, <2>2, <2>3 DEF Elements
<1>3. ASSUME Ordered(q), \A x \in Elements(q) : Before(x, p)  PROVE Ordered(a)
  <2>. SUFFICES ASSUME NEW j \in DOMAIN a, NEW k \in DOMAIN a, j < k
                PROVE  Before(a[j], a[k])
    BY DEF Ordered
  <2>1. j \in DOMAIN q /\ a[j] = q[j] /\ q[j] \in Elements(q)
    BY <1>1 DEF Elements
  <2>2. CASE k = Len(q) + 1
    BY <1>1, <1>3, <2>1, <2>2
  <2>3. CASE k # Len(q) + 1
    <3>1. k \in DOMAIN q /\ a[k] = q[k]
      BY <1>1, <2>3
    <3>. QED  BY <1>3, <2>1, <3>1 DEF Ordered
  <2>. QED  BY <2>2, <2>3
<1>. QED  BY <1>1, <1>2, <1>3 DEF a

(* What taking a packet, and sending one, do to the two queues.            *)
LEMMA TakeFacts ==
  ASSUME TypeInv, NEW x \in Sides, NEW y \in Sides, x # y, net[x] # <<>>,
         net' = [net EXCEPT ![x] = Tail(@)]
  PROVE  /\ net' \in [Sides -> Seq(Packets)]
         /\ Head(net[x]) \in Packets /\ Head(net[x]) \in Carried(x)
         /\ Carried(x) = Carried(x)' \cup {Head(net[x])} /\ Carried(y)' = Carried(y)
         /\ Ordered(net[x]) =>
              /\ Ordered(net'[x])
              /\ \A p \in Carried(x)' : Before(Head(net[x]), p)
         /\ net'[y] = net[y]
<1>1. net[x] \in Seq(Packets) /\ net \in [Sides -> Seq(Packets)]
  BY DEF TypeInv
<1>2. net'[x] = Tail(net[x]) /\ net'[y] = net[y]
  BY <1>1
<1>. QED  BY <1>1, <1>2, ElementsTail DEF Carried

LEMMA QueueFacts ==
  ASSUME TypeInv, NEW x \in Sides, NEW y \in Sides, x # y, NEW p \in Packets,
         Queue(y, p)
  PROVE  /\ net' \in [Sides -> Seq(Packets)]
         /\ Carried(x)' = Carried(x) \cup {p} /\ Carried(y)' = Carried(y)
         /\ Ordered(net[x]) /\ (\A q \in Carried(x) : Before(q, p)) => Ordered(net'[x])
         /\ net'[y] = net[y]
<1>1. net[x] \in Seq(Packets) /\ net \in [Sides -> Seq(Packets)]
  BY DEF TypeInv
<1>2. net'[x] = Append(net[x], p) /\ net'[y] = net[y]
  BY <1>1, SideFacts DEF Queue
<1>. QED  BY <1>1, <1>2, ElementsAppend, SideFacts DEF Carried, Queue

LEMMA CarriedTypes ==
  ASSUME TypeInv, NEW x \in Sides
  PROVE  /\ Carried(x) \subseteq Packets
         /\ Answers(x) \subseteq Packets
<1>1. net[x] \in Seq(Packets) /\ answering[x] \in Seq(Packets)
  BY DEF TypeInv
<1>. QED  BY <1>1 DEF Carried, Answers, Elements

-----------------------------------------------------------------------------
(* What every step starts from.                                            *)

Inv(s, t) == TypeInv /\ RightStream /\ Sound(s, t)

Places(s, t) ==
  /\ Role(s) = "source" /\ Role(t) = "target"
  /\ Tab(s) = active[s]["source"] /\ Tab(t) = active[t]["target"]

LEMMA PlaceFacts ==
  ASSUME NEW s \in Sides, NEW t \in Sides, s # t
  PROVE  /\ listening = {s} => Places(s, t)
         /\ listening' = {s} => Places(s, t)'
  BY DEF Role, Tab, Places

LEMMA SameTables ==
  ASSUME UNCHANGED <<listening, sock, active>>
  PROVE  /\ \A x : Role(x)' = Role(x) /\ Tab(x)' = Tab(x)
         /\ \A x, i : At(x, i)' = At(x, i)
  BY DEF Role, Tab, At

LEMMA TableTypes ==
  ASSUME TypeInv, NEW x \in Sides
  PROVE  /\ Tab(x) \in PartialMaps /\ DOMAIN Tab(x) \subseteq Conns
         /\ \A i \in DOMAIN Tab(x) : Tab(x)[i] \in Handles /\ At(x, i) \in Ends \cup {Closed}
         /\ \A fd \in DOMAIN pending[x] : pending[x][fd] \in Handles /\ fd \in Conns
<1>1. Role(x) \in Roles
  BY DEF Role, Roles
<1>2. Tab(x) \in PartialMaps /\ pending[x] \in PartialMaps
  BY <1>1 DEF TypeInv, Tab
<1>3. \A i \in DOMAIN Tab(x) : Tab(x)[i] \in Handles
  BY <1>2, MapFacts
<1>. QED  BY <1>2, <1>3, MapFacts DEF TypeInv, At

(* What a step that leaves alone all that a part of the invariant reads    *)
(* does to it.                                                             *)
LEMMA HandleFrame ==
  ASSUME NEW s, NEW t, HandleInv(s, t), UNCHANGED <<sock, pending>>,
         \A z : Tab(z)' = Tab(z)
  PROVE  HandleInv(s, t)'
  BY DEF HandleInv

LEMMA PendingFrame ==
  ASSUME NEW s, PendingInv(s), UNCHANGED <<sock, pending>>
  PROVE  PendingInv(s)'
  BY DEF PendingInv

LEMMA IdFrame ==
  ASSUME NEW s, NEW t, IdInv(s, t), UNCHANGED <<nextId, begun>>,
         \A z : Tab(z)' = Tab(z) /\ Answers(z)' = Answers(z),
         Carried(s)' \subseteq Carried(s), Carried(t)' \subseteq Carried(t)
  PROVE  IdInv(s, t)'
  BY DEF IdInv

LEMMA StreamFrame ==
  ASSUME NEW z, StreamInv(z), Role(z)' = Role(z), UNCHANGED <<taken, hungUp>>,
         \A e \in Ends : e[2] = Role(z) => got'[e] = got[e],
         \A p : p.type = "data" => (p \in Carried(z)' <=> p \in Carried(z))
  PROVE  StreamInv(z)'
<1>1. \A p \in Carried(z)' : p.type = "data" => p.chunk[2] <= taken'[p.chunk[1]]
  BY DEF StreamInv
<1>2. ASSUME NEW e \in Ends, e[2] = Role(z), e \notin hungUp
      PROVE  /\ got'[e] = got[e] /\ Len(got[e]) <= taken[Peer(e)]
             /\ \A p \in Carried(z)' : p.type = "data" /\ p.chunk[1] = Peer(e) =>
                  p.chunk[2] > Len(got[e])
             /\ \A n \in Len(got[e]) + 1 .. taken[Peer(e)] :
                  \E p \in Carried(z)' : p.type = "data" /\ p.chunk = <<Peer(e), n>>
  BY <1>2 DEF StreamInv
<1>. QED  BY <1>1, <1>2 DEF StreamInv

(* What an application that does something has to do with the tunnel.      *)
LEMMA ActorFacts ==
  ASSUME NEW s \in Sides, NEW t \in Sides, s # t, Inv(s, t),
         NEW e \in Ends, MayAct(e), ReverseWaits,
         sent'[e] # sent[e] \/ e \in hungUp'
  PROVE  /\ e \notin hungUp
         /\ e[2] = "source" \/ got[e] # <<>> \/ t = "server"
         /\ e[1] <= begun
         /\ \A p \in Carried(t) : p.type = "request" => <<p.conn, "target">> # e
<1>1. e \notin hungUp /\ Open(e)
  BY DEF MayAct
<1>2. Sides = {s, t} /\ Role(s) = "source" /\ Role(t) = "target" /\ e # Closed
  BY SideFacts, EndFacts, PlaceFacts DEF Inv, Sound, SideInv, Places
<1>3. \A z \in Sides : OpenAt(z, e) => e[2] = Role(z) /\ e[1] <= begun
  BY <1>2 DEF Inv, Sound, SideInv, OpenAt
<1>4. e[1] <= begun /\ (e[2] = "target" => OpenAt(t, e))
  BY <1>1, <1>2, <1>3 DEF Open
<1>5. e[2] = "source" \/ got[e] # <<>> \/ t = "server"
  <2>. SUFFICES ASSUME e[2] # "source", got[e] = <<>>, t # "server"  PROVE FALSE
    OBVIOUS
  <2>1. e[2] = "target" /\ t = "client"
    BY EndFacts DEF Roles, Sides
  <2>2. OpenAt("client", e)
    BY <1>4, <2>1
  <2>. QED  BY <1>1, <2>1, <2>2 DEF ReverseWaits
<1>6. ASSUME NEW p \in Carried(t), p.type = "request"  PROVE <<p.conn, "target">> # e
  BY <1>4, <1>6 DEF Inv, Sound, RequestInv, OpenAt
<1>. QED  BY <1>1, <1>4, <1>5, <1>6

LEMMA AppSendsStep ==
  ASSUME NEW s \in Sides, NEW t \in Sides, s # t, Inv(s, t),
         NEW e \in Ends, AppSends(e), ReverseWaits
  PROVE  Inv(s, t)'
<1>1. /\ MayAct(e) /\ sent' = [sent EXCEPT ![e] = @ + 1]
      /\ UNCHANGED <<listening, sock, tables, answering, net, taken, got, hungUp,
                     begun, refused>>
  BY DEF AppSends
<1>0. sent'[e] # sent[e]
  <2>1. sent \in [Ends -> Nat] /\ sent[e] \in Nat
    BY DEF Inv, TypeInv
  <2>. QED  BY <1>1, <2>1
<1>2. /\ UNCHANGED <<listening, sock, active, pending, nextFd, nextId, answering, net,
                     taken, got, hungUp, begun>>
      /\ e \notin hungUp
      /\ e[2] = "source" \/ got[e] # <<>> \/ t = "server"
  BY <1>0, <1>1, ActorFacts DEF tables
<1>. USE DEF Inv, Sound
<1>3. /\ \A x : Role(x)' = Role(x) /\ Tab(x)' = Tab(x)
      /\ \A x : Carried(x)' = Carried(x) /\ Answers(x)' = Answers(x)
      /\ \A x, i : At(x, i)' = At(x, i)
  BY <1>2, SameTables DEF Carried, Answers
<1>4. sent \in [Ends -> Nat] /\ \A x \in Ends \ {e} : sent'[x] = sent[x]
  BY <1>1 DEF TypeInv
<1>5. sent' \in [Ends -> Nat]
  BY <1>1, <1>4
<1>6. TypeInv'
  BY <1>2, <1>5 DEF TypeInv
<1>7. QuietInv(t)'
  BY <1>4, <1>2, EndFacts DEF QuietInv
<1>8. RightStream'
  BY <1>2 DEF RightStream
<1>9. \A x \in Sides, y \in Sides : CloseInv(x, y) => CloseInv(x, y)'
  BY <1>1, <1>2, <1>3 DEF CloseInv, TypeInv
<1>10. SideInv(s, t)' /\ HandleInv(s, t)' /\ PendingInv(s)' /\ IdInv(s, t)'
  <2>1. SideInv(s, t)'
    BY <1>2, <1>3 DEF SideInv
  <2>2. HandleInv(s, t)'
    BY <1>2, <1>3 DEF HandleInv
  <2>3. PendingInv(s)'
    BY <1>2, <1>3 DEF PendingInv
  <2>4. IdInv(s, t)'
    BY <1>2, <1>3 DEF IdInv
  <2>. QED  BY <2>1, <2>2, <2>3, <2>4
<1>11. RequestInv(s, t)' /\ ResponseInv(s, t)' /\ OrderInv(s, t)'
  <2>1. \A f \in hungUp : sent'[f] = sent[f]
    BY <1>1, <1>2 DEF TypeInv
  <2>. QED  BY <1>2, <1>3, <2>1 DEF RequestInv, ResponseInv, OrderInv
<1>12. LinkInv(s, t)' /\ DataInv(s)' /\ DataInv(t)'
  BY <1>2, <1>3 DEF LinkInv, DataInv, Linked
<1>13. StreamInv(s)' /\ StreamInv(t)'
  BY <1>2, <1>3 DEF StreamInv
<1>. QED  BY <1>6, <1>7, <1>8, <1>9, <1>10, <1>11, <1>12, <1>13

LEMMA AppHangsUpStep ==
  ASSUME NEW s \in Sides, NEW t \in Sides, s # t, Inv(s, t),
         NEW e \in Ends, AppHangsUp(e), ReverseWaits
  PROVE  Inv(s, t)'
<1>1. /\ UNCHANGED <<listening, sock, active, pending, nextFd, nextId, answering, net,
                     taken, sent, got, begun>>
      /\ hungUp' = hungUp \cup {e}
      /\ e[2] = "source" \/ got[e] # <<>> \/ t = "server"
      /\ e[1] <= begun
      /\ \A p \in Carried(t) : p.type = "request" => <<p.conn, "target">> # e
  BY ActorFacts DEF AppHangsUp, tables
<1>. USE DEF Inv, Sound
<1>2. /\ \A x : Role(x)' = Role(x) /\ Tab(x)' = Tab(x)
      /\ \A x : Carried(x)' = Carried(x) /\ Answers(x)' = Answers(x)
      /\ \A x, i : At(x, i)' = At(x, i)
  BY <1>1, SameTables DEF Carried, Answers
<1>3. TypeInv'
  BY <1>1 DEF TypeInv
<1>4. QuietInv(t)' /\ RightStream'
  <2>1. e[1] \in Nat /\ begun \in Nat
    BY EndFacts, ConnsAssumption DEF TypeInv, Conns
  <2>2. ~(e[1] > begun)
    BY <1>1, <2>1
  <2>. QED  BY <1>1, <2>2, EndFacts DEF QuietInv, RightStream
<1>5. \A x \in Sides, y \in Sides : CloseInv(x, y) => CloseInv(x, y)'
  BY <1>1, <1>2 DEF CloseInv
<1>6. SideInv(s, t)' /\ HandleInv(s, t)' /\ PendingInv(s)' /\ IdInv(s, t)'
  BY <1>1, <1>2 DEF SideInv, HandleInv, PendingInv, IdInv
<1>7. RequestInv(s, t)' /\ ResponseInv(s, t)' /\ OrderInv(s, t)'
  BY <1>1, <1>2 DEF RequestInv, ResponseInv, OrderInv
<1>8. \A x, i, f : Linked(x, i, f) => Linked(x, i, f)'
  BY <1>1, <1>2 DEF Linked
<1>9. LinkInv(s, t)' /\ DataInv(s)' /\ DataInv(t)'
  BY <1>1, <1>2, <1>8 DEF LinkInv, DataInv
<1>10. StreamInv(s)' /\ StreamInv(t)'
  BY <1>1, <1>2 DEF StreamInv
<1>. QED  BY <1>3, <1>4, <1>5, <1>6, <1>7, <1>9, <1>10

(* A step that takes a request or a refusal from the network, or sends a   *)
(* response or a refusal.                                                  *)
LEMMA PacketStep ==
  ASSUME NEW s \in Sides, NEW t \in Sides, s # t, Inv(s, t), TypeInv',
         UNCHANGED <<listening, sock, tables, sent, taken, got, hungUp, begun>>,
         answering'[s] = <<>>, Len(answering'[t]) <= 1, OrderInv(s, t)',
         Carried(t)' \subseteq Carried(t), Carried(s)' \subseteq Carried(s) \cup Answers(t),
         \A p \in Answers(t)' : p \in Answers(t) \/ p.type = "refusal",
         \A p \in Carried(s) \cup Answers(t) :
           p.type = "response" => p \in Carried(s)' \cup Answers(t)',
         \A x \in {s, t} : \A p \in Carried(x) :
           p.type \in {"data", "response"} => p \in Carried(x)'
  PROVE  Inv(s, t)'
<1>. USE DEF Inv, Sound, tables
<1>1. /\ \A x : Role(x)' = Role(x) /\ Tab(x)' = Tab(x)
      /\ \A x, i : At(x, i)' = At(x, i)
  BY SameTables
<1>2. QuietInv(t)' /\ RightStream'
  BY DEF QuietInv, RightStream
<1>3. \A p \in Carried(s) \cup Answers(t) : p.type # "request"
  BY DEF SideInv
<1>4. \A p \in Answers(t) \cup Answers(t)' : p.type \in {"response", "refusal"}
  BY DEF SideInv
<1>5. SideInv(s, t)'
  BY <1>1, <1>4 DEF SideInv
<1>6. HandleInv(s, t)' /\ PendingInv(s)'
  <2>1. UNCHANGED <<sock, pending>> /\ \A z : Tab(z)' = Tab(z)
    BY <1>1
  <2>2. HandleInv(s, t) /\ PendingInv(s)
    OBVIOUS
  <2>. QED  BY <2>1, <2>2, HandleFrame, PendingFrame
<1>7. IdInv(s, t)'
  BY <1>1 DEF IdInv
<1>8. RequestInv(s, t)' /\ ResponseInv(s, t)'
  BY <1>1 DEF RequestInv, ResponseInv
<1>9. LinkInv(s, t)'
  <2>1. \A e, i : Response(e, i) \in Carried(s) \cup Answers(t)
                    => Response(e, i) \in Carried(s)' \cup Answers(t)'
    BY DEF Response
  <2>2. \A x, i, f : Linked(x, i, f)' <=> Linked(x, i, f)
    BY <1>1 DEF Linked
  <2>. QED  BY <1>1, <2>1, <2>2 DEF LinkInv
<1>10. \A x \in {s, t} : \A p \in Carried(x)' :
         p.type \in {"data", "closed"} => p \in Carried(x)
  BY <1>4
<1>11. DataInv(s)' /\ DataInv(t)'
  <2>1. \A e, i : \A x \in {s, t} :
          Response(e, i) \in Carried(x) => Response(e, i) \in Carried(x)'
    BY ResponseFacts
  <2>2. \A x, i, f : Linked(x, i, f)' <=> Linked(x, i, f)
    BY <1>1 DEF Linked
  <2>. QED  BY <1>1, <1>10, <2>1, <2>2 DEF DataInv
<1>12. CloseInv(s, t)' /\ CloseInv(t, s)'
  BY <1>1, <1>10 DEF CloseInv
<1>13. ASSUME NEW z \in {s, t}  PROVE StreamInv(z)'
  <2>1. \A p : p.type = "data" => (p \in Carried(z)' <=> p \in Carried(z))
    BY <1>10
  <2>2. StreamInv(z) /\ Role(z)' = Role(z) /\ UNCHANGED <<taken, got, hungUp>>
    BY <1>1
  <2>3. \A e \in Ends : e[2] = Role(z) => got'[e] = got[e]
    BY <2>2
  <2>. QED  BY <2>1, <2>2, <2>3, StreamFrame
<1>. QED  BY <1>2, <1>5, <1>6, <1>7, <1>8, <1>9, <1>11, <1>12, <1>13

(* What side x knows when it takes a packet.                               *)
LEMMA IncomingFacts ==
  ASSUME NEW s \in Sides, NEW t \in Sides, s # t, Inv(s, t), NEW x \in Sides,
         NEW type, Incoming(x, type), net' = [net EXCEPT ![x] = Tail(@)]
  PROVE  /\ net' \in [Sides -> Seq(Packets)]
         /\ Head(net[x]) \in Packets /\ Head(net[x]) \in Carried(x)
         /\ Head(net[x]).type = type
         /\ Carried(x) = Carried(x)' \cup {Head(net[x])}
         /\ \A p \in Carried(x)' : Before(Head(net[x]), p)
         /\ \A y \in Sides : y # x => Carried(y)' = Carried(y)
         /\ Ordered(net'[s]) /\ Ordered(net'[t])
         /\ answering[x] = <<>>
         /\ x = s => type # "request"
         /\ x = t => type \in {"request", "data", "closed"} /\ Answers(t) = {}
<1>. USE DEF Inv, Sound
<1>1. Sides = {s, t}
  BY SideFacts
<1>2. net[x] # <<>> /\ answering[x] = <<>> /\ Head(net[x]).type = type
  BY DEF Incoming
<1>3. Ordered(net[s]) /\ Ordered(net[t])
  BY DEF OrderInv
<1>4. /\ net' \in [Sides -> Seq(Packets)]
      /\ Head(net[x]) \in Packets /\ Head(net[x]) \in Carried(x)
      /\ Carried(x) = Carried(x)' \cup {Head(net[x])}
      /\ \A p \in Carried(x)' : Before(Head(net[x]), p)
      /\ \A y \in Sides : y # x => Carried(y)' = Carried(y) /\ net'[y] = net[y]
      /\ Ordered(net'[x])
  BY <1>1, <1>2, <1>3, TakeFacts
<1>5. Ordered(net'[s]) /\ Ordered(net'[t])
  BY <1>1, <1>3, <1>4
<1>6. x = s => type # "request"
  BY <1>2, <1>4 DEF SideInv
<1>7. x = t => type \in {"request", "data", "closed"} /\ Answers(t) = {}
  BY <1>2, <1>4 DEF SideInv, Answers, Elements
<1>. QED  BY <1>2, <1>4, <1>5, <1>6, <1>7

LEMMA OneAnswer ==
  ASSUME NEW p
  PROVE  Elements(<<p>>) = {p} /\ Elements(<<>>) = {} /\ Len(<<p>>) = 1 /\ <<p>> # <<>>
  BY DEF Elements

LEMMA HandleRefusalStep ==
  ASSUME NEW s \in Sides, NEW t \in Sides, s # t, Inv(s, t),
         NEW x \in Sides, HandleRefusal(x)
  PROVE  Inv(s, t)'
<1>1. /\ Incoming(x, "refusal") /\ net' = [net EXCEPT ![x] = Tail(@)]
      /\ UNCHANGED <<listening, sock, tables, answering, sent, taken, got, hungUp, begun>>
  BY DEF HandleRefusal, apps
<1>. DEFINE p == Head(net[x])
<1>2. x = s /\ Sides = {s, t}
  <2>1. x = t => "refusal" \in {"request", "data", "closed"}
    BY <1>1, IncomingFacts
  <2>. QED  BY <2>1, SideFacts
<1>3. /\ net' \in [Sides -> Seq(Packets)] /\ p.type = "refusal"
      /\ Carried(s) = Carried(s)' \cup {p} /\ Carried(t)' = Carried(t)
      /\ Ordered(net'[s]) /\ Ordered(net'[t])
  BY <1>1, <1>2, IncomingFacts
<1>. HIDE DEF p
<1>4. TypeInv'
  BY <1>1, <1>3 DEF Inv, TypeInv, tables
<1>5. Answers(t)' = Answers(t)
  BY <1>1 DEF Answers
<1>6. OrderInv(s, t)'
  BY <1>3, <1>5 DEF Inv, Sound, OrderInv
<1>7. answering'[s] = <<>> /\ Len(answering'[t]) <= 1
  BY <1>1 DEF Inv, Sound, SideInv
<1>. QED  BY <1>1, <1>2, <1>3, <1>4, <1>5, <1>6, <1>7, PacketStep

LEMMA ConnectFailsStep ==
  ASSUME NEW s \in Sides, NEW t \in Sides, s # t, Inv(s, t),
         NEW x \in Sides, ConnectFails(x)
  PROVE  Inv(s, t)'
<1>. DEFINE p == Head(net[x])
            r == [type |-> "refusal", fd |-> p.fd]
<1>1. /\ Incoming(x, "request") /\ net' = [net EXCEPT ![x] = Tail(@)]
      /\ UNCHANGED <<listening, sock, tables, sent, taken, got, hungUp, begun>>
      /\ answering' = [answering EXCEPT ![x] = <<r>>]
  BY DEF ConnectFails
<1>2. x = t /\ Sides = {s, t}
  <2>1. x # s
    BY <1>1, IncomingFacts
  <2>. QED  BY <2>1, SideFacts
<1>3. /\ net' \in [Sides -> Seq(Packets)] /\ p.type = "request" /\ p \in Packets
      /\ Carried(t) = Carried(t)' \cup {p} /\ Carried(s)' = Carried(s)
      /\ Ordered(net'[s]) /\ Ordered(net'[t]) /\ Answers(t) = {}
  BY <1>1, <1>2, IncomingFacts
<1>. HIDE DEF p
<1>4. r \in Packets /\ r.type = "refusal"
  BY <1>3, PacketFacts, NewPackets
<1>. HIDE DEF r
<1>5. answering \in [Sides -> Seq(Packets)] /\ answering[s] = <<>>
  BY DEF Inv, Sound, SideInv, TypeInv
<1>6. answering' \in [Sides -> Seq(Packets)] /\ answering'[t] = <<r>> /\ answering'[s] = <<>>
  <2>. DEFINE q == <<r>>
  <2>1. q \in Seq(Packets) /\ answering' = [answering EXCEPT ![t] = q]
    BY <1>1, <1>2, <1>4
  <2>. HIDE DEF q
  <2>2. answering' \in [Sides -> Seq(Packets)] /\ answering'[t] = q /\ answering'[s] = <<>>
    BY <1>5, <2>1
  <2>. QED  BY <2>2 DEF q
<1>7. TypeInv'
  BY <1>1, <1>3, <1>6 DEF Inv, TypeInv, tables
<1>8. Answers(t)' = {r} /\ Len(answering'[t]) = 1
  BY <1>6, OneAnswer DEF Answers
<1>9. OrderInv(s, t)'
  BY <1>3, <1>4, <1>8 DEF OrderInv, Before
<1>. QED  BY <1>1, <1>2, <1>3, <1>4, <1>6, <1>7, <1>8, <1>9, PacketStep

LEMMA RespondStep ==
  ASSUME NEW s \in Sides, NEW t \in Sides, s # t, Inv(s, t),
         NEW x \in Sides, Respond(x)
  PROVE  Inv(s, t)'
<1>. DEFINE p == Head(answering[x])
<1>1. /\ answering[x] # <<>> /\ Queue(x, p)
      /\ UNCHANGED <<listening, sock, tables, sent, taken, got, hungUp, begun>>
      /\ answering' = [answering EXCEPT ![x] = <<>>]
  BY DEF Respond, apps
<1>. USE DEF Inv, Sound
<1>2. x = t /\ Sides = {s, t}
  BY <1>1, SideFacts DEF SideInv
<1>3. answering[t] \in Seq(Packets) /\ Len(answering[t]) <= 1
  BY DEF SideInv, TypeInv
<1>4. p \in Packets /\ Answers(t) = {p}
  <2>. DEFINE q == answering[t]
  <2>1. q \in Seq(Packets) /\ q # <<>> /\ Len(q) <= 1 /\ p = Head(q)
    BY <1>1, <1>2, <1>3
  <2>. HIDE DEF q, p
  <2>2. Len(q) = 1 /\ p = q[1] /\ DOMAIN q = {1}
    <3>1. /\ Len(q) \in Nat /\ Len(q) # 0 /\ p = q[1] /\ DOMAIN q = 1..Len(q)
      BY <2>1, EmptySeq, HeadTailProperties
    <3>2. Len(q) = 1
      BY <2>1, <3>1
    <3>. QED  BY <3>1, <3>2
  <2>. USE DEF q
  <2>3. Len(answering[t]) = 1 /\ p = answering[t][1] /\ DOMAIN answering[t] = {1}
    BY <2>2
  <2>. QED  BY <1>3, <2>3 DEF Answers, Elements
<1>. HIDE DEF p
<1>5. Ordered(net[s]) /\ Ordered(net[t]) /\ \A q \in Carried(s) : Before(q, p)
  BY <1>4 DEF OrderInv
<1>6. /\ net' \in [Sides -> Seq(Packets)]
      /\ Carried(s)' = Carried(s) \cup {p} /\ Carried(t)' = Carried(t)
      /\ Ordered(net'[s]) /\ Ordered(net'[t])
  BY <1>1, <1>2, <1>4, <1>5, QueueFacts
<1>7. answering' \in [Sides -> Seq(Packets)] /\ answering'[t] = <<>> /\ answering'[s] = <<>>
  <2>1. answering \in [Sides -> Seq(Packets)] /\ answering[s] = <<>>
    BY DEF SideInv, TypeInv
  <2>. QED  BY <1>1, <1>2, <2>1, EmptySeq
<1>8. TypeInv'
  BY <1>1, <1>6, <1>7 DEF TypeInv, tables
<1>9. Answers(t)' = {} /\ Len(answering'[t]) <= 1
  BY <1>7 DEF Answers, Elements
<1>10. OrderInv(s, t)'
  BY <1>6, <1>9 DEF OrderInv
<1>. QED  BY <1>1, <1>4, <1>6, <1>7, <1>8, <1>9, <1>10, PacketStep

-----------------------------------------------------------------------------
(* Update                                                                  *)

LEMMA RoleFacts ==
  ASSUME NEW s \in Sides, NEW t \in Sides, s # t, Inv(s, t)
  PROVE  /\ Places(s, t) /\ listening = {s}
         /\ \A x \in Sides, y \in Sides : x # y => Role(x) # Role(y)
         /\ \A x \in Sides : Role(x) \in Roles
         /\ \A x \in Sides, r \in Roles : r # Role(x) => DOMAIN active[x][r] = {}
         /\ \A x \in Sides : \A i \in DOMAIN Tab(x) : At(x, i) # Closed => At(x, i)[2] = Role(x)
<1>1. Places(s, t) /\ listening = {s} /\ Sides = {s, t}
  BY PlaceFacts, SideFacts DEF Inv, Sound, SideInv
<1>2. \A x \in Sides : \A i \in DOMAIN Tab(x) : At(x, i) # Closed => At(x, i)[2] = Role(x)
  BY <1>1, TableTypes DEF Inv, Sound, SideInv, At
<1>. QED  BY <1>1, <1>2 DEF Places, Roles, Inv, Sound, SideInv

(* The socket of an entry whose application has sent, or has hung up.      *)
Acts(x, r, i, e) ==
  /\ MayUpdate(x) /\ i \in DOMAIN active[x][r]
  /\ e = sock[x][active[x][r][i]] /\ e # Closed
  /\ e \in hungUp \/ taken[e] < sent[e]

LEMMA EntryFacts ==
  ASSUME NEW s \in Sides, NEW t \in Sides, s # t, Inv(s, t),
         NEW x \in Sides, NEW y \in Sides, x # y,
         NEW r \in Roles, NEW i, NEW e, Acts(x, r, i, e)
  PROVE  /\ r = Role(x) /\ i \in DOMAIN Tab(x) /\ active[x][r] = Tab(x) /\ At(x, i) = e
         /\ e \in Ends /\ e[2] = Role(x) /\ Peer(e)[2] = Role(y) /\ i \in Nat
         /\ Linked(y, i, Peer(e)) \/ Response(e, i) \in Carried(y)
         /\ \A q \in Answers(t) : q.type = "response" => q.id # i
<1>. USE DEF Acts
<1>. USE DEF Inv, Sound
<1>1. Sides = {s, t} /\ Places(s, t)
  BY SideFacts, RoleFacts
<1>2. r = Role(x)
  BY RoleFacts
<1>3. active[x][r] = Tab(x) /\ i \in DOMAIN Tab(x) /\ At(x, i) = e
  BY <1>2 DEF Tab, At
<1>4. e \in Ends /\ e[2] = Role(x) /\ i \in Conns
  BY <1>3, TableTypes, RoleFacts
<1>5. Role(y) \in Roles /\ Role(x) # Role(y)
  BY RoleFacts
<1>6. Peer(e)[2] = Role(y)
  BY <1>2, <1>4, <1>5, EndFacts
<1>7. ASSUME x = s  PROVE Linked(y, i, Peer(e))
  <2>1. y = t /\ i \in DOMAIN Tab(s) /\ At(s, i) = e
    BY <1>1, <1>3, <1>7
  <2>2. Linked(t, i, Peer(e))
    BY <2>1 DEF LinkInv
  <2>. QED  BY <2>1, <2>2
<1>8. ASSUME NEW q \in Answers(t), q.type = "response"  PROVE q.id # i
  <2>. SUFFICES ASSUME q.id = i  PROVE FALSE
    OBVIOUS
  <2>1. /\ i \notin DOMAIN Tab(s) /\ got[<<q.fd, "target">>] = <<>>
        /\ At(t, i) \in {<<q.fd, "target">>, Closed}
    BY <1>8 DEF ResponseInv
  <2>2. x = t /\ e = <<q.fd, "target">>
    BY <1>1, <1>3, <2>1
  <2>3. sent[e] \in Nat /\ taken[e] \in Nat
    BY <1>4 DEF TypeInv
  <2>4. t = "server" \/ (sent[e] = 0 /\ e \notin hungUp)
    BY <1>4, <2>1, <2>2 DEF QuietInv
  <2>5. t = "server"
    <3>1. ~(sent[e] = 0 /\ e \notin hungUp)
      BY <2>3
    <3>. QED  BY <2>4, <3>1
  <2>6. answering[t] = <<>>
    BY <2>2, <2>5 DEF MayUpdate
  <2>. QED  BY <2>6, OneAnswer DEF Answers
<1>9. ASSUME x = t  PROVE Linked(y, i, Peer(e)) \/ Response(e, i) \in Carried(y)
  <2>1. y = s /\ i \in DOMAIN Tab(t) /\ At(t, i) = e
    BY <1>1, <1>3, <1>9
  <2>2. Response(e, i) \notin Answers(t)
    BY <1>8, ResponseFacts
  <2>3. Linked(s, i, Peer(e)) \/ Response(e, i) \in Carried(s) \cup Answers(t)
    BY <2>1 DEF LinkInv
  <2>. QED  BY <2>1, <2>2, <2>3
<1>. QED  BY <1>1, <1>2, <1>3, <1>4, <1>6, <1>7, <1>8, <1>9 DEF Conns

LEMMA ForwardDataStep ==
  ASSUME NEW s \in Sides, NEW t \in Sides, s # t, Inv(s, t),
         NEW x \in Sides, NEW r \in Roles, NEW i \in Conns, ForwardData(x, r, i)
  PROVE  Inv(s, t)'
<1>. DEFINE e == sock[x][active[x][r][i]]
            p == [type |-> "data", id |-> i, chunk |-> <<e, taken[e] + 1>>]
<1>1. /\ i \in DOMAIN active[x][r] /\ e # Closed /\ taken[e] < sent[e] /\ MayUpdate(x)
      /\ taken' = [taken EXCEPT ![e] = @ + 1] /\ Queue(x, p)
      /\ UNCHANGED <<listening, sock, tables, answering, sent, got, hungUp, begun>>
  BY DEF ForwardData, apps
<1>2. PICK y \in Sides : x # y /\ Sides = {x, y} /\ Sides = {s, t}
  BY SideFacts
<1>3. /\ r = Role(x) /\ i \in DOMAIN Tab(x) /\ At(x, i) = e
      /\ e \in Ends /\ e[2] = Role(x) /\ Peer(e)[2] = Role(y) /\ Role(x) # Role(y)
      /\ Linked(y, i, Peer(e)) \/ Response(e, i) \in Carried(y)
      /\ i \in Nat /\ \A q \in Answers(t) : q.type = "response" => q.id # i
  <2>1. e = sock[x][active[x][r][i]]
    OBVIOUS
  <2>. HIDE DEF e
  <2>2. i \in DOMAIN active[x][r] /\ e # Closed /\ taken[e] < sent[e] /\ MayUpdate(x)
    BY <1>1
  <2>3. /\ r = Role(x) /\ i \in DOMAIN Tab(x) /\ At(x, i) = e
        /\ e \in Ends /\ e[2] = Role(x) /\ Peer(e)[2] = Role(y)
        /\ Linked(y, i, Peer(e)) \/ Response(e, i) \in Carried(y)
        /\ i \in Nat /\ \A q \in Answers(t) : q.type = "response" => q.id # i
    <3>. HIDE DEF p
    <3>1. Acts(x, r, i, e)
      BY <2>1, <2>2 DEF Acts
    <3>. QED  BY <1>2, <3>1, EntryFacts
  <2>. QED  BY <1>2, <2>3, RoleFacts
<1>. DEFINE n == taken[e]
<1>4. /\ n \in Nat /\ taken' \in [Ends -> Nat] /\ taken'[e] = n + 1
      /\ \A f \in Ends : f # e => taken'[f] = taken[f]
  <2>. HIDE DEF e
  <2>1. taken \in [Ends -> Nat] /\ n \in Nat /\ e \in Ends
    BY <1>3 DEF Inv, TypeInv
  <2>2. taken' = [taken EXCEPT ![e] = n + 1]
    BY <1>1
  <2>. HIDE DEF n
  <2>. QED  BY <2>1, <2>2
<1>5. p \in Packets
  <2>. HIDE DEF e
  <2>. QED  BY <1>3, <1>4, NewPackets
<1>6. p.type = "data" /\ p.id = i /\ p.chunk[1] = e /\ p.chunk[2] = n + 1 /\ p.chunk = <<e, n + 1>>
  OBVIOUS
<1>. USE DEF Inv, Sound, tables
<1>. HIDE DEF p, n, e
<1>7. \A q \in Carried(y) : Before(q, p)
  <2>. SUFFICES ASSUME NEW q \in Carried(y)  PROVE Before(q, p)
    OBVIOUS
  <2>1. q.type = "closed" => q.id # i
    BY <1>1, <1>2, <1>3 DEF CloseInv
  <2>2. q.type = "data" /\ q.chunk[1] = e => q.chunk[2] <= n
    BY <1>2 DEF StreamInv, n
  <2>3. q.type = "data" /\ q.chunk[1] = e => q.chunk[2] < n + 1
    <3>1. q \in Packets
      BY CarriedTypes
    <3>. QED  BY <2>2, <3>1, <1>4, PacketFacts
  <2>. QED  BY <1>6, <2>1, <2>3 DEF Before
<1>8. Ordered(net[y]) /\ Ordered(net[x])
  BY <1>2 DEF OrderInv
<1>9. /\ net' \in [Sides -> Seq(Packets)]
      /\ Carried(y)' = Carried(y) \cup {p} /\ Carried(x)' = Carried(x)
      /\ Ordered(net'[x]) /\ Ordered(net'[y])
  BY <1>1, <1>2, <1>5, <1>7, <1>8, QueueFacts
<1>10. /\ \A z : Role(z)' = Role(z) /\ Tab(z)' = Tab(z) /\ Answers(z)' = Answers(z)
       /\ \A z, j : At(z, j)' = At(z, j)
       /\ \A z, j, f : Linked(z, j, f)' <=> Linked(z, j, f)
  BY <1>1, SameTables DEF Answers, Linked
<1>11. TypeInv' /\ QuietInv(t)' /\ RightStream'
  BY <1>1, <1>4, <1>9 DEF TypeInv, QuietInv, RightStream
<1>12. SideInv(s, t)'
  BY <1>1, <1>2, <1>6, <1>9, <1>10 DEF SideInv
<1>13. HandleInv(s, t)' /\ PendingInv(s)'
  <2>1. UNCHANGED <<sock, pending>> /\ \A z : Tab(z)' = Tab(z)
    BY <1>1, <1>10
  <2>2. HandleInv(s, t) /\ PendingInv(s)
    OBVIOUS
  <2>. QED  BY <2>1, <2>2, HandleFrame, PendingFrame
<1>14. IdInv(s, t)'
  <2>1. i < nextId[t]
    BY <1>2, <1>3 DEF IdInv
  <2>. QED  BY <1>1, <1>2, <1>6, <1>9, <1>10, <2>1 DEF IdInv
<1>15. RequestInv(s, t)'
  BY <1>1, <1>2, <1>6, <1>9 DEF RequestInv
<1>16. ResponseInv(s, t)'
  <2>1. ASSUME NEW q \in Carried(s) \cup Answers(t), q.type = "response", y = t
        PROVE  q.id # i
    BY <1>2, <1>3, <2>1 DEF ResponseInv
  <2>2. \A f \in hungUp : taken[f] = sent[f] => taken'[f] = sent[f]
    <3>1. taken[e] # sent[e]
      BY <1>1, <1>4 DEF n
    <3>. QED  BY <1>4, <3>1 DEF TypeInv
  <2>3. \A q \in Carried(s)' \cup Answers(t)' :
          q.type = "response" => q \in Carried(s) \cup Answers(t)
    BY <1>2, <1>6, <1>9, <1>10
  <2>4. \A q \in Carried(t)' : q.type \in {"data", "closed"} =>
          q \in Carried(t) \/ (y = t /\ q.id = i)
    BY <1>2, <1>6, <1>9
  <2>. QED  BY <1>1, <1>10, <2>1, <2>2, <2>3, <2>4 DEF ResponseInv
<1>17. OrderInv(s, t)'
  <2>1. \A q \in Answers(t) : Before(p, q)
    BY <1>3, <1>6 DEF SideInv, Before
  <2>. QED  BY <1>2, <1>9, <1>10, <2>1 DEF OrderInv
<1>18. LinkInv(s, t)'
  BY <1>2, <1>9, <1>10 DEF LinkInv
<1>19. DataInv(s)' /\ DataInv(t)'
  <2>1. /\ Peer(p.chunk[1])[2] = Role(y)
        /\ \/ Linked(y, p.id, Peer(p.chunk[1]))
           \/ Response(p.chunk[1], p.id) \in Carried(y)
    BY <1>3, <1>6
  <2>2. \A z \in Sides : Carried(z) \subseteq Carried(z)'
    BY <1>2, <1>9
  <2>. QED  BY <1>2, <1>9, <1>10, <2>1, <2>2 DEF DataInv
<1>20. ASSUME NEW a \in Sides, NEW b \in Sides, a # b, CloseInv(a, b)  PROVE CloseInv(a, b)'
  <2>. SUFFICES ASSUME NEW q \in Carried(a), q.type = "closed"
                PROVE  /\ q.id \in DOMAIN Tab(b) => At(b, q.id) = Closed
                       /\ q.id \in DOMAIN Tab(a) /\ At(a, q.id) # Closed =>
                            /\ Peer(At(a, q.id)) \in hungUp
                            /\ taken'[Peer(At(a, q.id))] = sent[Peer(At(a, q.id))]
    BY <1>1, <1>2, <1>6, <1>9, <1>10 DEF CloseInv
  <2>1. q.id \in DOMAIN Tab(a) /\ At(a, q.id) # Closed => At(a, q.id) \in Ends
    BY TableTypes
  <2>2. taken[e] # sent[e]
    BY <1>1, <1>4 DEF n
  <2>. QED  BY <1>4, <1>20, <2>1, <2>2, EndFacts DEF CloseInv
<1>21. \A q \in Carried(x) \cup Carried(y) :
         q.type = "data" => q.chunk[1] \in Ends /\ q.chunk[2] \in Nat /\ q.chunk[2] <= taken'[q.chunk[1]]
  <2>. SUFFICES ASSUME NEW q \in Carried(x) \cup Carried(y), q.type = "data"
                PROVE  q.chunk[1] \in Ends /\ q.chunk[2] \in Nat /\ q.chunk[2] <= taken'[q.chunk[1]]
    OBVIOUS
  <2>1. q \in Packets
    BY CarriedTypes
  <2>2. q.chunk[1] \in Ends /\ q.chunk[2] \in Nat
    BY <2>1, PacketFacts
  <2>3. q.chunk[2] <= taken[q.chunk[1]]
    BY <1>2 DEF StreamInv
  <2>4. taken[q.chunk[1]] <= taken'[q.chunk[1]] /\ taken[q.chunk[1]] \in Nat /\ taken'[q.chunk[1]] \in Nat
    <3>1. taken \in [Ends -> Nat]
      BY DEF TypeInv
    <3>2. CASE q.chunk[1] = e
      BY <1>4, <2>2, <3>1, <3>2 DEF n
    <3>3. CASE q.chunk[1] # e
      BY <1>4, <2>2, <3>1, <3>3
    <3>. QED  BY <3>2, <3>3
  <2>. QED  BY <2>2, <2>3, <2>4
<1>22. StreamInv(x)'
  <2>1. \A q \in Carried(x)' : q.type = "data" => q.chunk[2] <= taken'[q.chunk[1]]
    BY <1>9, <1>21
  <2>2. ASSUME NEW f \in Ends, f[2] = Role(x), f \notin hungUp
        PROVE  /\ Len(got[f]) <= taken'[Peer(f)]
               /\ \A q \in Carried(x) : q.type = "data" /\ q.chunk[1] = Peer(f) =>
                    q.chunk[2] > Len(got[f])
               /\ \A m \in Len(got[f]) + 1 .. taken'[Peer(f)] :
                    \E q \in Carried(x) : q.type = "data" /\ q.chunk = <<Peer(f), m>>
    <3>1. taken'[Peer(f)] = taken[Peer(f)]
      BY <1>3, <1>4, <2>2, EndFacts
    <3>. QED  BY <1>2, <2>2, <3>1 DEF StreamInv
  <2>3. Role(x)' = Role(x) /\ Carried(x)' = Carried(x) /\ UNCHANGED <<hungUp, got>>
    BY <1>1, <1>9, <1>10
  <2>. QED  BY <2>1, <2>2, <2>3 DEF StreamInv
<1>23. StreamInv(y)'
  <2>1. \A q \in Carried(y)' : q.type = "data" => q.chunk[2] <= taken'[q.chunk[1]]
    BY <1>4, <1>6, <1>9, <1>21
  <2>2. ASSUME NEW f \in Ends, f[2] = Role(y), f \notin hungUp
        PROVE  /\ Len(got[f]) <= taken'[Peer(f)]
               /\ \A q \in Carried(y)' : q.type = "data" /\ q.chunk[1] = Peer(f) =>
                    q.chunk[2] > Len(got[f])
               /\ \A m \in Len(got[f]) + 1 .. taken'[Peer(f)] :
                    \E q \in Carried(y)' : q.type = "data" /\ q.chunk = <<Peer(f), m>>
    <3>. DEFINE l == Len(got[f])
    <3>1. l \in Nat /\ Peer(f) \in Ends
      <4>1. got[f] \in Seq(Ends \X Nat)
        BY DEF TypeInv
      <4>2. l \in Nat
        BY <4>1, LenProperties
      <4>. QED  BY <4>2, EndFacts
    <3>2. /\ l <= taken[Peer(f)]
          /\ \A q \in Carried(y) : q.type = "data" /\ q.chunk[1] = Peer(f) => q.chunk[2] > l
          /\ \A m \in l + 1 .. taken[Peer(f)] :
               \E q \in Carried(y) : q.type = "data" /\ q.chunk = <<Peer(f), m>>
      BY <1>2, <2>2 DEF StreamInv
    <3>. HIDE DEF l
    <3>3. CASE Peer(f) # e
      <4>1. taken'[Peer(f)] = taken[Peer(f)]
        BY <1>4, <3>1, <3>3
      <4>. QED  BY <1>6, <1>9, <3>2, <3>3, <4>1 DEF l
    <3>4. CASE Peer(f) = e
      <4>1. taken'[Peer(f)] = n + 1 /\ taken[Peer(f)] = n
        BY <1>4, <3>4 DEF n
      <4>2. l <= n /\ n + 1 > l /\ l <= n + 1
        BY <1>4, <3>1, <3>2, <4>1
      <4>3. \A q \in Carried(y)' : q.type = "data" /\ q.chunk[1] = e => q.chunk[2] > l
        BY <1>6, <1>9, <3>2, <3>4, <4>2
      <4>4. \A m \in l + 1 .. n + 1 : m = n + 1 \/ m \in l + 1 .. n
        BY <1>4, <3>1
      <4>5. \A m \in l + 1 .. n + 1 :
              \E q \in Carried(y)' : q.type = "data" /\ q.chunk = <<e, m>>
        BY <1>6, <1>9, <3>2, <3>4, <4>1, <4>4
      <4>. QED  BY <3>4, <4>1, <4>2, <4>3, <4>5 DEF l
    <3>. QED  BY <3>3, <3>4
  <2>. QED  BY <1>1, <1>10, <2>1, <2>2 DEF StreamInv
<1>. QED  BY <1>2, <1>11, <1>12, <1>13, <1>14, <1>15, <1>16, <1>17, <1>18, <1>19, <1>20, <1>22, <1>23

LEMMA ForwardCloseStep ==
  ASSUME NEW s \in Sides, NEW t \in Sides, s # t, Inv(s, t),
         NEW x \in Sides, NEW r \in Roles, NEW i \in Conns, ForwardClose(x, r, i)
  PROVE  Inv(s, t)'
<1>. DEFINE h == active[x][r][i]
            e == sock[x][h]
            p == [type |-> "closed", id |-> i]
<1>1. /\ i \in DOMAIN active[x][r] /\ e \in hungUp /\ taken[e] = sent[e] /\ MayUpdate(x)
      /\ sock' = [sock EXCEPT ![x][h] = Closed] /\ Queue(x, p)
      /\ UNCHANGED <<listening, tables, answering, taken, sent, got, hungUp, begun>>
  BY DEF ForwardClose, apps
<1>2. PICK y \in Sides : x # y /\ Sides = {x, y} /\ Sides = {s, t}
  BY SideFacts
<1>3. p \in Packets /\ p.type = "closed" /\ p.id = i /\ i \in Nat
  BY NewPackets DEF Conns
<1>4. /\ i \in DOMAIN Tab(x) /\ h = Tab(x)[i] /\ At(x, i) = e
      /\ e \in Ends /\ e # Closed /\ e[2] = Role(x)
      /\ Linked(y, i, Peer(e)) \/ Response(e, i) \in Carried(y)
      /\ \A q \in Answers(t) : q.type = "response" => q.id # i
  <2>1. e = sock[x][active[x][r][i]] /\ h = active[x][r][i]
    OBVIOUS
  <2>. HIDE DEF e, h
  <2>2. e # Closed
    BY <1>1, EndFacts DEF Inv, TypeInv
  <2>3. /\ i \in DOMAIN Tab(x) /\ active[x][r] = Tab(x) /\ At(x, i) = e
        /\ e \in Ends /\ e[2] = Role(x)
        /\ Linked(y, i, Peer(e)) \/ Response(e, i) \in Carried(y)
        /\ \A q \in Answers(t) : q.type = "response" => q.id # i
    <3>. HIDE DEF p
    <3>1. Acts(x, r, i, e)
      BY <1>1, <2>1, <2>2 DEF Acts
    <3>. QED  BY <1>2, <3>1, EntryFacts
  <2>. QED  BY <2>1, <2>2, <2>3
<1>. HIDE DEF p, e, h
<1>. USE DEF Inv, Sound, tables
<1>5. /\ sock' \in [Sides -> [Handles -> Ends \cup {Closed}]] /\ h \in Handles
      /\ sock'[x][h] = Closed
      /\ \A z \in Sides, g \in Handles : z # x \/ g # h => sock'[z][g] = sock[z][g]
  <2>1. sock \in [Sides -> [Handles -> Ends \cup {Closed}]] /\ h \in Handles
    BY <1>4, TableTypes DEF TypeInv
  <2>. QED  BY <1>1, <2>1
<1>6. /\ \A z : Role(z)' = Role(z) /\ Tab(z)' = Tab(z) /\ Answers(z)' = Answers(z)
      /\ UNCHANGED <<active, pending, nextFd, nextId>>
  BY <1>1 DEF Role, Tab, Answers
<1>7. /\ At(x, i)' = Closed
      /\ \A z \in Sides : \A j \in DOMAIN Tab(z) : z # x \/ j # i => At(z, j)' = At(z, j)
  <2>1. ASSUME NEW z \in Sides, NEW j \in DOMAIN Tab(z), z # x \/ j # i
        PROVE  At(z, j)' = At(z, j)
    <3>1. z # x \/ Tab(z)[j] # h
      BY <1>2, <1>4, <2>1 DEF HandleInv
    <3>. QED  BY <1>5, <1>6, <3>1, TableTypes DEF At
  <2>. QED  BY <1>4, <1>5, <1>6, <2>1 DEF At
<1>8. \A j, f : \A z \in Sides : Linked(z, j, f) => Linked(z, j, f)'
  <2>. SUFFICES ASSUME NEW z \in Sides, NEW j, NEW f, Linked(z, j, f)  PROVE Linked(z, j, f)'
    OBVIOUS
  <2>1. CASE z = x /\ j = i
    BY <1>1, <1>4, <1>6, <1>7, <2>1 DEF Linked
  <2>2. CASE z # x \/ j # i
    BY <1>1, <1>6, <1>7, <2>2 DEF Linked
  <2>. QED  BY <2>1, <2>2
<1>9. \A q \in Carried(y) : Before(q, p)
  BY <1>3 DEF Before
<1>10. Ordered(net[y]) /\ Ordered(net[x])
  BY <1>2 DEF OrderInv
<1>11. /\ net' \in [Sides -> Seq(Packets)]
       /\ Carried(y)' = Carried(y) \cup {p} /\ Carried(x)' = Carried(x)
       /\ Ordered(net'[x]) /\ Ordered(net'[y])
  BY <1>1, <1>2, <1>3, <1>9, <1>10, QueueFacts
<1>12. TypeInv' /\ QuietInv(t)' /\ RightStream'
  <2>1. TypeInv'
    BY <1>1, <1>5, <1>6, <1>11 DEF TypeInv
  <2>. QED  BY <1>1, <2>1 DEF QuietInv, RightStream
<1>13. SideInv(s, t)'
  <2>1. \A z \in {s, t}, g \in Handles :
          sock'[z][g] # Closed => sock'[z][g][2] = Role(z) /\ sock'[z][g][1] <= begun
    BY <1>2, <1>5 DEF SideInv
  <2>. QED  BY <1>1, <1>2, <1>3, <1>6, <1>11, <2>1 DEF SideInv
<1>14. HandleInv(s, t)'
  <2>1. \A z \in {s, t}, g, k \in Handles :
          sock'[z][g] = sock'[z][k] /\ sock'[z][g] # Closed => g = k
    BY <1>2, <1>5 DEF HandleInv
  <2>. QED  BY <1>2, <1>6, <2>1 DEF HandleInv
<1>15. PendingInv(s)'
  <2>1. ASSUME NEW fd \in DOMAIN pending[s]
        PROVE  sock'[s][pending[s][fd]] = sock[s][pending[s][fd]]
    <3>1. pending[s][fd] \in Handles /\ (x = s => pending[s][fd] # h)
      BY <1>4, TableTypes DEF HandleInv
    <3>. QED  BY <1>5, <3>1
  <2>. QED  BY <1>6, <2>1 DEF PendingInv
<1>16. IdInv(s, t)'
  <2>1. i < nextId[t]
    BY <1>2, <1>4 DEF IdInv
  <2>. QED  BY <1>1, <1>2, <1>3, <1>6, <1>11, <2>1 DEF IdInv
<1>17. RequestInv(s, t)'
  <2>1. \A c : (\A g \in Handles : sock[t][g] # <<c, "target">>)
                 => \A g \in Handles : sock'[t][g] # <<c, "target">>
    <3>1. \A c : <<c, "target">> # Closed
      BY DEF Closed
    <3>2. \A g \in Handles : sock'[t][g] \in {sock[t][g], Closed}
      BY <1>5
    <3>. QED  BY <3>1, <3>2
  <2>. QED  BY <1>1, <1>2, <1>3, <1>6, <1>11, <2>1 DEF RequestInv
<1>18. ResponseInv(s, t)'
  <2>1. ASSUME NEW q \in Carried(s) \cup Answers(t), q.type = "response"
        PROVE  /\ y = t => q.id # i
               /\ \/ At(t, q.id)' = At(t, q.id)
                  \/ /\ At(t, q.id)' = Closed /\ <<q.fd, "target">> \in hungUp
                     /\ taken[<<q.fd, "target">>] = sent[<<q.fd, "target">>]
    <3>1. y = t => q.id # i
      BY <1>2, <1>4, <2>1 DEF ResponseInv
    <3>2. /\ q.id \in DOMAIN Tab(t)
          /\ At(t, q.id) \in {<<q.fd, "target">>, Closed}
      BY <2>1 DEF ResponseInv
    <3>3. CASE x # t \/ q.id # i
      BY <1>7, <3>1, <3>2, <3>3
    <3>4. CASE x = t /\ q.id = i
      BY <1>1, <1>2, <1>4, <1>7, <3>2, <3>4
    <3>. QED  BY <3>3, <3>4
  <2>2. \A q \in Carried(t)' : q.type = "closed" /\ q \notin Carried(t) => y = t /\ q.id = i
    BY <1>2, <1>3, <1>11
  <2>3. \A q \in Carried(s)' : q.type = "response" => q \in Carried(s)
    BY <1>2, <1>3, <1>11
  <2>4. \A q \in Carried(t)' : q.type = "data" => q \in Carried(t)
    BY <1>2, <1>3, <1>11
  <2>. QED  BY <1>1, <1>6, <2>1, <2>2, <2>3, <2>4 DEF ResponseInv
<1>19. OrderInv(s, t)'
  <2>1. \A q \in Answers(t) : Before(p, q)
    BY <1>3, <1>4 DEF SideInv, Before
  <2>. QED  BY <1>2, <1>6, <1>11, <2>1 DEF OrderInv
<1>20. \A z \in Sides : \A j \in DOMAIN Tab(z) : At(z, j)' \in {At(z, j), Closed}
  BY <1>7
<1>21. LinkInv(s, t)'
  BY <1>2, <1>6, <1>8, <1>11, <1>20 DEF LinkInv
<1>22. DataInv(s)' /\ DataInv(t)'
  <2>1. \A z \in Sides : Carried(z) \subseteq Carried(z)'
    BY <1>2, <1>11
  <2>. QED  BY <1>2, <1>3, <1>6, <1>8, <1>11, <2>1 DEF DataInv
<1>23. ASSUME NEW a \in Sides, NEW b \in Sides, a # b, CloseInv(a, b)  PROVE CloseInv(a, b)'
  <2>. SUFFICES ASSUME NEW q \in Carried(a)', q.type = "closed"
                PROVE  /\ q.id \in DOMAIN Tab(b) => At(b, q.id)' = Closed
                       /\ q.id \in DOMAIN Tab(a) /\ At(a, q.id)' # Closed =>
                            /\ Peer(At(a, q.id)') \in hungUp
                            /\ taken[Peer(At(a, q.id)')] = sent[Peer(At(a, q.id)')]
    BY <1>1, <1>6 DEF CloseInv
  <2>1. CASE q \in Carried(a)
    BY <1>20, <1>23, <2>1 DEF CloseInv
  <2>2. CASE q \notin Carried(a)
    <3>1. a = y /\ b = x /\ q.id = i
      BY <1>2, <1>3, <1>11, <1>23, <2>2
    <3>2. i \in DOMAIN Tab(y) => At(y, i)' = At(y, i) /\ At(y, i) \in {Closed, Peer(e)}
      <4>1. CASE Linked(y, i, Peer(e))
        BY <1>2, <1>7, <4>1 DEF Linked
      <4>2. CASE Response(e, i) \in Carried(y)
        <5>1. y = s
          BY <1>2, <4>2, ResponseFacts DEF SideInv
        <5>2. PICK w \in Carried(s) : w.type = "response" /\ w.id = i
          BY <4>2, <5>1, ResponseFacts
        <5>. QED  BY <5>1, <5>2 DEF ResponseInv
      <4>. QED  BY <1>4, <4>1, <4>2
    <3>. QED  BY <1>1, <1>4, <1>6, <1>7, <3>1, <3>2, EndFacts
  <2>. QED  BY <2>1, <2>2
<1>24. ASSUME NEW z \in {s, t}  PROVE StreamInv(z)'
  <2>1. \A q : q.type = "data" => (q \in Carried(z)' <=> q \in Carried(z))
    BY <1>2, <1>3, <1>11
  <2>2. StreamInv(z) /\ Role(z)' = Role(z) /\ UNCHANGED <<taken, got, hungUp>>
    BY <1>1, <1>6
  <2>3. \A k \in Ends : k[2] = Role(z) => got'[k] = got[k]
    BY <2>2
  <2>. QED  BY <2>1, <2>2, <2>3, StreamFrame
<1>. QED  BY <1>2, <1>12, <1>13, <1>14, <1>15, <1>16, <1>17, <1>18, <1>19, <1>21, <1>22, <1>23, <1>24

LEMMA FreshFacts ==
  ASSUME NEW s \in Sides, NEW t \in Sides, s # t, Inv(s, t), NoStaleHandle,
         NEW x \in Sides, NEW h \in Handles, h \in Fresh(x), sock'[x][h] # Closed
  PROVE  /\ sock[x][h] = Closed
         /\ \A i \in DOMAIN Tab(x) : Tab(x)[i] # h
         /\ \A fd \in DOMAIN pending[x] : pending[x][fd] # h
<1>1. sock[x][h] = Closed /\ h \notin Mentioned(x)
  BY DEF Fresh, Free, NoStaleHandle
<1>2. \A i \in DOMAIN Tab(x) : Tab(x)[i] \in Mentioned(x)
  <2>1. Role(x) \in Roles /\ Tab(x) = active[x][Role(x)]
    BY DEF Role, Roles, Tab
  <2>. QED  BY <2>1 DEF Mentioned
<1>3. \A fd \in DOMAIN pending[x] : pending[x][fd] \in Mentioned(x)
  BY DEF Mentioned
<1>. QED  BY <1>1, <1>2, <1>3

LEMMA SocketFacts ==
  ASSUME NEW s \in Sides, NEW t \in Sides, s # t, Inv(s, t)
  PROVE  /\ begun \in Nat
         /\ \A z \in Sides, g \in Handles : sock[z][g] # Closed =>
              /\ sock[z][g] \in Ends /\ sock[z][g][1] \in Nat
              /\ sock[z][g][1] <= begun /\ sock[z][g][2] = Role(z)
<1>1. begun \in Nat /\ sock \in [Sides -> [Handles -> Ends \cup {Closed}]]
  BY ConnsAssumption DEF Inv, TypeInv
<1>2. Conns \subseteq Nat
  BY DEF Conns
<1>. QED  BY <1>1, <1>2, SideFacts, EndFacts DEF Inv, Sound, SideInv

LEMMA AcceptStep ==
  ASSUME NEW s \in Sides, NEW t \in Sides, s # t, Inv(s, t), NoStaleHandle,
         NEW x \in Sides, NEW h \in Handles, Accept(x, h)
  PROVE  Inv(s, t)'
<1>. DEFINE c == begun + 1
            fd == nextFd[x]
            p == [type |-> "request", fd |-> fd, conn |-> c]
            e == <<c, "source">>
<1>1. /\ x \in listening /\ begun < MaxConns /\ h \in Fresh(x)
      /\ sock' = [sock EXCEPT ![x][h] = e]
      /\ pending' = [pending EXCEPT ![x] = Put(@, fd, h)]
      /\ nextFd' = [nextFd EXCEPT ![x] = @ + 1]
      /\ Queue(x, p) /\ begun' = c
      /\ UNCHANGED <<listening, active, nextId, answering, taken, sent, got, hungUp>>
  BY DEF Accept
<1>. USE DEF Inv, Sound
<1>2. x = s /\ Sides = {s, t} /\ fd = c
  BY <1>1, SideFacts DEF SideInv
<1>3. /\ c \in Conns /\ e \in Ends /\ e # Closed /\ begun \in Nat /\ begun < c
      /\ p \in Packets /\ fd \in Nat
  <2>1. begun \in Nat /\ begun + 1 \in Conns
    BY <1>1, ConnsAssumption DEF Conns, TypeInv
  <2>2. fd \in Nat
    BY <1>2, <2>1
  <2>. HIDE DEF fd
  <2>. QED  BY <2>1, <2>2, EndFacts, NewPackets
<1>4. p.type = "request" /\ p.fd = c /\ p.conn = c
  BY <1>2
<1>5. e[1] = c /\ e[2] = "source"
  OBVIOUS
<1>. HIDE DEF p, fd
<1>6. \A g \in Handles : sock[s][g] # e /\ sock[t][g] # <<c, "target">>
  <2>. HIDE DEF c
  <2>1. \A z \in {s, t}, g \in Handles : sock[z][g] # Closed => sock[z][g][1] # c
    <3>1. c \in Nat /\ begun \in Nat /\ begun < c
      BY <1>3 DEF Conns
    <3>2. \A n \in Nat : n <= begun => n # c
      BY <3>1
    <3>. QED  BY <1>2, <3>2, SocketFacts
  <2>2. <<c, "target">> # Closed /\ <<c, "target">>[1] = c
    BY DEF Closed
  <2>3. ASSUME NEW g \in Handles  PROVE sock[s][g] # e
    BY <1>3, <1>5, <2>1
  <2>4. ASSUME NEW g \in Handles  PROVE sock[t][g] # <<c, "target">>
    BY <2>1, <2>2
  <2>. QED  BY <2>3, <2>4
<1>. HIDE DEF e
<1>7. /\ sock[s][h] = Closed
      /\ \A i \in DOMAIN Tab(s) : Tab(s)[i] # h
      /\ \A k \in DOMAIN pending[s] : pending[s][k] # h
  <2>1. sock'[s][h] # Closed
    BY <1>1, <1>2, <1>3 DEF TypeInv
  <2>. QED  BY <1>1, <1>2, <2>1, FreshFacts
<1>8. /\ sock' \in [Sides -> [Handles -> Ends \cup {Closed}]]
      /\ sock'[s][h] = e /\ sock'[t] = sock[t]
      /\ \A g \in Handles : g # h => sock'[s][g] = sock[s][g]
  BY <1>1, <1>2, <1>3 DEF TypeInv
<1>9. /\ pending' \in [Sides -> PartialMaps]
      /\ DOMAIN pending'[s] = DOMAIN pending[s] \cup {c}
      /\ pending'[s][c] = h
      /\ \A k \in DOMAIN pending[s] : k # c => pending'[s][k] = pending[s][k]
  <2>1. pending \in [Sides -> PartialMaps] /\ pending' = [pending EXCEPT ![s] = Put(@, c, h)]
    BY <1>1, <1>2 DEF TypeInv
  <2>2. pending'[s] = Put(pending[s], c, h)
    BY <2>1
  <2>3. Put(pending[s], c, h) \in PartialMaps
    BY <1>3, <2>1, PutFacts
  <2>4. pending' \in [Sides -> PartialMaps]
    BY <2>1, <2>3
  <2>. HIDE DEF c
  <2>5. c \in Conns /\ pending[s] \in PartialMaps /\ h \in Handles
    BY <1>3, <2>1
  <2>6. DOMAIN Put(pending[s], c, h) = DOMAIN pending[s] \cup {c}
    BY <2>5, PutFacts
  <2>7. /\ Put(pending[s], c, h)[c] = h
        /\ \A k \in DOMAIN pending[s] : k # c => Put(pending[s], c, h)[k] = pending[s][k]
    BY <2>5, PutFacts
  <2>. QED  BY <2>2, <2>4, <2>6, <2>7
<1>10. c \notin DOMAIN pending[s]
  <2>1. ASSUME c \in DOMAIN pending[s]  PROVE FALSE
    <3>1. sock[s][pending[s][c]] = e /\ pending[s][c] \in Handles
      BY <2>1, TableTypes DEF PendingInv, e
    <3>. QED  BY <1>6, <3>1
  <2>. QED  BY <2>1
<1>11. /\ \A z : Role(z)' = Role(z) /\ Tab(z)' = Tab(z) /\ Answers(z)' = Answers(z)
  BY <1>1 DEF Role, Tab, Answers
<1>12. \A z \in Sides : \A j \in DOMAIN Tab(z) : At(z, j)' = At(z, j)
  BY <1>2, <1>7, <1>8, <1>11, TableTypes DEF At
<1>13. \A j, f : \A z \in Sides : Linked(z, j, f)' <=> Linked(z, j, f)
  BY <1>1, <1>11, <1>12 DEF Linked
<1>14. \A q \in Carried(t) : q.type = "request" => q.conn # c /\ q.conn \in Nat /\ q.conn < c
  <2>. SUFFICES ASSUME NEW q \in Carried(t), q.type = "request"
                PROVE  q.conn # c /\ q.conn \in Nat /\ q.conn < c
    OBVIOUS
  <2>1. q.conn \in DOMAIN pending[s]
    BY DEF RequestInv
  <2>2. sock[s][pending[s][q.conn]] = <<q.conn, "source">> /\ pending[s][q.conn] \in Handles /\ q.conn \in Nat
    <3>1. q.conn \in Conns /\ pending[s][q.conn] \in Handles
      BY <2>1, TableTypes
    <3>2. q.conn \in Nat
      BY <3>1 DEF Conns
    <3>. QED  BY <2>1, <3>1, <3>2 DEF PendingInv
  <2>3. q.conn <= begun
    <3>1. sock[s][pending[s][q.conn]] # Closed /\ sock[s][pending[s][q.conn]][1] = q.conn
      BY <2>2 DEF Closed
    <3>. QED  BY <2>2, <3>1, SocketFacts
  <2>. QED  BY <1>3, <2>2, <2>3
<1>15. \A q \in Carried(t) : Before(q, p)
  BY <1>4, <1>14 DEF Before
<1>16. Ordered(net[s]) /\ Ordered(net[t])
  BY DEF OrderInv
<1>17. /\ net' \in [Sides -> Seq(Packets)]
       /\ Carried(t)' = Carried(t) \cup {p} /\ Carried(s)' = Carried(s)
       /\ Ordered(net'[s]) /\ Ordered(net'[t])
  BY <1>1, <1>2, <1>3, <1>15, <1>16, QueueFacts
<1>18. nextFd' \in [Sides -> Nat] /\ nextFd'[s] = c + 1 /\ begun' = c /\ begun' \in 0..MaxConns
  <2>1. nextFd \in [Sides -> Nat] /\ nextFd[s] = c
    BY DEF TypeInv, SideInv
  <2>2. begun' \in 0..MaxConns
    BY <1>1, <1>3, ConnsAssumption DEF Conns
  <2>. HIDE DEF c
  <2>. QED  BY <1>1, <1>2, <1>3, <2>1, <2>2
<1>19. TypeInv'
  BY <1>1, <1>8, <1>9, <1>17, <1>18 DEF TypeInv
<1>20. QuietInv(t)' /\ RightStream'
  <2>1. \A f \in Ends : f[1] > c => f[1] > begun
    BY <1>3, EndFacts DEF Conns
  <2>. QED  BY <1>1, <2>1 DEF QuietInv, RightStream
<1>21. SideInv(s, t)'
  <2>1. \A z \in {s, t}, g \in Handles :
          sock'[z][g] # Closed => sock'[z][g][2] = Role(z) /\ sock'[z][g][1] <= c
    <3>1. Role(s) = "source"
      BY RoleFacts DEF Places
    <3>2. \A z \in {s, t}, g \in Handles :
            sock[z][g] # Closed => sock[z][g][2] = Role(z) /\ sock[z][g][1] <= begun /\ sock[z][g][1] \in Nat
      BY <1>2, SocketFacts
    <3>3. \A n \in Nat : n <= begun => n <= c
      BY <1>3
    <3>. QED  BY <1>3, <1>5, <1>8, <3>1, <3>2, <3>3
  <2>. QED  BY <1>1, <1>4, <1>11, <1>17, <1>18, <2>1 DEF SideInv
<1>22. HandleInv(s, t)'
  <2>1. \A z \in {s, t}, g, k \in Handles :
          sock'[z][g] = sock'[z][k] /\ sock'[z][g] # Closed => g = k
    BY <1>6, <1>8 DEF HandleInv
  <2>. QED  BY <1>7, <1>9, <1>10, <1>11, <2>1 DEF HandleInv
<1>23. PendingInv(s)'
  <2>1. \A k \in DOMAIN pending[s] :
          /\ k # c /\ pending'[s][k] = pending[s][k]
          /\ pending[s][k] \in Handles /\ pending[s][k] # h
    BY <1>7, <1>9, <1>10, TableTypes
  <2>2. \A k \in DOMAIN pending[s] : sock'[s][pending'[s][k]] = <<k, "source">>
    BY <1>8, <2>1 DEF PendingInv
  <2>3. sock'[s][pending'[s][c]] = <<c, "source">>
    BY <1>8, <1>9 DEF e
  <2>. QED  BY <1>9, <2>2, <2>3 DEF PendingInv
<1>24. IdInv(s, t)'
  <2>1. nextId[t] \in 1..c + 1 /\ nextId[t] <= c
    BY <1>3 DEF IdInv
  <2>. QED  BY <1>1, <1>4, <1>11, <1>17, <2>1 DEF IdInv
<1>25. RequestInv(s, t)'
  <2>1. got[<<c, "target">>] = <<>> /\ <<c, "target">> \notin hungUp
    BY <1>3, EndFacts DEF QuietInv, Roles
  <2>. QED  BY <1>1, <1>4, <1>6, <1>8, <1>9, <1>17, <2>1 DEF RequestInv
<1>26. ResponseInv(s, t)'
  BY <1>1, <1>4, <1>9, <1>11, <1>12, <1>17 DEF ResponseInv
<1>27. OrderInv(s, t)'
  BY <1>11, <1>17 DEF OrderInv
<1>28. LinkInv(s, t)'
  BY <1>11, <1>12, <1>13, <1>17 DEF LinkInv
<1>29. DataInv(s)' /\ DataInv(t)'
  BY <1>4, <1>11, <1>13, <1>17 DEF DataInv
<1>30. CloseInv(s, t)' /\ CloseInv(t, s)'
  BY <1>1, <1>4, <1>11, <1>12, <1>17 DEF CloseInv
<1>31. StreamInv(s)' /\ StreamInv(t)'
  <2>1. \A z \in Sides : \A q \in Carried(z)' : q.type = "data" => q \in Carried(z)
    BY <1>2, <1>4, <1>17
  <2>2. \A z \in Sides : Carried(z) \subseteq Carried(z)'
    BY <1>2, <1>17
  <2>. QED  BY <1>1, <1>11, <2>1, <2>2 DEF StreamInv
<1>. QED  BY <1>19, <1>20, <1>21, <1>22, <1>23, <1>24, <1>25, <1>26, <1>27, <1>28, <1>29, <1>30, <1>31

-----------------------------------------------------------------------------
(* HandlePacket                                                            *)

LEMMA ConnectStep ==
  ASSUME NEW s \in Sides, NEW t \in Sides, s # t, Inv(s, t), NoStaleHandle,
         NEW x \in Sides, NEW h \in Handles, Connect(x, h)
  PROVE  Inv(s, t)'
<1>0. PICK i : i = nextId[x]
  OBVIOUS
<1>. DEFINE p == Head(net[x])
            c == p.conn
            e == <<c, "target">>
            r == [type |-> "response", fd |-> p.fd, id |-> i]
<1>1. /\ Incoming(x, "request") /\ h \in Fresh(x) /\ net' = [net EXCEPT ![x] = Tail(@)]
      /\ sock' = [sock EXCEPT ![x][h] = e]
      /\ answering' = [answering EXCEPT ![x] = <<r>>]
      /\ active' = [active EXCEPT ![x]["target"] = Put(@, i, h)]
      /\ nextId' = [nextId EXCEPT ![x] = @ + 1]
      /\ UNCHANGED <<listening, pending, nextFd, taken, sent, got, hungUp, begun>>
  BY <1>0 DEF Connect, apps
<1>. USE DEF Inv, Sound
<1>2. x = t /\ Sides = {s, t}
  <2>1. x # s
    BY <1>1, IncomingFacts
  <2>. QED  BY <2>1, SideFacts
<1>3. /\ net' \in [Sides -> Seq(Packets)] /\ p \in Packets /\ p.type = "request"
      /\ p \in Carried(t) /\ Carried(t) = Carried(t)' \cup {p} /\ Carried(s)' = Carried(s)
      /\ \A q \in Carried(t)' : Before(p, q)
      /\ Ordered(net'[s]) /\ Ordered(net'[t]) /\ Answers(t) = {}
  BY <1>1, <1>2, IncomingFacts
<1>. HIDE DEF p
<1>4. /\ p.fd = c /\ c \in Conns /\ c \in DOMAIN pending[s]
      /\ got[e] = <<>> /\ e \notin hungUp
      /\ \A g \in Handles : sock[t][g] # e
      /\ i \in 1 .. begun + 1 /\ i <= c
  <2>1. p.conn \in Conns
    BY <1>3, PacketFacts
  <2>. QED  BY <1>0, <1>2, <1>3, <2>1 DEF RequestInv, IdInv
<1>5. r \in Packets /\ r.type = "response" /\ r.fd = c /\ r.id = i
  <2>1. i \in Nat /\ p.fd \in Nat
    BY <1>3, <1>4, PacketFacts
  <2>. QED  BY <1>4, <2>1, NewPackets
<1>6. c \in Nat /\ i \in Nat /\ i \in Conns /\ c <= begun /\ begun \in Nat
  <2>1. c \in Nat /\ begun \in Nat
    BY <1>4, SocketFacts DEF Conns
  <2>2. sock[s][pending[s][c]] = <<c, "source">> /\ pending[s][c] \in Handles
    BY <1>4, TableTypes DEF PendingInv
  <2>3. c <= begun
    <3>1. sock[s][pending[s][c]] # Closed /\ sock[s][pending[s][c]][1] = c
      BY <2>2 DEF Closed
    <3>. QED  BY <2>2, <3>1, SocketFacts
  <2>. HIDE DEF c
  <2>. QED  BY <1>4, <2>1, <2>3, ConnsAssumption DEF Conns
<1>7. e \in Ends /\ e # Closed /\ e[1] = c /\ e[2] = "target"
  <2>1. e \in Ends
    BY <1>4, EndFacts
  <2>. QED  BY <2>1, EndFacts
<1>. HIDE DEF e, r, c
<1>8. /\ sock[t][h] = Closed
      /\ \A j \in DOMAIN Tab(t) : Tab(t)[j] # h
  <2>1. sock'[t][h] # Closed
    BY <1>1, <1>2, <1>7 DEF TypeInv
  <2>. QED  BY <1>1, <1>2, <2>1, FreshFacts
<1>9. /\ sock' \in [Sides -> [Handles -> Ends \cup {Closed}]]
      /\ sock'[t][h] = e /\ sock'[s] = sock[s]
      /\ \A g \in Handles : g # h => sock'[t][g] = sock[t][g]
  BY <1>1, <1>2, <1>7 DEF TypeInv
<1>10. /\ i \notin DOMAIN Tab(t) /\ i \notin DOMAIN Tab(s)
       /\ \A q \in Carried(s) \cup Carried(t) :
            q.type \in {"response", "data", "closed"} => q.id # i
  <2>1. \A z \in {s, t} : \A j \in DOMAIN Tab(z) : j < i
    BY <1>0, <1>2 DEF IdInv
  <2>2. \A q \in Carried(s) \cup Carried(t) :
          q.type \in {"response", "data", "closed"} => q.id < i
    BY <1>0, <1>2 DEF IdInv
  <2>. QED  BY <1>6, <2>1, <2>2
<1>11. /\ \A z : Role(z)' = Role(z)
       /\ Places(s, t) /\ Places(s, t)'
  BY <1>1, RoleFacts, PlaceFacts DEF Role
<1>12. /\ active' \in [Sides -> [Roles -> PartialMaps]] /\ active'[s] = active[s]
       /\ active'[t]["source"] = active[t]["source"]
       /\ active'[t]["target"] = Put(active[t]["target"], i, h)
  <2>1. active \in [Sides -> [Roles -> PartialMaps]] /\ "target" \in Roles /\ "source" \in Roles
    BY EndFacts DEF TypeInv
  <2>2. Put(active[t]["target"], i, h) \in PartialMaps
    <3>1. active[t]["target"] \in PartialMaps /\ i \in Conns
      BY <1>6, <2>1
    <3>. QED  BY <3>1, PutFacts
  <2>3. active' = [active EXCEPT ![t]["target"] = Put(active[t]["target"], i, h)]
    BY <1>1, <1>2, <2>1
  <2>. QED  BY <2>1, <2>2, <2>3
<1>13. /\ Tab(s)' = Tab(s) /\ DOMAIN Tab(t)' = DOMAIN Tab(t) \cup {i} /\ Tab(t)'[i] = h
       /\ \A j \in DOMAIN Tab(t) : Tab(t)'[j] = Tab(t)[j]
  <2>1. Tab(s)' = Tab(s) /\ Tab(t)' = Put(Tab(t), i, h)
    BY <1>11, <1>12 DEF Places
  <2>2. Tab(t) \in PartialMaps
    BY TableTypes
  <2>3. DOMAIN Put(Tab(t), i, h) = DOMAIN Tab(t) \cup {i} /\ Put(Tab(t), i, h)[i] = h
    BY <1>6, <2>2, PutFacts
  <2>4. \A j \in DOMAIN Tab(t) : j # i => Put(Tab(t), i, h)[j] = Tab(t)[j]
    BY <1>6, <2>2, PutFacts
  <2>. QED  BY <1>10, <2>1, <2>3, <2>4
<1>14. /\ At(t, i)' = e
       /\ \A z \in Sides : \A j \in DOMAIN Tab(z) : At(z, j)' = At(z, j)
  <2>1. At(t, i)' = e
    BY <1>9, <1>13 DEF At
  <2>2. ASSUME NEW j \in DOMAIN Tab(t)  PROVE At(t, j)' = At(t, j)
    BY <1>8, <1>9, <1>13, TableTypes DEF At
  <2>3. ASSUME NEW j \in DOMAIN Tab(s)  PROVE At(s, j)' = At(s, j)
    BY <1>9, <1>13 DEF At
  <2>. QED  BY <1>2, <2>1, <2>2, <2>3
<1>15. \A j, f : \A z \in Sides : Linked(z, j, f) => Linked(z, j, f)'
  <2>. SUFFICES ASSUME NEW z \in Sides, NEW j, NEW f, Linked(z, j, f)  PROVE Linked(z, j, f)'
    OBVIOUS
  <2>1. j \in DOMAIN Tab(z) /\ j \in DOMAIN Tab(z)'
    BY <1>2, <1>13 DEF Linked
  <2>. QED  BY <1>1, <1>14, <2>1 DEF Linked
<1>16. /\ answering' \in [Sides -> Seq(Packets)] /\ answering'[s] = <<>>
       /\ Len(answering'[t]) = 1 /\ Answers(t)' = {r}
  <2>. DEFINE q == <<r>>
  <2>1. q \in Seq(Packets) /\ answering' = [answering EXCEPT ![t] = q]
    BY <1>1, <1>2, <1>5
  <2>2. answering \in [Sides -> Seq(Packets)] /\ answering[s] = <<>>
    BY DEF TypeInv, SideInv
  <2>3. Elements(q) = {r} /\ Len(q) = 1
    BY OneAnswer
  <2>. HIDE DEF q
  <2>. QED  BY <2>1, <2>2, <2>3 DEF Answers
<1>17. nextId' \in [Sides -> Nat] /\ nextId'[t] = i + 1
  BY <1>0, <1>1, <1>2 DEF TypeInv
<1>18. TypeInv'
  BY <1>1, <1>3, <1>9, <1>12, <1>16, <1>17 DEF TypeInv
<1>19. QuietInv(t)' /\ RightStream'
  BY <1>1 DEF QuietInv, RightStream
<1>20. SideInv(s, t)'
  <2>1. \A z \in {s, t}, g \in Handles :
          sock'[z][g] # Closed => sock'[z][g][2] = Role(z) /\ sock'[z][g][1] <= begun
    <3>1. Role(t) = "target"
      BY <1>11 DEF Places
    <3>. QED  BY <1>2, <1>6, <1>7, <1>9, <3>1, SocketFacts
  <2>2. DOMAIN active'[s]["target"] = {} /\ DOMAIN active'[t]["source"] = {}
    BY <1>12 DEF SideInv
  <2>. QED  BY <1>1, <1>3, <1>5, <1>11, <1>16, <2>1, <2>2 DEF SideInv
<1>21. HandleInv(s, t)'
  <2>1. \A z \in {s, t}, g, k \in Handles :
          sock'[z][g] = sock'[z][k] /\ sock'[z][g] # Closed => g = k
    BY <1>4, <1>9 DEF HandleInv
  <2>2. \A z \in {s, t} : \A j, k \in DOMAIN Tab(z)' : Tab(z)'[j] = Tab(z)'[k] => j = k
    BY <1>8, <1>13 DEF HandleInv
  <2>. QED  BY <1>1, <1>13, <2>1, <2>2 DEF HandleInv
<1>22. PendingInv(s)'
  BY <1>1, <1>9 DEF PendingInv
<1>23. IdInv(s, t)'
  <2>1. i + 1 \in 1 .. begun + 1
    BY <1>4, <1>6
  <2>2. ASSUME NEW q \in Carried(t)', q.type = "request"  PROVE i + 1 <= q.conn
    <3>1. c < q.conn
      BY <1>3, <2>2 DEF Before, c
    <3>2. q.conn \in Nat
      <4>1. q \in Packets
        BY <1>3, <2>2 DEF Carried, Elements, TypeInv
      <4>. QED  BY <2>2, <4>1, PacketFacts DEF Conns
    <3>. QED  BY <1>4, <1>6, <3>1, <3>2
  <2>3. \A z \in {s, t} : \A j \in DOMAIN Tab(z)' : j < i + 1
    <3>1. \A z \in {s, t} : \A j \in DOMAIN Tab(z) : j < i /\ j \in Nat
      BY <1>0, <1>2, TableTypes DEF IdInv, Conns
    <3>2. \A j \in Nat : j < i => j < i + 1
      BY <1>6
    <3>3. i < i + 1
      BY <1>6
    <3>. QED  BY <1>13, <3>1, <3>2, <3>3
  <2>4. ASSUME NEW q \in Carried(s) \cup Carried(t) \cup {r}, q.type \in {"response", "data", "closed"}
        PROVE  q.id < i + 1
    <3>1. CASE q = r
      BY <1>5, <1>6, <3>1
    <3>2. CASE q # r
      <4>1. q \in Packets
        BY <2>4, <3>2 DEF Carried, Elements, TypeInv
      <4>2. q.id \in Nat
        BY <2>4, <4>1, PacketFacts
      <4>3. q.id < i
        BY <1>0, <1>2, <2>4, <3>2 DEF IdInv
      <4>. QED  BY <1>6, <4>2, <4>3
    <3>. QED  BY <3>1, <3>2
  <2>. QED  BY <1>1, <1>3, <1>16, <1>17, <2>1, <2>2, <2>3, <2>4 DEF IdInv
<1>24. RequestInv(s, t)'
  <2>1. ASSUME NEW q \in Carried(t)', q.type = "request"  PROVE <<q.conn, "target">> # e
    <3>1. c < q.conn
      BY <1>3, <2>1 DEF Before, c
    <3>. QED  BY <1>6, <1>7, <3>1
  <2>2. ASSUME NEW q \in Carried(t)', q.type = "request"
        PROVE  /\ q.fd = q.conn /\ q.fd \in DOMAIN pending[s]
               /\ got[<<q.conn, "target">>] = <<>> /\ <<q.conn, "target">> \notin hungUp
               /\ \A g \in Handles : sock[t][g] # <<q.conn, "target">>
    BY <1>3, <2>2 DEF RequestInv
  <2>3. ASSUME NEW q \in Carried(t)', q.type = "request"
        PROVE  \A g \in Handles : sock'[t][g] # <<q.conn, "target">>
    BY <1>9, <2>1, <2>2, <2>3
  <2>. QED  BY <1>1, <2>2, <2>3 DEF RequestInv
<1>25. ResponseInv(s, t)'
  <2>1. c \in DOMAIN pending[s] /\ i \in DOMAIN Tab(t)' /\ At(t, i)' = <<c, "target">>
    BY <1>4, <1>5, <1>13, <1>14 DEF e
  <2>2. got[<<r.fd, "target">>] = <<>> /\ r.id \notin DOMAIN Tab(s)'
    BY <1>4, <1>5, <1>10, <1>13 DEF e
  <2>3. \A q \in Carried(t)' : q.type \in {"data", "closed"} => q.id # r.id
    BY <1>3, <1>5, <1>10
  <2>4. \A q \in Carried(t)' : q \in Carried(t)
    BY <1>3
  <2>5. ASSUME NEW q \in Carried(s)
        PROVE  (q.type = "response" =>
                  /\ q.fd \in DOMAIN pending[s]
                  /\ q.id \in DOMAIN Tab(t)
                  /\ \/ At(t, q.id) = <<q.fd, "target">>
                     \/ /\ At(t, q.id) = Closed /\ <<q.fd, "target">> \in hungUp
                        /\ taken[<<q.fd, "target">>] = sent[<<q.fd, "target">>]
                  /\ got[<<q.fd, "target">>] = <<>>
                  /\ q.id \notin DOMAIN Tab(s))'
    BY <1>1, <1>2, <1>3, <1>13, <1>14 DEF ResponseInv
  <2>6. \A q \in Carried(s), w \in Carried(t)' :
          q.type = "response" /\ w.type \in {"data", "closed"} => w.id # q.id
    BY <2>4 DEF ResponseInv
  <2>. QED  BY <1>1, <1>3, <1>5, <1>16, <2>1, <2>2, <2>3, <2>5, <2>6 DEF ResponseInv
<1>26. OrderInv(s, t)'
  <2>1. ASSUME NEW q \in Carried(s), q.type = "response"  PROVE q.fd # c
    <3>1. /\ q.id \in DOMAIN Tab(t)
          /\ At(t, q.id) = <<q.fd, "target">> \/ <<q.fd, "target">> \in hungUp
      BY <2>1 DEF ResponseInv
    <3>2. At(t, q.id) # e
      BY <1>4, <3>1, TableTypes DEF At
    <3>. QED  BY <1>4, <3>1, <3>2 DEF e
  <2>2. \A q \in Carried(s) : Before(q, r)
    BY <1>5, <1>10, <2>1 DEF Before
  <2>. QED  BY <1>3, <1>16, <2>2 DEF OrderInv
<1>27. LinkInv(s, t)'
  <2>1. (\A j \in DOMAIN Tab(s) : At(s, j) # Closed => Linked(t, j, Peer(At(s, j))))'
    BY <1>2, <1>13, <1>14, <1>15 DEF LinkInv
  <2>2. ASSUME NEW j \in DOMAIN Tab(t)', At(t, j)' # Closed
        PROVE  (\/ Linked(s, j, Peer(At(t, j)))
                \/ Response(At(t, j), j) \in Carried(s) \cup Answers(t))'
    <3>1. CASE j = i
      <4>1. r = Response(At(t, j)', j)
        BY <1>4, <1>7, <1>14, <3>1 DEF r, Response
      <4>2. Response(At(t, j)', j) = Response(At(t, j), j)'
        BY DEF Response
      <4>. QED  BY <1>16, <4>1, <4>2
    <3>2. CASE j # i
      BY <1>2, <1>3, <1>13, <1>14, <1>15, <2>2, <3>2 DEF LinkInv, Response
    <3>. QED  BY <3>1, <3>2
  <2>. QED  BY <2>1, <2>2 DEF LinkInv
<1>28. \A z \in Sides : Carried(z)' \subseteq Carried(z)
  BY <1>2, <1>3
<1>29. DataInv(s)' /\ DataInv(t)'
  <2>1. \A f, j : \A z \in Sides :
          Response(f, j) \in Carried(z) => Response(f, j) \in Carried(z)'
    BY <1>2, <1>3, ResponseFacts
  <2>. QED  BY <1>11, <1>15, <1>28, <2>1 DEF DataInv
<1>30. ASSUME NEW a \in Sides, NEW b \in Sides, a # b, CloseInv(a, b)  PROVE CloseInv(a, b)'
  <2>1. ASSUME NEW q \in Carried(a)', q.type = "closed", NEW z \in Sides, q.id \in DOMAIN Tab(z)'
        PROVE  q.id \in DOMAIN Tab(z) /\ At(z, q.id)' = At(z, q.id)
    <3>1. q.id # i
      BY <1>2, <1>10, <1>28, <2>1
    <3>. QED  BY <1>2, <1>13, <1>14, <2>1, <3>1
  <2>. QED  BY <1>1, <1>28, <1>30, <2>1 DEF CloseInv
<1>31. StreamInv(s)' /\ StreamInv(t)'
  <2>1. \A z \in Sides : \A q \in Carried(z) : q.type = "data" => q \in Carried(z)'
    BY <1>2, <1>3
  <2>. QED  BY <1>1, <1>11, <1>28, <2>1 DEF StreamInv
<1>. QED  BY <1>2, <1>18, <1>19, <1>20, <1>21, <1>22, <1>23, <1>24, <1>25, <1>26, <1>27, <1>29, <1>30, <1>31

LEMMA HandleResponseStep ==
  ASSUME NEW s \in Sides, NEW t \in Sides, s # t, Inv(s, t),
         NEW x \in Sides, HandleResponse(x)
  PROVE  Inv(s, t)'
<1>0. PICK p : p = Head(net[x])
  OBVIOUS
<1>. DEFINE c == p.fd
            i == p.id
            e == <<c, "target">>
<1>1. /\ Incoming(x, "response") /\ net' = [net EXCEPT ![x] = Tail(@)]
      /\ IF c \in DOMAIN pending[x]
           THEN /\ active' = [active EXCEPT ![x]["source"] = Put(@, i, pending[x][c])]
                /\ pending' = [pending EXCEPT ![x] = Drop(@, c)]
           ELSE UNCHANGED <<active, pending>>
      /\ UNCHANGED <<listening, sock, nextFd, nextId, answering, taken, sent, got,
                     hungUp, begun>>
  BY <1>0 DEF HandleResponse, apps
<1>. USE DEF Inv, Sound
<1>2. x = s /\ Sides = {s, t}
  <2>1. x = t => "response" \in {"request", "data", "closed"}
    BY <1>1, IncomingFacts
  <2>. QED  BY <2>1, SideFacts
<1>3. /\ net' \in [Sides -> Seq(Packets)] /\ p \in Packets /\ p.type = "response"
      /\ p \in Carried(s) /\ Carried(s) = Carried(s)' \cup {p} /\ Carried(t)' = Carried(t)
      /\ \A q \in Carried(s)' : Before(p, q)
      /\ Ordered(net'[s]) /\ Ordered(net'[t])
  BY <1>0, <1>1, <1>2, IncomingFacts
<1>4. /\ c \in DOMAIN pending[s] /\ i \in DOMAIN Tab(t) /\ i \notin DOMAIN Tab(s)
      /\ \/ At(t, i) = e
         \/ At(t, i) = Closed /\ e \in hungUp /\ taken[e] = sent[e]
      /\ \A q \in Carried(t) : q.type \in {"data", "closed"} => q.id # i
  BY <1>3 DEF ResponseInv
<1>5. PICK h \in Handles : h = pending[s][c]
  BY <1>4, TableTypes
<1>6. /\ i \in Conns /\ c \in Conns /\ e # Closed
      /\ p = Response(e, i)
  BY <1>3, <1>4, TableTypes, ResponseFacts DEF Closed
<1>7. /\ sock[s][h] = <<c, "source">>
      /\ \A j \in DOMAIN Tab(s) : Tab(s)[j] # h
      /\ \A fd \in DOMAIN pending[s] : fd # c => pending[s][fd] # h
  <2>1. \A fd \in DOMAIN pending[s] : sock[s][pending[s][fd]] = <<fd, "source">>
    BY DEF PendingInv
  <2>2. \A j \in DOMAIN Tab(s) : Tab(s)[j] # h
    BY <1>4, <1>5 DEF HandleInv
  <2>3. ASSUME NEW fd \in DOMAIN pending[s], fd # c  PROVE pending[s][fd] # h
    <3>1. <<fd, "source">> # <<c, "source">>
      BY <2>3
    <3>. QED  BY <1>4, <1>5, <2>1, <3>1
  <2>. QED  BY <1>4, <1>5, <2>1, <2>2, <2>3
<1>8. Peer(e) = <<c, "source">> /\ Peer(<<c, "source">>) = e /\ <<c, "source">> # Closed
  BY EndFacts DEF Closed
<1>9. \A q \in Carried(s)' \cup Answers(t) : q.type = "response" => q.fd # c /\ q.id # i
  BY <1>3 DEF Before, OrderInv
<1>. HIDE DEF c, i, e
<1>10. /\ \A z : Role(z)' = Role(z) /\ Answers(z)' = Answers(z)
       /\ Places(s, t) /\ Places(s, t)'
  BY <1>1, RoleFacts, PlaceFacts DEF Role, Answers
<1>11. /\ active' \in [Sides -> [Roles -> PartialMaps]] /\ active'[t] = active[t]
       /\ active'[s]["target"] = active[s]["target"]
       /\ active'[s]["source"] = Put(active[s]["source"], i, h)
  <2>1. active \in [Sides -> [Roles -> PartialMaps]] /\ "target" \in Roles /\ "source" \in Roles
    BY EndFacts DEF TypeInv
  <2>2. Put(active[s]["source"], i, h) \in PartialMaps
    <3>1. active[s]["source"] \in PartialMaps /\ i \in Conns
      BY <1>6, <2>1
    <3>. QED  BY <3>1, PutFacts
  <2>3. active' = [active EXCEPT ![s]["source"] = Put(active[s]["source"], i, h)]
    BY <1>1, <1>2, <1>4, <1>5, <2>1
  <2>. QED  BY <2>1, <2>2, <2>3
<1>12. /\ pending' \in [Sides -> PartialMaps]
       /\ DOMAIN pending'[s] = DOMAIN pending[s] \ {c}
       /\ \A fd \in DOMAIN pending'[s] : pending'[s][fd] = pending[s][fd]
  <2>1. pending \in [Sides -> PartialMaps]
    BY DEF TypeInv
  <2>2. pending' = [pending EXCEPT ![s] = Drop(pending[s], c)]
    BY <1>1, <1>2, <1>4, <2>1
  <2>3. /\ Drop(pending[s], c) \in PartialMaps
        /\ DOMAIN Drop(pending[s], c) = DOMAIN pending[s] \ {c}
        /\ \A fd \in DOMAIN pending[s] \ {c} : Drop(pending[s], c)[fd] = pending[s][fd]
    BY <2>1, DropFacts
  <2>. QED  BY <2>1, <2>2, <2>3
<1>13. /\ Tab(t)' = Tab(t) /\ DOMAIN Tab(s)' = DOMAIN Tab(s) \cup {i} /\ Tab(s)'[i] = h
       /\ \A j \in DOMAIN Tab(s) : Tab(s)'[j] = Tab(s)[j]
  <2>1. Tab(t)' = Tab(t) /\ Tab(s)' = Put(Tab(s), i, h)
    BY <1>10, <1>11 DEF Places
  <2>2. Tab(s) \in PartialMaps
    BY TableTypes
  <2>3. DOMAIN Put(Tab(s), i, h) = DOMAIN Tab(s) \cup {i} /\ Put(Tab(s), i, h)[i] = h
    BY <1>6, <2>2, PutFacts
  <2>4. \A j \in DOMAIN Tab(s) : j # i => Put(Tab(s), i, h)[j] = Tab(s)[j]
    BY <1>6, <2>2, PutFacts
  <2>. QED  BY <1>4, <2>1, <2>3, <2>4
<1>14. /\ At(s, i)' = <<c, "source">>
       /\ \A z \in Sides : \A j \in DOMAIN Tab(z) : At(z, j)' = At(z, j)
  <2>1. At(s, i)' = <<c, "source">>
    BY <1>1, <1>7, <1>13 DEF At
  <2>2. ASSUME NEW j \in DOMAIN Tab(t)  PROVE At(t, j)' = At(t, j)
    BY <1>1, <1>13 DEF At
  <2>3. ASSUME NEW j \in DOMAIN Tab(s)  PROVE At(s, j)' = At(s, j)
    BY <1>1, <1>13 DEF At
  <2>. QED  BY <1>2, <2>1, <2>2, <2>3
<1>15. \A j, f : \A z \in Sides : Linked(z, j, f) => Linked(z, j, f)'
  <2>. SUFFICES ASSUME NEW z \in Sides, NEW j, NEW f, Linked(z, j, f)  PROVE Linked(z, j, f)'
    OBVIOUS
  <2>1. j \in DOMAIN Tab(z) /\ j \in DOMAIN Tab(z)'
    BY <1>2, <1>13 DEF Linked
  <2>. QED  BY <1>1, <1>14, <2>1 DEF Linked
<1>16. TypeInv'
  BY <1>1, <1>3, <1>11, <1>12 DEF TypeInv
<1>17. QuietInv(t)' /\ RightStream'
  BY <1>1 DEF QuietInv, RightStream
<1>18. SideInv(s, t)'
  <2>1. DOMAIN active'[s]["target"] = {} /\ DOMAIN active'[t]["source"] = {}
    BY <1>11 DEF SideInv
  <2>. QED  BY <1>1, <1>3, <1>10, <2>1 DEF SideInv
<1>19. HandleInv(s, t)'
  <2>1. \A z \in {s, t} : \A j, k \in DOMAIN Tab(z)' : Tab(z)'[j] = Tab(z)'[k] => j = k
    BY <1>7, <1>13 DEF HandleInv
  <2>2. \A fd \in DOMAIN pending'[s], j \in DOMAIN Tab(s)' : pending'[s][fd] # Tab(s)'[j]
    BY <1>7, <1>12, <1>13 DEF HandleInv
  <2>. QED  BY <1>1, <2>1, <2>2 DEF HandleInv
<1>20. PendingInv(s)'
  BY <1>1, <1>12 DEF PendingInv
<1>21. IdInv(s, t)'
  BY <1>1, <1>3, <1>4, <1>10, <1>13 DEF IdInv
<1>22. RequestInv(s, t)'
  <2>1. ASSUME NEW q \in Carried(t), q.type = "request"  PROVE q.conn # c
    <3>1. Tab(t)[i] \in Handles /\ (sock[t][Tab(t)[i]] = e \/ e \in hungUp)
      BY <1>4, TableTypes DEF At
    <3>. QED  BY <2>1, <3>1 DEF RequestInv, e
  <2>. QED  BY <1>1, <1>3, <1>12, <2>1 DEF RequestInv
<1>23. ResponseInv(s, t)'
  BY <1>1, <1>2, <1>3, <1>9, <1>10, <1>12, <1>13, <1>14 DEF ResponseInv
<1>24. OrderInv(s, t)'
  BY <1>3, <1>10 DEF OrderInv
<1>25. LinkInv(s, t)'
  <2>1. ASSUME NEW j \in DOMAIN Tab(s)', At(s, j)' # Closed
        PROVE  Linked(t, j, Peer(At(s, j)))'
    <3>1. CASE j = i
      <4>1. Linked(t, i, e)
        BY <1>4 DEF Linked
      <4>2. Peer(At(s, j)') = e
        BY <1>8, <1>14, <3>1
      <4>3. Linked(t, i, e)'
        BY <1>1, <1>4, <1>2, <1>13, <1>14 DEF Linked, e, c
      <4>. QED  BY <3>1, <4>2, <4>3
    <3>2. CASE j # i
      BY <1>2, <1>13, <1>14, <1>15, <2>1, <3>2 DEF LinkInv
    <3>. QED  BY <3>1, <3>2
  <2>2. ASSUME NEW j \in DOMAIN Tab(t)', At(t, j)' # Closed
        PROVE  (\/ Linked(s, j, Peer(At(t, j)))
                \/ Response(At(t, j), j) \in Carried(s) \cup Answers(t))'
    <3>1. j \in DOMAIN Tab(t) /\ At(t, j)' = At(t, j) /\ At(t, j) # Closed
      BY <1>2, <1>13, <1>14, <2>2
    <3>2. CASE j = i
      <4>1. Peer(At(t, j)') = <<c, "source">>
        BY <1>4, <1>8, <3>1, <3>2
      <4>2. i \in DOMAIN Tab(s)' /\ At(s, i)' = <<c, "source">>
        BY <1>13, <1>14
      <4>. QED  BY <3>2, <4>1, <4>2 DEF Linked
    <3>3. CASE j # i
      <4>1. Response(At(t, j), j) # p
        BY <3>3, ResponseFacts DEF i
      <4>2. \/ Linked(s, j, Peer(At(t, j)))
            \/ Response(At(t, j), j) \in Carried(s) \cup Answers(t)
        BY <3>1 DEF LinkInv
      <4>3. Response(At(t, j), j)' = Response(At(t, j), j)
        BY <3>1 DEF Response
      <4>. QED  BY <1>3, <1>10, <1>15, <3>1, <4>1, <4>2, <4>3
    <3>. QED  BY <3>2, <3>3
  <2>. QED  BY <2>1, <2>2 DEF LinkInv
<1>26. \A z \in Sides : Carried(z)' \subseteq Carried(z)
  BY <1>2, <1>3
<1>27. DataInv(s)' /\ DataInv(t)'
  <2>1. ASSUME NEW z \in Sides, NEW d \in Ends, NEW j,
               Peer(d)[2] = Role(z), Response(d, j) \in Carried(z)
        PROVE  Linked(z, j, Peer(d))' \/ Response(d, j) \in Carried(z)'
    <3>1. CASE Response(d, j) # p
      BY <1>2, <1>3, <2>1, <3>1
    <3>2. CASE Response(d, j) = p
      <4>1. j = i /\ d[1] = c
        BY <3>2, ResponseFacts DEF i, c
      <4>2. z = s
        BY <1>2, <1>3, <2>1, <3>2 DEF SideInv
      <4>3. Role(s) = "source"
        BY <1>10 DEF Places
      <4>4. Peer(d) = <<c, "source">>
        BY <2>1, <4>1, <4>2, <4>3, EndFacts
      <4>5. i \in DOMAIN Tab(s)' /\ At(s, i)' = <<c, "source">>
        BY <1>13, <1>14
      <4>. QED  BY <4>1, <4>2, <4>4, <4>5 DEF Linked
    <3>. QED  BY <3>1, <3>2
  <2>2. ASSUME NEW z \in Sides, DataInv(z), NEW q \in Carried(z)', q.type = "data"
        PROVE  (/\ Peer(q.chunk[1])[2] = Role(z)
                /\ \/ Linked(z, q.id, Peer(q.chunk[1]))
                   \/ Response(q.chunk[1], q.id) \in Carried(z))'
    <3>1. q \in Carried(z) /\ q.chunk[1] \in Ends
      BY <1>26, <2>2, CarriedTypes, PacketFacts
    <3>2. /\ Peer(q.chunk[1])[2] = Role(z)
          /\ \/ Linked(z, q.id, Peer(q.chunk[1]))
             \/ Response(q.chunk[1], q.id) \in Carried(z)
      BY <2>2, <3>1 DEF DataInv
    <3>. QED  BY <1>10, <1>15, <2>1, <3>1, <3>2
  <2>. QED  BY <2>2 DEF DataInv
<1>28. CloseInv(s, t)' /\ CloseInv(t, s)'
  <2>1. ASSUME NEW q \in Carried(t)', q.type = "closed"  PROVE q.id # i
    BY <1>3, <1>4, <2>1
  <2>2. ASSUME NEW q \in Carried(s)', q.type = "closed", q.id = i
        PROVE  At(t, i) = Closed /\ e \in hungUp /\ taken[e] = sent[e]
    <3>1. At(t, i) = Closed
      BY <1>4, <1>26, <2>2 DEF CloseInv
    <3>. QED  BY <1>4, <1>6, <3>1
  <2>3. At(t, i)' = At(t, i) /\ Peer(At(s, i)') = e
    BY <1>4, <1>8, <1>14
  <2>4. \A j : \A z \in Sides : j # i =>
          /\ j \in DOMAIN Tab(z)' <=> j \in DOMAIN Tab(z)
          /\ j \in DOMAIN Tab(z) => At(z, j)' = At(z, j)
    BY <1>2, <1>13, <1>14
  <2>5. CloseInv(s, t)'
    <3>. SUFFICES ASSUME NEW q \in Carried(s)', q.type = "closed"
                  PROVE  (/\ q.id \in DOMAIN Tab(t) => At(t, q.id) = Closed
                          /\ q.id \in DOMAIN Tab(s) /\ At(s, q.id) # Closed =>
                               /\ Peer(At(s, q.id)) \in hungUp
                               /\ taken[Peer(At(s, q.id))] = sent[Peer(At(s, q.id))])'
      BY DEF CloseInv
    <3>1. CASE q.id = i
      BY <1>1, <2>2, <2>3, <3>1
    <3>2. CASE q.id # i
      BY <1>1, <1>26, <2>4, <3>2 DEF CloseInv
    <3>. QED  BY <3>1, <3>2
  <2>6. CloseInv(t, s)'
    BY <1>1, <1>26, <2>1, <2>4 DEF CloseInv
  <2>. QED  BY <2>5, <2>6
<1>29. StreamInv(s)' /\ StreamInv(t)'
  <2>1. \A z \in Sides : \A q \in Carried(z) : q.type = "data" => q \in Carried(z)'
    BY <1>2, <1>3
  <2>. QED  BY <1>1, <1>10, <1>26, <2>1 DEF StreamInv
<1>. QED  BY <1>16, <1>17, <1>18, <1>19, <1>20, <1>21, <1>22, <1>23, <1>24, <1>25, <1>27, <1>28, <1>29

(* A piece is written to the socket that the id leads to.                  *)
LEMMA TakenPiece ==
  ASSUME NEW s \in Sides, NEW t \in Sides, s # t, Inv(s, t), NEW x \in Sides,
         NEW p, p.id \in DOMAIN Tab(x)
  PROVE  Take(Take(got, x, "target", p), x, "source", p) =
           [e \in Ends |-> IF At(x, p.id) = e /\ e \notin hungUp
                             THEN Append(got[e], p.chunk) ELSE got[e]]
<1>1. got \in [Ends -> Seq(Ends \X Nat)]
  BY DEF Inv, TypeInv
<1>2. /\ Role(x) \in {"source", "target"}
      /\ \A r \in Roles : r # Role(x) => DOMAIN active[x][r] = {}
  BY RoleFacts, EndFacts
<1>3. /\ Role(x) \in Knowing(x, p.id)
      /\ \A r \in {"source", "target"} : r # Role(x) => r \notin Knowing(x, p.id)
  BY <1>2, EndFacts DEF Knowing, Tab
<1>. DEFINE G == [e \in Ends |-> IF At(x, p.id) = e /\ e \notin hungUp
                                   THEN Append(got[e], p.chunk) ELSE got[e]]
<1>4. \A r, g : r \notin Knowing(x, p.id) => Take(g, x, r, p) = [e \in Ends |-> g[e]]
  BY DEF Take
<1>5. Take(got, x, Role(x), p) = G
  BY <1>3 DEF Take, At, Tab
<1>6. G = [e \in Ends |-> G[e]] /\ got = [e \in Ends |-> got[e]]
  BY <1>1
<1>. HIDE DEF G
<1>7. CASE Role(x) = "source"
  <2>1. Take(got, x, "target", p) = got
    BY <1>3, <1>4, <1>6, <1>7
  <2>. QED  BY <1>5, <1>7, <2>1 DEF G
<1>8. CASE Role(x) = "target"
  <2>1. Take(got, x, "target", p) = G
    BY <1>5, <1>8
  <2>2. Take(G, x, "source", p) = G
    BY <1>3, <1>4, <1>6, <1>8
  <2>. QED  BY <2>1, <2>2 DEF G
<1>. QED  BY <1>2, <1>7, <1>8

LEMMA HandleDataStep ==
  ASSUME NEW s \in Sides, NEW t \in Sides, s # t, Inv(s, t),
         NEW x \in Sides, HandleData(x)
  PROVE  Inv(s, t)'
<1>0. PICK p : p = Head(net[x])
  OBVIOUS
<1>1. /\ Incoming(x, "data") /\ net' = [net EXCEPT ![x] = Tail(@)]
      /\ got' = Take(Take(got, x, "target", p), x, "source", p)
      /\ UNCHANGED <<listening, sock, active, pending, nextFd, nextId, answering,
                     taken, sent, hungUp, begun>>
  BY <1>0 DEF HandleData, tables
<1>. USE DEF Inv, Sound
<1>2. PICK y \in Sides : x # y /\ Sides = {x, y} /\ Sides = {s, t}
  BY SideFacts
<1>3. /\ net' \in [Sides -> Seq(Packets)] /\ p \in Packets /\ p.type = "data"
      /\ p \in Carried(x) /\ Carried(x) = Carried(x)' \cup {p} /\ Carried(y)' = Carried(y)
      /\ \A q \in Carried(x)' : Before(p, q)
      /\ Ordered(net'[s]) /\ Ordered(net'[t])
  BY <1>0, <1>1, <1>2, IncomingFacts
<1>4. PICK i \in Nat, d \in Ends, n \in Nat : p.id = i /\ p.chunk = <<d, n>>
  BY <1>3, PacketFacts
<1>5. PICK f \in Ends : f = Peer(d)
  BY EndFacts
<1>6. /\ p.chunk[1] = d /\ p.chunk[2] = n /\ Peer(f) = d
      /\ f[2] = Role(x) /\ Linked(x, i, f)
      /\ \A e \in Ends : Peer(e) = d => e = f
  <2>1. \A e \in Ends : Peer(e) = d => e = f
    BY <1>5, EndFacts
  <2>2. Peer(d)[2] = Role(x) /\ (Linked(x, i, f) \/ Response(d, i) \in Carried(x))
    BY <1>2, <1>3, <1>4, <1>5 DEF DataInv
  <2>3. Response(d, i) \notin Carried(x)
    <3>1. Response(d, i).type = "response" /\ Response(d, i).id = p.id
      BY <1>4, ResponseFacts
    <3>2. Response(d, i) # p /\ ~Before(p, Response(d, i))
      BY <1>3, <3>1 DEF Before
    <3>. QED  BY <1>3, <3>2
  <2>. QED  BY <1>4, <1>5, <2>1, <2>2, <2>3, EndFacts
<1>7. f \notin hungUp => At(x, i) = f /\ i \in DOMAIN Tab(x)
  BY <1>6 DEF Linked
<1>8. /\ got' \in [Ends -> Seq(Ends \X Nat)]
      /\ \A e \in Ends : e # f \/ f \in hungUp => got'[e] = got[e]
      /\ f \notin hungUp => got'[f] = Append(got[f], <<d, n>>)
  <2>1. got \in [Ends -> Seq(Ends \X Nat)]
    BY DEF TypeInv
  <2>2. got' = [e \in Ends |-> IF At(x, i) = e /\ e \notin hungUp
                                 THEN Append(got[e], <<d, n>>) ELSE got[e]]
    BY <1>1, <1>4, <1>6, TakenPiece DEF Linked
  <2>3. <<d, n>> \in Ends \X Nat
    OBVIOUS
  <2>4. got' \in [Ends -> Seq(Ends \X Nat)]
    BY <2>1, <2>2, <2>3
  <2>5. \A e \in Ends : At(x, i) = e /\ e \notin hungUp => e = f /\ f \notin hungUp
    BY <1>6, EndFacts DEF Linked
  <2>. QED  BY <1>7, <2>2, <2>4, <2>5
<1>9. PICK l \in Nat : l = Len(got[f])
  BY DEF TypeInv
<1>10. f \notin hungUp => n = l + 1
  <2>. SUFFICES ASSUME f \notin hungUp  PROVE n = l + 1
    OBVIOUS
  <2>1. /\ n > l /\ n <= taken[d] /\ taken[d] \in Nat
        /\ \A m \in l + 1 .. taken[d] :
             \E q \in Carried(x) : q.type = "data" /\ q.chunk = <<d, m>>
    <3>1. taken[d] \in Nat
      BY DEF TypeInv
    <3>2. StreamInv(x)
      BY <1>2
    <3>3. n <= taken[d] /\ n > l
      BY <1>3, <1>6, <1>9, <3>2 DEF StreamInv
    <3>4. \A m \in l + 1 .. taken[d] :
            \E q \in Carried(x) : q.type = "data" /\ q.chunk = <<d, m>>
      <4>1. \A m \in Len(got[f]) + 1 .. taken[Peer(f)] :
              \E q \in Carried(x) : q.type = "data" /\ q.chunk = <<Peer(f), m>>
        BY <1>6, <3>2 DEF StreamInv
      <4>. QED  BY <1>6, <1>9, <4>1
    <3>. QED  BY <3>1, <3>3, <3>4
  <2>2. l + 1 \in l + 1 .. taken[d]
    BY <2>1
  <2>3. PICK q \in Carried(x) : q.type = "data" /\ q.chunk = <<d, l + 1>>
    BY <2>1, <2>2
  <2>4. CASE q = p
    BY <1>4, <2>3, <2>4
  <2>5. CASE q # p
    <3>1. n < q.chunk[2] /\ q.chunk[2] = l + 1
      BY <1>3, <1>6, <2>3, <2>5 DEF Before
    <3>. QED  BY <2>1, <3>1
  <2>. QED  BY <2>4, <2>5
<1>11. f \notin hungUp =>
         /\ Len(got'[f]) = l + 1 /\ got'[f][l + 1] = <<d, n>> /\ got'[f] # <<>>
         /\ DOMAIN got'[f] = 1 .. l + 1 /\ DOMAIN got[f] = 1 .. l
         /\ \A k \in 1 .. l : got'[f][k] = got[f][k]
  <2>. SUFFICES ASSUME f \notin hungUp
                PROVE  /\ Len(got'[f]) = l + 1 /\ got'[f][l + 1] = <<d, n>> /\ got'[f] # <<>>
                       /\ DOMAIN got'[f] = 1 .. l + 1 /\ DOMAIN got[f] = 1 .. l
                       /\ \A k \in 1 .. l : got'[f][k] = got[f][k]
    OBVIOUS
  <2>. DEFINE S == Ends \X Nat
  <2>1. PICK q \in Seq(S), a \in S : q = got[f] /\ a = <<d, n>>
    BY DEF TypeInv
  <2>2. got'[f] = Append(q, a) /\ Len(q) = l
    BY <1>8, <1>9, <2>1
  <2>. HIDE DEF S
  <2>3. /\ Len(Append(q, a)) = l + 1 /\ Append(q, a)[l + 1] = a
        /\ DOMAIN Append(q, a) = 1 .. l + 1 /\ DOMAIN q = 1 .. l
        /\ \A k \in 1 .. l : Append(q, a)[k] = q[k]
    BY <2>2, AppendProperties
  <2>4. Append(q, a) # <<>>
    <3>1. Len(<<>>) = 0 /\ l + 1 # 0
      BY EmptySeq
    <3>. QED  BY <2>3, <3>1
  <2>. QED  BY <2>1, <2>2, <2>3, <2>4
<1>12. /\ \A z : Role(z)' = Role(z) /\ Tab(z)' = Tab(z) /\ Answers(z)' = Answers(z)
       /\ \A z, j : At(z, j)' = At(z, j)
       /\ \A z, j, e : Linked(z, j, e)' <=> Linked(z, j, e)
  BY <1>1, SameTables DEF Answers, Linked
<1>13. \A z \in Sides : Carried(z)' \subseteq Carried(z)
  BY <1>2, <1>3
<1>14. TypeInv'
  BY <1>1, <1>3, <1>8 DEF TypeInv
<1>15. RightStream'
  <2>1. ASSUME NEW e \in Ends, NEW k \in DOMAIN got'[e]  PROVE got'[e][k] = <<Peer(e), k>>
    <3>1. CASE e # f \/ f \in hungUp
      BY <1>8, <2>1, <3>1 DEF RightStream
    <3>2. CASE e = f /\ f \notin hungUp
      <4>1. k \in 1 .. l \/ k = l + 1
        BY <1>9, <1>11, <2>1, <3>2
      <4>2. k \in 1 .. l => got[f][k] = <<d, k>>
        BY <1>6, <1>11, <3>2 DEF RightStream
      <4>. QED  BY <1>6, <1>10, <1>11, <3>2, <4>1, <4>2
    <3>. QED  BY <3>1, <3>2
  <2>. QED  BY <2>1 DEF RightStream
<1>16. QuietInv(t)'
  <2>1. ASSUME NEW e \in Ends, got'[e] = <<>>  PROVE got[e] = <<>>
    BY <1>8, <1>11, <2>1
  <2>2. ASSUME NEW e \in Ends, e[1] > begun  PROVE got'[e] = <<>>
    <3>1. CASE e = f /\ f \notin hungUp
      <4>1. Tab(x)[i] \in Handles /\ sock[x][Tab(x)[i]] = f
        BY <1>7, <3>1, TableTypes DEF At
      <4>2. f # Closed
        BY EndFacts
      <4>3. f[1] \in Nat /\ f[1] <= begun /\ begun \in Nat
        BY <4>1, <4>2, SocketFacts
      <4>. QED  BY <2>2, <3>1, <4>3
    <3>2. CASE e # f \/ f \in hungUp
      BY <1>8, <2>2, <3>2 DEF QuietInv
    <3>. QED  BY <3>1, <3>2
  <2>. QED  BY <1>1, <2>1, <2>2 DEF QuietInv
<1>17. SideInv(s, t)'
  BY <1>1, <1>2, <1>12, <1>13 DEF SideInv
<1>18. HandleInv(s, t)' /\ PendingInv(s)' /\ IdInv(s, t)'
  <2>1. /\ UNCHANGED <<sock, pending>> /\ UNCHANGED <<nextId, begun>>
        /\ \A z : Tab(z)' = Tab(z) /\ Answers(z)' = Answers(z)
        /\ Carried(s)' \subseteq Carried(s) /\ Carried(t)' \subseteq Carried(t)
    BY <1>1, <1>12, <1>13
  <2>2. HandleInv(s, t) /\ PendingInv(s) /\ IdInv(s, t)
    OBVIOUS
  <2>3. HandleInv(s, t)' /\ PendingInv(s)'
    BY <2>1, <2>2, HandleFrame, PendingFrame
  <2>. QED  BY <2>1, <2>2, <2>3, IdFrame
<1>19. RequestInv(s, t)'
  <2>1. ASSUME NEW q \in Carried(t), q.type = "request", NEW e \in Ends, e = <<q.conn, "target">>
        PROVE  got'[e] = got[e]
    <3>1. CASE e = f /\ f \notin hungUp
      <4>1. Role(x) = "target" /\ Role(s) = "source"
        BY <1>6, <2>1, <3>1, RoleFacts DEF Places
      <4>2. x = t
        BY <1>2, <4>1
      <4>3. Tab(t)[i] \in Handles /\ sock[t][Tab(t)[i]] = e
        BY <1>7, <3>1, <4>2, TableTypes DEF At
      <4>. QED  BY <2>1, <4>3 DEF RequestInv
    <3>2. CASE e # f \/ f \in hungUp
      BY <1>8, <3>2
    <3>. QED  BY <3>1, <3>2
  <2>2. ASSUME NEW q \in Carried(t)', q.type = "request"
        PROVE  got'[<<q.conn, "target">>] = <<>>
    <3>1. q \in Carried(t) /\ q \in Packets
      BY <1>13, <2>2, CarriedTypes
    <3>2. <<q.conn, "target">> \in Ends
      BY <2>2, <3>1, PacketFacts, EndFacts
    <3>. QED  BY <2>1, <2>2, <3>1, <3>2 DEF RequestInv
  <2>. QED  BY <1>1, <1>13, <2>2 DEF RequestInv
<1>20. ResponseInv(s, t)'
  <2>1. ASSUME NEW q \in Carried(s) \cup Answers(t), q.type = "response",
               NEW e \in Ends, e = <<q.fd, "target">>
        PROVE  got'[e] = got[e]
    <3>1. CASE e = f /\ f \notin hungUp
      <4>1. Role(x) = "target" /\ Role(s) = "source"
        BY <1>6, <2>1, <3>1, RoleFacts DEF Places
      <4>2. x = t
        BY <1>2, <4>1
      <4>3. q.id \in DOMAIN Tab(t) /\ At(t, q.id) = e
        BY <2>1, <3>1 DEF ResponseInv
      <4>4. i \in DOMAIN Tab(t) /\ At(t, i) = e /\ e # Closed
        BY <1>7, <3>1, <4>2, EndFacts
      <4>5. i = q.id
        BY <4>3, <4>4, TableTypes DEF HandleInv, At
      <4>6. p \in Carried(t) /\ p.id = i
        BY <1>3, <1>4, <4>2
      <4>. QED  BY <1>3, <2>1, <4>5, <4>6 DEF ResponseInv
    <3>2. CASE e # f \/ f \in hungUp
      BY <1>8, <3>2
    <3>. QED  BY <3>1, <3>2
  <2>2. ASSUME NEW q \in Carried(s)' \cup Answers(t), q.type = "response"
        PROVE  got'[<<q.fd, "target">>] = <<>>
    <3>1. q \in Carried(s) \cup Answers(t)
      BY <1>13, <2>2
    <3>2. /\ q.id \in DOMAIN Tab(t)
          /\ At(t, q.id) = <<q.fd, "target">> \/ <<q.fd, "target">> \in hungUp
      BY <2>2, <3>1 DEF ResponseInv
    <3>3. <<q.fd, "target">> \in Ends
      <4>1. At(t, q.id) \in Ends \cup {Closed} /\ <<q.fd, "target">> # Closed
        BY <3>2, TableTypes DEF Closed
      <4>. QED  BY <3>2, <4>1 DEF TypeInv
    <3>. QED  BY <2>1, <2>2, <3>1, <3>3 DEF ResponseInv
  <2>. QED  BY <1>1, <1>2, <1>12, <1>13, <2>2 DEF ResponseInv
<1>21. OrderInv(s, t)'
  BY <1>2, <1>3, <1>12, <1>13 DEF OrderInv
<1>22. LinkInv(s, t)'
  <2>1. \A e, j : Response(e, j) \in Carried(s) \cup Answers(t)
                    => Response(e, j) \in Carried(s)' \cup Answers(t)
    BY <1>2, <1>3, ResponseFacts
  <2>2. \A j : Response(At(t, j), j)' = Response(At(t, j), j)
    BY <1>12 DEF Response
  <2>. QED  BY <1>1, <1>12, <2>1, <2>2 DEF LinkInv
<1>23. DataInv(s)' /\ DataInv(t)'
  <2>1. \A e, j : \A z \in Sides : Response(e, j) \in Carried(z) => Response(e, j) \in Carried(z)'
    BY <1>2, <1>3, ResponseFacts
  <2>. QED  BY <1>1, <1>12, <1>13, <2>1 DEF DataInv
<1>24. CloseInv(s, t)' /\ CloseInv(t, s)'
  BY <1>1, <1>2, <1>12, <1>13 DEF CloseInv
<1>25. StreamInv(y)'
  <2>1. \A e \in Ends : e[2] = Role(y) => got'[e] = got[e]
    <3>1. Role(x) # Role(y)
      BY <1>2, RoleFacts
    <3>. QED  BY <1>6, <1>8, <3>1
  <2>2. Role(y)' = Role(y) /\ Carried(y)' = Carried(y) /\ UNCHANGED <<taken, hungUp>>
    BY <1>1, <1>3, <1>12
  <2>3. StreamInv(y)
    BY <1>2
  <2>. QED  BY <2>1, <2>2, <2>3, StreamFrame
<1>26. StreamInv(x)'
  <2>1. ASSUME NEW e \in Ends, e[2] = Role(x), e \notin hungUp
        PROVE  /\ Len(got'[e]) <= taken[Peer(e)]
               /\ \A q \in Carried(x)' : q.type = "data" /\ q.chunk[1] = Peer(e) =>
                    q.chunk[2] > Len(got'[e])
               /\ \A m \in Len(got'[e]) + 1 .. taken[Peer(e)] :
                    \E q \in Carried(x)' : q.type = "data" /\ q.chunk = <<Peer(e), m>>
    <3>1. CASE e # f
      <4>1. got'[e] = got[e] /\ Peer(e) # d
        BY <1>6, <1>8, <3>1
      <4>2. /\ Len(got[e]) <= taken[Peer(e)]
            /\ \A q \in Carried(x) : q.type = "data" /\ q.chunk[1] = Peer(e) =>
                 q.chunk[2] > Len(got[e])
            /\ \A m \in Len(got[e]) + 1 .. taken[Peer(e)] :
                 \E q \in Carried(x) : q.type = "data" /\ q.chunk = <<Peer(e), m>>
        BY <1>2, <2>1 DEF StreamInv
      <4>3. \A m : p.chunk # <<Peer(e), m>>
        BY <1>4, <4>1
      <4>. QED  BY <1>3, <4>1, <4>2, <4>3
    <3>2. CASE e = f
      <4>1. Len(got'[f]) = n /\ n = l + 1
        BY <1>10, <1>11, <2>1, <3>2
      <4>2. /\ n <= taken[d]
            /\ \A m \in l + 1 .. taken[d] :
                 \E q \in Carried(x) : q.type = "data" /\ q.chunk = <<d, m>>
        <5>1. StreamInv(x) /\ f \notin hungUp
          BY <1>2, <2>1, <3>2
        <5>2. n <= taken[d]
          BY <1>3, <1>6, <5>1 DEF StreamInv
        <5>3. \A m \in Len(got[f]) + 1 .. taken[Peer(f)] :
                \E q \in Carried(x) : q.type = "data" /\ q.chunk = <<Peer(f), m>>
          BY <1>6, <5>1 DEF StreamInv
        <5>. QED  BY <1>6, <1>9, <5>2, <5>3
      <4>3. \A q \in Carried(x)' : q.type = "data" /\ q.chunk[1] = d => q.chunk[2] > n
        <5>1. ASSUME NEW q \in Carried(x)', q.type = "data", q.chunk[1] = d
              PROVE  q.chunk[2] > n
          <6>1. q \in Packets
            BY <1>13, <5>1, CarriedTypes
          <6>2. q.chunk[2] \in Nat /\ n < q.chunk[2]
            BY <1>3, <1>6, <5>1, <6>1, PacketFacts DEF Before
          <6>. QED  BY <6>2
        <5>. QED  BY <5>1
      <4>4. ASSUME NEW m \in n + 1 .. taken[d]
            PROVE  \E q \in Carried(x)' : q.type = "data" /\ q.chunk = <<d, m>>
        <5>1. m \in l + 1 .. taken[d] /\ m # n
          <6>1. taken[d] \in Nat
            BY DEF TypeInv
          <6>. QED  BY <4>1, <6>1
        <5>2. PICK q \in Carried(x) : q.type = "data" /\ q.chunk = <<d, m>>
          BY <4>2, <5>1
        <5>3. q # p
          BY <1>4, <5>1, <5>2
        <5>. QED  BY <1>3, <5>2, <5>3
      <4>. QED  BY <1>6, <3>2, <4>1, <4>2, <4>3, <4>4
    <3>. QED  BY <3>1, <3>2
  <2>2. \A q \in Carried(x)' : q.type = "data" => q.chunk[2] <= taken[q.chunk[1]]
    BY <1>2, <1>13 DEF StreamInv
  <2>. QED  BY <1>1, <1>12, <2>1, <2>2 DEF StreamInv
<1>. QED  BY <1>2, <1>14, <1>15, <1>16, <1>17, <1>18, <1>19, <1>20, <1>21, <1>22, <1>23, <1>24, <1>25, <1>26

(* The entry of id i, if side x has one, goes, and its socket is closed.   *)
EntryGone(x, y, i) ==
  /\ sock' \in [Sides -> [Handles -> Ends \cup {Closed}]] /\ sock'[y] = sock[y]
  /\ \A g \in Handles :
       sock'[x][g] = IF i \in DOMAIN Tab(x) /\ g = Tab(x)[i]
                       THEN Closed ELSE sock[x][g]
  /\ active' \in [Sides -> [Roles -> PartialMaps]] /\ active'[y] = active[y]
  /\ \A r \in Roles : r # Role(x) => DOMAIN active'[x][r] = {}
  /\ Tab(y)' = Tab(y) /\ DOMAIN Tab(x)' = DOMAIN Tab(x) \ {i}
  /\ \A j \in DOMAIN Tab(x)' : Tab(x)'[j] = Tab(x)[j]

(* The end of a connection reaches its entry and no other.                 *)
LEMMA ClosedEntry ==
  ASSUME NEW s \in Sides, NEW t \in Sides, s # t, Inv(s, t),
         NEW x \in Sides, NEW y \in Sides, x # y, HandleClosed(x),
         NEW i, i = Head(net[x]).id
  PROVE  EntryGone(x, y, i)
<1>1. PICK shut : shut = {active[x][r][i] : r \in Knowing(x, i)}
  OBVIOUS
<1>2. /\ sock' = [sock EXCEPT ![x] = [h \in Handles |-> IF h \in shut THEN Closed ELSE @[h]]]
      /\ active' = [active EXCEPT ![x] = [r \in Roles |-> Drop(@[r], i)]]
      /\ UNCHANGED listening
  BY <1>1 DEF HandleClosed
<1>. USE DEF Inv, Sound
<1>3. /\ sock \in [Sides -> [Handles -> Ends \cup {Closed}]]
      /\ active \in [Sides -> [Roles -> PartialMaps]]
  BY DEF TypeInv
<1>4. \A h : h \in shut <=> i \in DOMAIN Tab(x) /\ h = Tab(x)[i]
  <2>1. \A r \in Roles : r \in Knowing(x, i) <=> r = Role(x) /\ i \in DOMAIN Tab(x)
    BY RoleFacts DEF Knowing, Tab
  <2>2. \A r : r \in Knowing(x, i) <=> r = Role(x) /\ i \in DOMAIN Tab(x)
    BY <2>1, RoleFacts DEF Knowing
  <2>3. Tab(x)[i] = active[x][Role(x)][i]
    BY DEF Tab
  <2>. QED  BY <1>1, <2>2, <2>3
<1>5. /\ sock' \in [Sides -> [Handles -> Ends \cup {Closed}]] /\ sock'[y] = sock[y]
      /\ \A g \in Handles : sock'[x][g] = IF g \in shut THEN Closed ELSE sock[x][g]
  BY <1>3, <1>2
<1>. DEFINE D == [r \in Roles |-> Drop(active[x][r], i)]
<1>6. \A r \in Roles :
        /\ D[r] \in PartialMaps /\ DOMAIN D[r] = DOMAIN active[x][r] \ {i}
        /\ \A j \in DOMAIN active[x][r] \ {i} : D[r][j] = active[x][r][j]
  <2>1. \A r \in Roles : D[r] = Drop(active[x][r], i) /\ active[x][r] \in PartialMaps
    BY <1>3
  <2>. SUFFICES ASSUME NEW r \in Roles
                PROVE  /\ D[r] \in PartialMaps /\ DOMAIN D[r] = DOMAIN active[x][r] \ {i}
                       /\ \A j \in DOMAIN active[x][r] \ {i} : D[r][j] = active[x][r][j]
    OBVIOUS
  <2>. HIDE DEF D
  <2>2. PICK f \in PartialMaps : f = active[x][r] /\ D[r] = Drop(f, i)
    BY <2>1
  <2>3. /\ Drop(f, i) \in PartialMaps /\ DOMAIN Drop(f, i) = DOMAIN f \ {i}
        /\ \A j \in DOMAIN f \ {i} : Drop(f, i)[j] = f[j]
    BY DropFacts
  <2>. QED  BY <2>2, <2>3
<1>7. D \in [Roles -> PartialMaps]
  BY <1>6
<1>8. active' = [active EXCEPT ![x] = D]
  BY <1>3, <1>2
<1>. HIDE DEF D
<1>9. active' \in [Sides -> [Roles -> PartialMaps]] /\ active'[y] = active[y] /\ active'[x] = D
  BY <1>3, <1>7, <1>8
<1>10. \A z : Role(z)' = Role(z)
  BY <1>2 DEF Role
<1>11. Tab(y)' = Tab(y) /\ Tab(x)' = D[Role(x)]
  BY <1>9, <1>10 DEF Tab
<1>12. Role(x) \in Roles
  BY RoleFacts
<1>13. DOMAIN Tab(x)' = DOMAIN Tab(x) \ {i} /\ \A j \in DOMAIN Tab(x)' : Tab(x)'[j] = Tab(x)[j]
  BY <1>6, <1>11, <1>12 DEF Tab
<1>14. \A r \in Roles : r # Role(x) => DOMAIN active'[x][r] = {}
  BY <1>6, <1>9, RoleFacts
<1>. QED  BY <1>4, <1>5, <1>9, <1>11, <1>13, <1>14 DEF EntryGone

LEMMA HandleClosedStep ==
  ASSUME NEW s \in Sides, NEW t \in Sides, s # t, Inv(s, t),
         NEW x \in Sides, HandleClosed(x)
  PROVE  Inv(s, t)'
<1>0. PICK p : p = Head(net[x])
  OBVIOUS
<1>1. PICK i : i = p.id
  OBVIOUS
<1>2. /\ Incoming(x, "closed") /\ net' = [net EXCEPT ![x] = Tail(@)]
      /\ UNCHANGED <<listening, pending, nextFd, nextId, answering, taken, sent, got,
                     hungUp, begun>>
  BY <1>0 DEF HandleClosed, apps
<1>3. PICK y \in Sides : x # y /\ Sides = {x, y} /\ Sides = {s, t}
  BY SideFacts
<1>5. /\ sock' \in [Sides -> [Handles -> Ends \cup {Closed}]] /\ sock'[y] = sock[y]
      /\ \A g \in Handles :
           sock'[x][g] = IF i \in DOMAIN Tab(x) /\ g = Tab(x)[i]
                           THEN Closed ELSE sock[x][g]
      /\ active' \in [Sides -> [Roles -> PartialMaps]] /\ active'[y] = active[y]
      /\ \A r \in Roles : r # Role(x) => DOMAIN active'[x][r] = {}
      /\ Tab(y)' = Tab(y) /\ DOMAIN Tab(x)' = DOMAIN Tab(x) \ {i}
      /\ \A j \in DOMAIN Tab(x)' : Tab(x)'[j] = Tab(x)[j]
  <2>1. i = Head(net[x]).id
    BY <1>0, <1>1
  <2>2. EntryGone(x, y, i)
    BY <1>3, <2>1, ClosedEntry
  <2>. QED  BY <2>2 DEF EntryGone
<1>. USE DEF Inv, Sound
<1>4. /\ net' \in [Sides -> Seq(Packets)] /\ p.type = "closed"
      /\ p \in Carried(x) /\ Carried(x) = Carried(x)' \cup {p} /\ Carried(y)' = Carried(y)
      /\ \A q \in Carried(x)' : Before(p, q)
      /\ Ordered(net'[s]) /\ Ordered(net'[t])
  BY <1>0, <1>2, <1>3, IncomingFacts
<1>6. \A z : Role(z)' = Role(z) /\ Answers(z)' = Answers(z)
  BY <1>2 DEF Role, Answers
<1>7. /\ \A z \in Sides : DOMAIN Tab(z)' \subseteq DOMAIN Tab(z)
      /\ \A z \in Sides : \A j \in DOMAIN Tab(z) : z # x \/ j # i => j \in DOMAIN Tab(z)'
      /\ \A z \in Sides : \A j \in DOMAIN Tab(z)' : z # x \/ j # i
      /\ \A z \in Sides : \A j \in DOMAIN Tab(z)' : Tab(z)'[j] = Tab(z)[j]
  BY <1>3, <1>5
<1>8. \A z \in Sides : \A j \in DOMAIN Tab(z)' : At(z, j)' = At(z, j)
  <2>1. ASSUME NEW j \in DOMAIN Tab(x)'  PROVE At(x, j)' = At(x, j)
    <3>1. j \in DOMAIN Tab(x) /\ j # i /\ Tab(x)[j] \in Handles
      BY <1>5, <2>1, TableTypes
    <3>2. i \in DOMAIN Tab(x) => Tab(x)[j] # Tab(x)[i]
      BY <1>3, <3>1 DEF HandleInv
    <3>. QED  BY <1>5, <2>1, <3>1, <3>2 DEF At
  <2>2. ASSUME NEW j \in DOMAIN Tab(y)'  PROVE At(y, j)' = At(y, j)
    BY <1>5, <2>2 DEF At
  <2>. QED  BY <1>3, <2>1, <2>2
<1>9. \A j, f : \A z \in Sides : Linked(z, j, f) /\ (z # x \/ j # i) => Linked(z, j, f)'
  BY <1>2, <1>7, <1>8 DEF Linked
<1>10. i \in DOMAIN Tab(y) => At(y, i) = Closed
  BY <1>1, <1>3, <1>4 DEF CloseInv
<1>11. \A z \in Sides, g \in Handles : sock'[z][g] \in {sock[z][g], Closed}
  BY <1>3, <1>5
<1>12. \A z \in Sides : Carried(z)' \subseteq Carried(z)
  BY <1>3, <1>4
<1>13. TypeInv'
  BY <1>2, <1>4, <1>5 DEF TypeInv
<1>14. QuietInv(t)' /\ RightStream'
  BY <1>2 DEF QuietInv, RightStream
<1>15. SideInv(s, t)'
  <2>1. \A z \in {s, t}, g \in Handles :
          sock'[z][g] # Closed => sock'[z][g][2] = Role(z) /\ sock'[z][g][1] <= begun
    BY <1>3, <1>11 DEF SideInv
  <2>2. DOMAIN active'[s]["target"] = {} /\ DOMAIN active'[t]["source"] = {}
    <3>1. Role(s) = "source" /\ Role(t) = "target" /\ "source" \in Roles /\ "target" \in Roles
      BY RoleFacts, EndFacts DEF Places
    <3>2. \A z \in Sides, r \in Roles : r # Role(z) => DOMAIN active'[z][r] = {}
      BY <1>3, <1>5, RoleFacts
    <3>. QED  BY <3>1, <3>2
  <2>. QED  BY <1>2, <1>3, <1>6, <1>12, <2>1, <2>2 DEF SideInv
<1>16. HandleInv(s, t)'
  <2>1. \A z \in {s, t}, g, k \in Handles :
          sock'[z][g] = sock'[z][k] /\ sock'[z][g] # Closed => g = k
    BY <1>3, <1>11 DEF HandleInv
  <2>. QED  BY <1>2, <1>3, <1>7, <2>1 DEF HandleInv
<1>17. PendingInv(s)'
  <2>1. ASSUME NEW fd \in DOMAIN pending[s]
        PROVE  sock'[s][pending[s][fd]] = sock[s][pending[s][fd]]
    <3>1. pending[s][fd] \in Handles /\ (i \in DOMAIN Tab(s) => pending[s][fd] # Tab(s)[i])
      BY TableTypes DEF HandleInv
    <3>. QED  BY <1>3, <1>5, <3>1
  <2>. QED  BY <1>2, <2>1 DEF PendingInv
<1>18. IdInv(s, t)'
  BY <1>2, <1>3, <1>6, <1>7, <1>12 DEF IdInv
<1>19. RequestInv(s, t)'
  <2>1. \A c : (\A g \in Handles : sock[t][g] # <<c, "target">>)
                 => \A g \in Handles : sock'[t][g] # <<c, "target">>
    BY <1>11 DEF Closed
  <2>. QED  BY <1>2, <1>12, <2>1 DEF RequestInv
<1>20. ResponseInv(s, t)'
  <2>1. ASSUME NEW q \in Carried(s) \cup Answers(t), q.type = "response"
        PROVE  /\ q.id \in DOMAIN Tab(t)' /\ At(t, q.id)' = At(t, q.id)
               /\ q.id \notin DOMAIN Tab(s)'
    <3>1. q.id \in DOMAIN Tab(t) /\ q.id \notin DOMAIN Tab(s)
      BY <2>1 DEF ResponseInv
    <3>2. x = t => q.id # i
      BY <1>1, <1>4, <2>1 DEF ResponseInv
    <3>. QED  BY <1>7, <1>8, <3>1, <3>2
  <2>2. \A q \in Carried(s)' \cup Answers(t) : q \in Carried(s) \cup Answers(t)
    BY <1>12
  <2>. QED  BY <1>2, <1>6, <1>12, <2>1, <2>2 DEF ResponseInv
<1>21. OrderInv(s, t)'
  BY <1>4, <1>6, <1>12 DEF OrderInv
<1>22. LinkInv(s, t)'
  <2>1. \A z, w \in Sides : \A j \in DOMAIN Tab(z)' :
          z # w /\ At(z, j) # Closed => w # x \/ j # i
    BY <1>3, <1>7, <1>10
  <2>2. \A e, j : Response(e, j) \in Carried(s) \cup Answers(t)
                    => Response(e, j) \in Carried(s)' \cup Answers(t)
    BY <1>3, <1>4, ResponseFacts
  <2>3. \A j \in DOMAIN Tab(t)' : Response(At(t, j), j)' = Response(At(t, j), j)
    BY <1>8 DEF Response
  <2>. QED  BY <1>6, <1>7, <1>8, <1>9, <2>1, <2>2, <2>3 DEF LinkInv
<1>23. DataInv(s)' /\ DataInv(t)'
  <2>1. ASSUME NEW z \in Sides, NEW q \in Carried(z)', q.type = "data"
        PROVE  z # x \/ q.id # i
    BY <1>1, <1>4, <2>1 DEF Before
  <2>2. \A e, j : \A z \in Sides : Response(e, j) \in Carried(z) => Response(e, j) \in Carried(z)'
    BY <1>3, <1>4, ResponseFacts
  <2>. QED  BY <1>6, <1>9, <1>12, <2>1, <2>2 DEF DataInv
<1>24. CloseInv(s, t)' /\ CloseInv(t, s)'
  BY <1>2, <1>7, <1>8, <1>12 DEF CloseInv
<1>25. StreamInv(s)' /\ StreamInv(t)'
  <2>1. \A z \in Sides : \A q \in Carried(z) : q.type = "data" => q \in Carried(z)'
    BY <1>3, <1>4
  <2>. QED  BY <1>2, <1>6, <1>12, <2>1 DEF StreamInv
<1>. QED  BY <1>13, <1>14, <1>15, <1>16, <1>17, <1>18, <1>19, <1>20, <1>21, <1>22, <1>23, <1>24, <1>25

-----------------------------------------------------------------------------
(* The invariant                                                           *)

LEMMA InitInv ==
  ASSUME OneSource, Init
  PROVE  IInv
<1>1. PICK s \in Sides, t \in Sides :
        s # t /\ listening = {s}
  BY DEF OneSource, Sides
<1>2. Sides = {s, t} /\ Places(s, t)
  BY <1>1, SideFacts, PlaceFacts
<1>3. Empty \in PartialMaps /\ DOMAIN Empty = {}
  <2>1. DOMAIN Empty = {} /\ Empty \in [DOMAIN Empty -> Handles]
    BY DEF Empty
  <2>. QED  BY <2>1, MapFacts
<1>4. TypeInv
  <2>1. <<>> \in Seq(Packets) /\ <<>> \in Seq(Ends \X Nat)
    BY EmptySeq
  <2>2. sock \in [Sides -> [Handles -> Ends \cup {Closed}]]
    BY DEF Init
  <2>3. pending \in [Sides -> PartialMaps] /\ active \in [Sides -> [Roles -> PartialMaps]]
    BY <1>3 DEF Init
  <2>4. /\ nextFd \in [Sides -> Nat] /\ nextId \in [Sides -> Nat]
        /\ sent \in [Ends -> Nat] /\ taken \in [Ends -> Nat]
        /\ hungUp \subseteq Ends /\ begun \in 0..MaxConns
    BY ConnsAssumption DEF Init
  <2>5. /\ answering \in [Sides -> Seq(Packets)] /\ net \in [Sides -> Seq(Packets)]
        /\ got \in [Ends -> Seq(Ends \X Nat)]
    BY <2>1 DEF Init
  <2>. QED  BY <2>2, <2>3, <2>4, <2>5 DEF TypeInv
<1>5. QuietInv(t) /\ RightStream
  <2>1. \A e \in Ends : got[e] = <<>> /\ sent[e] = 0 /\ hungUp = {}
    BY DEF Init
  <2>2. DOMAIN << >> = {}
    BY EmptySeq
  <2>. QED  BY <2>1, <2>2 DEF QuietInv, RightStream
<1>6. /\ \A x \in Sides : /\ Carried(x) = {} /\ Answers(x) = {}
                          /\ net[x] = <<>> /\ answering[x] = <<>>
                          /\ DOMAIN Tab(x) = {} /\ DOMAIN pending[x] = {}
                          /\ \A h \in Handles : sock[x][h] = Closed
      /\ \A x \in Sides, r \in Roles : DOMAIN active[x][r] = {}
  <2>1. \A x \in Sides, r \in Roles : active[x][r] = Empty
    BY DEF Init
  <2>2. \A x \in Sides : Role(x) \in Roles /\ pending[x] = Empty
    BY DEF Init, Role, Roles
  <2>3. \A x \in Sides : net[x] = <<>> /\ answering[x] = <<>>
    BY DEF Init
  <2>4. \A x \in Sides : Carried(x) = {} /\ Answers(x) = {}
    BY <2>3, OneAnswer DEF Carried, Answers
  <2>. QED  BY <1>3, <2>1, <2>2, <2>3, <2>4 DEF Init, Tab
<1>7. SideInv(s, t)
  <2>1. nextFd[s] = begun + 1 /\ "source" \in Roles /\ "target" \in Roles /\ Len(<<>>) <= 1
    BY EmptySeq DEF Init, Roles
  <2>. QED  BY <1>1, <1>2, <1>6, <2>1 DEF SideInv
<1>8. HandleInv(s, t) /\ PendingInv(s)
  BY <1>2, <1>6 DEF HandleInv, PendingInv
<1>9. IdInv(s, t)
  <2>1. nextId[t] \in 1 .. begun + 1
    BY DEF Init
  <2>. QED  BY <1>2, <1>6, <2>1 DEF IdInv
<1>10. RequestInv(s, t) /\ ResponseInv(s, t)
  BY <1>2, <1>6 DEF RequestInv, ResponseInv
<1>11. OrderInv(s, t)
  <2>1. DOMAIN << >> = {}
    BY EmptySeq
  <2>. QED  BY <1>2, <1>6, <2>1 DEF OrderInv, Ordered
<1>12. LinkInv(s, t) /\ \A x, y \in Sides : DataInv(x) /\ CloseInv(x, y)
  BY <1>2, <1>6 DEF LinkInv, DataInv, CloseInv
<1>13. StreamInv(s) /\ StreamInv(t)
  <2>1. \A e \in Ends : Peer(e) \in Ends
    BY EndFacts
  <2>2. \A e \in Ends : Len(got[e]) = 0 /\ taken[e] = 0
    BY EmptySeq DEF Init
  <2>3. \A e \in Ends : Len(got[e]) <= taken[Peer(e)] /\ Len(got[e]) + 1 .. taken[Peer(e)] = {}
    BY <2>1, <2>2
  <2>. QED  BY <1>6, <2>3 DEF StreamInv
<1>. QED  BY <1>1, <1>4, <1>5, <1>7, <1>8, <1>9, <1>10, <1>11, <1>12, <1>13 DEF IInv, Sound

LEMMA StepInv ==
  ASSUME IInv, [Next]_vars, [Undisturbed]_vars
  PROVE  IInv'
<1>1. PICK s \in Sides, t \in Sides : s # t /\ Inv(s, t)
  BY DEF IInv, Inv
<1>2. CASE NoStaleHandle /\ \E x \in Sides, h \in Handles : Accept(x, h) \/ Connect(x, h)
  BY <1>1, <1>2, AcceptStep, ConnectStep DEF IInv, Inv
<1>3. CASE \E x \in Sides, r \in Roles, i \in Conns :
             ForwardData(x, r, i) \/ ForwardClose(x, r, i)
  BY <1>1, <1>3, ForwardDataStep, ForwardCloseStep DEF IInv, Inv
<1>4. CASE \E x \in Sides : ConnectFails(x) \/ Respond(x) \/ HandleRefusal(x)
  BY <1>1, <1>4, ConnectFailsStep, RespondStep, HandleRefusalStep DEF IInv, Inv
<1>5. CASE \E x \in Sides : HandleResponse(x) \/ HandleData(x) \/ HandleClosed(x)
  BY <1>1, <1>5, HandleResponseStep, HandleDataStep, HandleClosedStep DEF IInv, Inv
<1>6. CASE ReverseWaits /\ \E e \in Ends : AppSends(e) \/ AppHangsUp(e)
  BY <1>1, <1>6, AppSendsStep, AppHangsUpStep DEF IInv, Inv
<1>7. CASE UNCHANGED vars
  <2>1. /\ UNCHANGED <<listening, sock, tables, sent, taken, got, hungUp, begun>>
        /\ UNCHANGED <<answering, net>>
    BY <1>7 DEF vars, apps
  <2>2. TypeInv' /\ OrderInv(s, t)'
    BY <1>1, <2>1 DEF tables, Inv, Sound, TypeInv, OrderInv, Carried, Answers
  <2>3. answering'[s] = <<>> /\ Len(answering'[t]) <= 1
    BY <1>1, <2>1 DEF Inv, Sound, SideInv
  <2>4. \A x : Carried(x)' = Carried(x) /\ Answers(x)' = Answers(x)
    BY <2>1 DEF Carried, Answers
  <2>5. Inv(s, t)'
    BY <1>1, <2>1, <2>2, <2>3, <2>4, PacketStep
  <2>. QED  BY <1>1, <2>5 DEF IInv, Inv
<1>. QED  BY <1>2, <1>3, <1>4, <1>5, <1>6, <1>7 DEF Next, Undisturbed

(* Where there is one kind of tunnel, and as long as no stale handle is    *)
(* given out and the destinations at the client wait to be sent to, the    *)
(* tables of the two sides agree: an id leads to the two ends of one       *)
(* connection, and what is on its way finds its entry.                     *)
THEOREM Invariance == OneSource /\ Spec /\ [][Undisturbed]_vars => []IInv
<1>1. OneSource /\ Init => IInv
  BY InitInv
<1>2. IInv /\ [Next]_vars /\ [Undisturbed]_vars => IInv'
  BY StepInv
<1>. QED  BY <1>1, <1>2, PTL DEF Spec

(* In such a session an application receives the pieces sent at the other  *)
(* end of its own connection, from the first on and in order, however many *)
(* connections there are.                                                  *)
THEOREM RightEntry == OneSource /\ Spec /\ [][Undisturbed]_vars => []RightStream
<1>1. IInv => RightStream
  BY DEF IInv
<1>. QED  BY <1>1, Invariance, PTL

-----------------------------------------------------------------------------
(* What is on its way                                                      *)

Carrying(x, e) ==
  {k \in DOMAIN net[x] : net[x][k].type = "data" /\ net[x][k].chunk[1] = e}

(* The packets that carry data of an end are as many as the pieces that    *)
(* the other end has still to receive.                                     *)
LEMMA CountOf ==
  ASSUME NEW s \in Sides, NEW t \in Sides, s # t, Inv(s, t),
         NEW x \in Sides, NEW e \in Ends, e[2] = Role(x), e \notin hungUp
  PROVE  /\ Len(got[e]) \in Nat /\ taken[Peer(e)] \in Nat
         /\ Len(got[e]) <= taken[Peer(e)]
         /\ Cardinality(Carrying(x, Peer(e))) = taken[Peer(e)] - Len(got[e])
<1>1. PICK f : f = Peer(e)
  OBVIOUS
<1>2. PICK a : a = Len(got[e])
  OBVIOUS
<1>3. PICK b : b = taken[f]
  OBVIOUS
<1>4. f \in Ends /\ a \in Nat /\ b \in Nat /\ net[x] \in Seq(Packets)
  BY <1>1, <1>2, <1>3, EndFacts DEF Inv, TypeInv
<1>. USE DEF Inv, Sound
<1>5. StreamInv(x) /\ Ordered(net[x])
  BY SideFacts DEF OrderInv
<1>6. /\ a <= b
      /\ \A p \in Carried(x) : p.type = "data" /\ p.chunk[1] = f =>
           p.chunk[2] > a /\ p.chunk[2] <= b
      /\ \A n \in a + 1 .. b :
           \E p \in Carried(x) : p.type = "data" /\ p.chunk = <<f, n>>
  BY <1>1, <1>2, <1>3, <1>5 DEF StreamInv
<1>. DEFINE K == Carrying(x, f)
            F == [k \in K |-> net[x][k].chunk[2]]
<1>7. \A k \in K : /\ k \in DOMAIN net[x] /\ k \in Nat /\ net[x][k] \in Carried(x)
                   /\ net[x][k] \in Packets
                   /\ net[x][k].type = "data" /\ net[x][k].chunk[1] = f
                   /\ net[x][k].chunk[2] \in Nat
  <2>1. \A k \in DOMAIN net[x] : k \in Nat /\ net[x][k] \in Packets
    BY <1>4
  <2>. QED  BY <2>1, PacketFacts DEF Carried, Elements, Carrying
<1>8. F \in [K -> a + 1 .. b]
  <2>. SUFFICES ASSUME NEW k \in K  PROVE net[x][k].chunk[2] \in a + 1 .. b
    OBVIOUS
  <2>1. net[x][k].chunk[2] > a /\ net[x][k].chunk[2] <= b /\ net[x][k].chunk[2] \in Nat
    BY <1>6, <1>7
  <2>. QED  BY <1>4, <2>1
<1>9. ASSUME NEW j \in K, NEW k \in K, F[j] = F[k]  PROVE j = k
  <2>1. \A i, l \in K : i < l => net[x][i].chunk[2] < net[x][l].chunk[2]
    BY <1>5, <1>7 DEF Ordered, Before
  <2>2. /\ net[x][j].chunk[2] = net[x][k].chunk[2] /\ net[x][k].chunk[2] \in Nat
        /\ j \in Nat /\ k \in Nat
    BY <1>7, <1>9
  <2>. QED  BY <2>1, <2>2
<1>10. ASSUME NEW n \in a + 1 .. b  PROVE \E k \in K : F[k] = n
  <2>1. PICK p \in Carried(x) : p.type = "data" /\ p.chunk = <<f, n>>
    BY <1>6
  <2>2. PICK k \in DOMAIN net[x] : net[x][k] = p
    BY DEF Carried, Elements
  <2>3. k \in K /\ F[k] = n
    BY <2>1, <2>2 DEF Carrying
  <2>. QED  BY <2>3
<1>. HIDE DEF F, K
<1>11. F \in Bijection(K, a + 1 .. b)
  BY <1>8, <1>9, <1>10 DEF Bijection, Injection, Surjection, IsInjective
<1>12. Cardinality(K) = b - a
  <2>1. IsFiniteSet(a + 1 .. b) /\ Cardinality(a + 1 .. b) = b - a
    BY <1>4, <1>6, FS_Interval
  <2>2. F \in Bijection(K, a + 1 .. b) => ExistsBijection(K, a + 1 .. b)
    BY DEF ExistsBijection
  <2>3. ExistsBijection(K, a + 1 .. b)
    BY <1>11, <2>2
  <2>4. ExistsBijection(a + 1 .. b, K)
    BY <2>3, Fun_ExistsBijSymmetric
  <2>. QED  BY <2>1, <2>4, FS_Bijection
<1>. QED  BY <1>1, <1>2, <1>3, <1>4, <1>6, <1>12 DEF K

LEMMA AllAccounted ==
  ASSUME IInv
  PROVE  NothingLost
<1>1. PICK s \in Sides, t \in Sides : s # t /\ Inv(s, t)
  BY DEF IInv, Inv
<1>. SUFFICES ASSUME NEW f \in Ends, Peer(f) \notin hungUp
              PROVE  taken[f] = Len(got[Peer(f)]) + InFlight(f)
  BY DEF NothingLost
<1>2. PICK e : e = Peer(f)
  OBVIOUS
<1>3. e \in Ends /\ Peer(e) = f /\ e[2] # f[2] /\ e[2] \in Roles
  BY <1>2, EndFacts
<1>4. PICK x \in Sides, y \in Sides : x # y /\ e[2] = Role(x) /\ Role(y) # Role(x)
  BY <1>1, <1>3, RoleFacts, EndFacts DEF Places
<1>5. /\ Len(got[e]) \in Nat /\ taken[f] \in Nat
      /\ Len(got[e]) <= taken[f]
      /\ Cardinality(Carrying(x, f)) = taken[f] - Len(got[e])
  BY <1>1, <1>2, <1>3, <1>4, CountOf
<1>6. Carrying(y, f) = {}
  <2>1. DataInv(y)
    BY <1>1, <1>4, SideFacts DEF Inv, Sound
  <2>2. \A k \in DOMAIN net[y] : net[y][k] \in Carried(y)
    BY DEF Carried, Elements
  <2>3. \A k \in DOMAIN net[y] : net[y][k].type = "data" => Peer(net[y][k].chunk[1]) # e
    BY <1>4, <2>1, <2>2 DEF DataInv
  <2>. QED  BY <1>2, <2>3 DEF Carrying
<1>7. Cardinality(Carrying(y, f)) = 0
  BY <1>6, FS_EmptySet
<1>8. InFlight(f) = Cardinality(Carrying("client", f)) + Cardinality(Carrying("server", f))
  BY DEF InFlight, Carrying
<1>9. \/ x = "client" /\ y = "server"
      \/ x = "server" /\ y = "client"
  BY <1>4 DEF Sides
<1>10. InFlight(f) = taken[f] - Len(got[e])
  BY <1>5, <1>7, <1>8, <1>9
<1>. QED  BY <1>2, <1>5, <1>10

(* In such a session, whatever a handler has read is on its way or has     *)
(* been written at the other end, unless the application there has hung    *)
(* up: no packet is dropped for want of its entry, however many pieces     *)
(* there are.                                                              *)
THEOREM EveryPieceIsKept == OneSource /\ Spec /\ [][Undisturbed]_vars => []NothingLost
<1>1. IInv => NothingLost
  BY AllAccounted
<1>. QED  BY <1>1, Invariance, PTL

-----------------------------------------------------------------------------
(* Closing                                                                 *)

(* The end of a connection is handled: all that the other application has  *)
(* sent has been received, unless this one has hung up.                    *)
LEMMA AllReceived ==
  ASSUME NEW s \in Sides, NEW t \in Sides, s # t, Inv(s, t),
         NEW x \in Sides, HandleClosed(x),
         NEW i, i = Head(net[x]).id, i \in DOMAIN Tab(x),
         NEW e, e = At(x, i), e # Closed, e \notin hungUp
  PROVE  Peer(e) \in hungUp /\ Len(got[e]) = sent[Peer(e)]
<1>1. PICK p : p = Head(net[x])
  OBVIOUS
<1>2. PICK y \in Sides : x # y /\ Sides = {x, y} /\ Sides = {s, t}
  BY SideFacts
<1>3. Incoming(x, "closed") /\ net' = [net EXCEPT ![x] = Tail(@)]
  BY DEF HandleClosed
<1>4. /\ p.type = "closed" /\ p.id = i /\ p \in Carried(x)
      /\ \A q \in Carried(x) : q # p => Before(p, q)
  <2>1. /\ p \in Carried(x) /\ p.type = "closed"
        /\ Carried(x) = Carried(x)' \cup {p}
        /\ \A q \in Carried(x)' : Before(p, q)
    BY <1>1, <1>3, IncomingFacts
  <2>. QED  BY <1>1, <2>1
<1>5. e \in Ends /\ e[2] = Role(x) /\ Peer(e) \in Ends
  BY TableTypes, RoleFacts, EndFacts DEF Inv
<1>. USE DEF Inv, Sound
<1>6. CloseInv(x, y) /\ DataInv(x) /\ StreamInv(x)
  BY <1>2
<1>7. Peer(e) \in hungUp /\ taken[Peer(e)] = sent[Peer(e)]
  BY <1>4, <1>6 DEF CloseInv
<1>8. \A q \in Carried(x) : q.type = "data" => Peer(q.chunk[1]) # e
  <2>. SUFFICES ASSUME NEW q \in Carried(x), q.type = "data", Peer(q.chunk[1]) = e
                PROVE  FALSE
    OBVIOUS
  <2>1. q.id \in DOMAIN Tab(x) /\ At(x, q.id) = e
    <3>1. CASE Linked(x, q.id, e)
      BY <3>1 DEF Linked
    <3>2. CASE Response(q.chunk[1], q.id) \in Carried(x)
      <4>1. x = s
        BY <1>2, <3>2, ResponseFacts DEF SideInv
      <4>2. q.chunk[1] \in Ends /\ q.chunk[1][1] = e[1]
        <5>1. q \in Packets
          BY CarriedTypes
        <5>2. q.chunk[1] \in Ends
          BY <5>1, PacketFacts
        <5>. QED  BY <5>2, EndFacts
      <4>3. e[1] \in DOMAIN pending[s]
        <5>1. PICK w \in Carried(s) : w.type = "response" /\ w.fd = e[1]
          BY <3>2, <4>1, <4>2, ResponseFacts
        <5>. QED  BY <5>1 DEF ResponseInv
      <4>4. e = <<e[1], "source">>
        BY <1>5, <4>1, RoleFacts, EndFacts DEF Places
      <4>5. sock[s][pending[s][e[1]]] = e /\ pending[s][e[1]] \in Handles
        BY <4>3, <4>4, TableTypes DEF PendingInv
      <4>6. sock[s][Tab(s)[i]] = e /\ Tab(s)[i] \in Handles /\ i \in DOMAIN Tab(s)
        BY <4>1, TableTypes DEF At
      <4>7. pending[s][e[1]] = Tab(s)[i]
        <5>1. e # Closed
          BY <1>5, EndFacts
        <5>2. sock[s][pending[s][e[1]]] = sock[s][Tab(s)[i]] /\ sock[s][Tab(s)[i]] # Closed
          BY <4>5, <4>6, <5>1
        <5>. QED  BY <4>5, <4>6, <5>2 DEF HandleInv
      <4>. QED  BY <4>3, <4>6, <4>7 DEF HandleInv
    <3>. QED  BY <1>6, <3>1, <3>2 DEF DataInv
  <2>2. Tab(x)[q.id] \in Handles /\ Tab(x)[i] \in Handles
    BY <2>1, TableTypes
  <2>3. Tab(x)[q.id] = Tab(x)[i]
    BY <1>2, <2>1, <2>2 DEF HandleInv, At
  <2>4. q.id = i
    BY <1>2, <2>1, <2>3 DEF HandleInv
  <2>. QED  BY <1>4, <2>4 DEF Before
<1>9. \A q \in Carried(x) : q.type = "data" => q.chunk[1] # Peer(e)
  BY <1>5, <1>8, EndFacts
<1>10. \A n \in Len(got[e]) + 1 .. taken[Peer(e)] : FALSE
  <2>. SUFFICES ASSUME NEW n \in Len(got[e]) + 1 .. taken[Peer(e)]  PROVE FALSE
    OBVIOUS
  <2>1. PICK q \in Carried(x) : q.type = "data" /\ q.chunk = <<Peer(e), n>>
    BY <1>5, <1>6 DEF StreamInv
  <2>. QED  BY <1>9, <2>1
<1>11. PICK a, b : a = Len(got[e]) /\ b = taken[Peer(e)]
  OBVIOUS
<1>12. a \in Nat /\ b \in Nat /\ a <= b
  <2>1. got[e] \in Seq(Ends \X Nat) /\ taken[Peer(e)] \in Nat
    BY <1>5 DEF TypeInv
  <2>2. Len(got[e]) <= taken[Peer(e)]
    BY <1>5, <1>6 DEF StreamInv
  <2>3. Len(got[e]) \in Nat
    BY <2>1, LenProperties
  <2>. QED  BY <1>11, <2>1, <2>2, <2>3
<1>13. b \notin a + 1 .. b
  BY <1>10, <1>11
<1>14. a = b
  BY <1>12, <1>13
<1>. QED  BY <1>7, <1>11, <1>14

GracefulStep ==
  \A e \in Ends :
    Open(e) /\ ~Open(e)' =>
      \/ e \in hungUp
      \/ Peer(e) \in hungUp /\ Len(got[e]) = sent[Peer(e)]

(* Only two actions close a socket.                                        *)
LEMMA GracefulNext ==
  ASSUME IInv, [Next]_vars
  PROVE  GracefulStep
<1>1. PICK s \in Sides, t \in Sides : s # t /\ Inv(s, t)
  BY DEF IInv, Inv
<1>. SUFFICES ASSUME NEW e \in Ends, Open(e), ~Open(e)', e \notin hungUp
              PROVE  Peer(e) \in hungUp /\ Len(got[e]) = sent[Peer(e)]
  BY DEF GracefulStep
<1>2. PICK x \in Sides, h \in Handles : sock[x][h] = e /\ sock'[x][h] # e
  BY DEF Open, OpenAt
<1>3. e # Closed /\ sock \in [Sides -> [Handles -> Ends \cup {Closed}]]
  BY <1>1, EndFacts DEF Inv, TypeInv
<1>4. ASSUME NEW z \in Sides, NEW g \in Handles, Accept(z, g) \/ Connect(z, g)
      PROVE  FALSE
  <2>1. g \in Fresh(z) /\ \E f : sock' = [sock EXCEPT ![z][g] = f]
    BY <1>4 DEF Accept, Connect
  <2>2. sock[z][g] = Closed
    BY <2>1 DEF Fresh, Free
  <2>. QED  BY <1>2, <1>3, <2>1, <2>2
<1>5. ASSUME NEW z \in Sides, NEW r \in Roles, NEW i \in Conns, ForwardClose(z, r, i)
      PROVE  FALSE
  <2>1. PICK g : g = active[z][r][i]
    OBVIOUS
  <2>2. sock[z][g] \in hungUp /\ sock' = [sock EXCEPT ![z][g] = Closed]
    BY <1>5, <2>1 DEF ForwardClose
  <2>. QED  BY <1>2, <1>3, <2>2
<1>6. ASSUME NEW z \in Sides, HandleClosed(z)
      PROVE  Peer(e) \in hungUp /\ Len(got[e]) = sent[Peer(e)]
  <2>1. PICK w \in Sides : z # w /\ Sides = {z, w}
    BY SideFacts DEF Sides
  <2>2. PICK i : i = Head(net[z]).id
    OBVIOUS
  <2>3. EntryGone(z, w, i)
    BY <1>1, <1>6, <2>1, <2>2, ClosedEntry
  <2>4. x = z /\ i \in DOMAIN Tab(x) /\ h = Tab(x)[i]
    BY <1>2, <2>1, <2>3 DEF EntryGone
  <2>5. At(x, i) = e
    BY <1>2, <2>4 DEF At
  <2>. QED  BY <1>1, <1>3, <1>6, <2>2, <2>4, <2>5, AllReceived
<1>7. \/ \E z \in Sides, g \in Handles : Accept(z, g) \/ Connect(z, g)
      \/ \E z \in Sides, r \in Roles, i \in Conns : ForwardClose(z, r, i)
      \/ \E z \in Sides : HandleClosed(z)
  <2>. SUFFICES ASSUME \/ \E z \in Sides, r \in Roles, i \in Conns : ForwardData(z, r, i)
                       \/ \E z \in Sides : \/ ConnectFails(z) \/ Respond(z)
                                           \/ HandleResponse(z) \/ HandleRefusal(z)
                                           \/ HandleData(z)
                       \/ \E f \in Ends : AppSends(f) \/ AppHangsUp(f)
                       \/ UNCHANGED vars
                PROVE  UNCHANGED sock
    BY <1>2 DEF Next
  <2>. QED  BY DEF ForwardData, ConnectFails, Respond, HandleResponse, HandleRefusal,
                   HandleData, AppSends, AppHangsUp, vars
<1>. QED  BY <1>4, <1>5, <1>6, <1>7

(* In such a session, a socket is closed only when its own application has *)
(* hung up, or when the other one has and all it sent has been written:    *)
(* the end of one connection never ends, or cuts short, another.           *)
THEOREM NoConnectionIsCut == OneSource /\ Spec /\ [][Undisturbed]_vars => GracefulClose
<1>1. IInv /\ [Next]_vars =>
        [\A e \in Ends :
           Open(e) /\ ~Open(e)' =>
             \/ e \in hungUp
             \/ Peer(e) \in hungUp /\ Len(got[e]) = sent[Peer(e)]]_vars
  BY GracefulNext DEF GracefulStep
<1>. QED  BY <1>1, Invariance, PTL DEF Spec, GracefulClose

-----------------------------------------------------------------------------
(* What every session keeps                                                *)

LEMMA OtherFacts ==
  \A x \in Sides : /\ Other(x) \in Sides /\ Other(x) # x /\ Other(Other(x)) = x
                   /\ Sides = {x, Other(x)}
  BY DEF Sides, Other

LEMMA SequencedTail ==
  ASSUME NEW q \in Seq(Packets), q # <<>>, Sequenced(q)
  PROVE  Sequenced(Tail(q)) /\ \A p \in Elements(Tail(q)) : Follows(Head(q), p)
<1>1. /\ Len(q) \in Nat \ {0} /\ DOMAIN q = 1..Len(q) /\ Head(q) = q[1]
      /\ DOMAIN Tail(q) = 1 .. Len(q) - 1
      /\ \A k \in 1 .. Len(q) - 1 : Tail(q)[k] = q[k + 1]
  BY HeadTailProperties
<1>2. ASSUME NEW j \in DOMAIN Tail(q), NEW k \in DOMAIN Tail(q), j < k
      PROVE  Follows(Tail(q)[j], Tail(q)[k])
  <2>1. /\ j + 1 \in DOMAIN q /\ k + 1 \in DOMAIN q /\ j + 1 < k + 1
        /\ Tail(q)[j] = q[j + 1] /\ Tail(q)[k] = q[k + 1]
    BY <1>1, <1>2
  <2>. QED  BY <2>1 DEF Sequenced
<1>3. ASSUME NEW k \in DOMAIN Tail(q)  PROVE Follows(Head(q), Tail(q)[k])
  <2>1. 1 \in DOMAIN q /\ k + 1 \in DOMAIN q /\ 1 < k + 1 /\ Tail(q)[k] = q[k + 1]
    BY <1>1
  <2>. QED  BY <1>1, <2>1 DEF Sequenced
<1>. QED  BY <1>2, <1>3 DEF Sequenced, Elements

LEMMA SequencedAppend ==
  ASSUME NEW q \in Seq(Packets), NEW p \in Packets, Sequenced(q),
         \A x \in Elements(q) : Follows(x, p)
  PROVE  Sequenced(Append(q, p))
<1>. DEFINE a == Append(q, p)
<1>1. /\ Len(q) \in Nat /\ DOMAIN q = 1..Len(q) /\ DOMAIN a = 1 .. Len(q) + 1
      /\ \A k \in 1..Len(q) : a[k] = q[k]
      /\ a[Len(q) + 1] = p
  BY AppendProperties
<1>. HIDE DEF a
<1>. SUFFICES ASSUME NEW j \in DOMAIN a, NEW k \in DOMAIN a, j < k
              PROVE  Follows(a[j], a[k])
  BY DEF Sequenced, a
<1>2. j \in DOMAIN q /\ a[j] = q[j] /\ q[j] \in Elements(q)
  BY <1>1 DEF Elements
<1>3. CASE k = Len(q) + 1
  BY <1>1, <1>2, <1>3
<1>4. CASE k # Len(q) + 1
  <2>1. k \in DOMAIN q /\ a[k] = q[k]
    BY <1>1, <1>4
  <2>. QED  BY <1>2, <2>1 DEF Sequenced
<1>. QED  BY <1>3, <1>4

LEMMA Sending ==
  ASSUME TypeInv, Queues, NEW x \in Sides, NEW p \in Packets, Queue(x, p),
         \A q \in Carried(Other(x)) : Follows(q, p)
  PROVE  /\ net' \in [Sides -> Seq(Packets)] /\ Queues'
         /\ Carried(Other(x))' = Carried(Other(x)) \cup {p} /\ Carried(x)' = Carried(x)
<1>1. PICK y \in Sides : y = Other(x) /\ x # y /\ Sides = {x, y} /\ Other(y) = x
  BY OtherFacts
<1>2. net \in [Sides -> Seq(Packets)] /\ net' = [net EXCEPT ![y] = Append(@, p)]
  BY <1>1 DEF TypeInv, Queue
<1>3. net[y] \in Seq(Packets) /\ net'[y] = Append(net[y], p) /\ net'[x] = net[x]
  BY <1>1, <1>2
<1>4. /\ net'[y] \in Seq(Packets) /\ Elements(net'[y]) = Elements(net[y]) \cup {p}
  BY <1>3, ElementsAppend
<1>5. Sequenced(net'[y]) /\ Sequenced(net'[x])
  <2>1. Sequenced(net[y]) /\ Sequenced(net[x]) /\ \A q \in Elements(net[y]) : Follows(q, p)
    BY <1>1 DEF Queues, Carried
  <2>. QED  BY <1>3, <2>1, SequencedAppend
<1>6. net' \in [Sides -> Seq(Packets)]
  BY <1>2, <1>4, <1>3
<1>. QED  BY <1>1, <1>3, <1>4, <1>5, <1>6 DEF Queues, Carried

LEMMA Receiving ==
  ASSUME TypeInv, Queues, NEW x \in Sides, NEW type, Incoming(x, type),
         net' = [net EXCEPT ![x] = Tail(@)]
  PROVE  /\ net' \in [Sides -> Seq(Packets)] /\ Queues' /\ answering[x] = <<>>
         /\ Head(net[x]) \in Packets /\ Head(net[x]) \in Carried(x)
         /\ Head(net[x]).type = type
         /\ Carried(x) = Carried(x)' \cup {Head(net[x])}
         /\ \A q \in Carried(x)' : Follows(Head(net[x]), q)
         /\ Carried(Other(x))' = Carried(Other(x))
         /\ \A z \in Sides : Carried(z)' \subseteq Carried(z)
<1>1. PICK y \in Sides : y = Other(x) /\ x # y /\ Sides = {x, y}
  BY OtherFacts
<1>2. net \in [Sides -> Seq(Packets)] /\ net[x] \in Seq(Packets) /\ net[x] # <<>>
  BY DEF TypeInv, Incoming
<1>3. net'[x] = Tail(net[x]) /\ net'[y] = net[y]
  BY <1>1, <1>2
<1>4. /\ Head(net[x]) \in Packets /\ Head(net[x]) \in Elements(net[x])
      /\ Tail(net[x]) \in Seq(Packets)
      /\ Elements(net[x]) = Elements(Tail(net[x])) \cup {Head(net[x])}
  BY <1>2, ElementsTail
<1>5. /\ Sequenced(net'[x]) /\ Sequenced(net'[y])
      /\ \A q \in Elements(net'[x]) : Follows(Head(net[x]), q)
  <2>1. Sequenced(net[x]) /\ Sequenced(net[y])
    BY <1>1 DEF Queues
  <2>. QED  BY <1>2, <1>3, <2>1, SequencedTail
<1>6. net' \in [Sides -> Seq(Packets)]
  BY <1>2, <1>4
<1>7. answering[x] = <<>> /\ Head(net[x]).type = type
  BY DEF Incoming
<1>. QED  BY <1>1, <1>3, <1>4, <1>5, <1>6, <1>7 DEF Queues, Carried

LEMMA SamePieces ==
  ASSUME Pieces, UNCHANGED <<taken, sent, got>>,
         \A z \in Sides : \A p \in Carried(z)' : p.type = "data" => p \in Carried(z)
  PROVE  Pieces'
  BY DEF Pieces

LEMMA SameWays ==
  ASSUME NEW way, Ways(way), begun' = begun,
         \A z \in Sides, h \in Handles : sock'[z][h] \in {sock[z][h], Closed},
         \A z \in Sides : \A p \in Carried(z)' :
           p.type \in {"request", "data"} => p \in Carried(z)
  PROVE  Ways(way)'
  BY DEF Ways, Place

LEMMA SameNumbers ==
  ASSUME Numbers, UNCHANGED <<nextFd, nextId, begun>>,
         \A z \in Sides : \A p \in Carried(z)' :
           /\ p.type = "request" => p \in Carried(z)
           /\ p.type = "response" => p.id \in Conns,
         \A z \in Sides : \A p \in Answers(z)' : p \in Answers(z) \/ p.type = "refusal"
  PROVE  Numbers'
  BY DEF Numbers

LEMMA NatFacts ==
  ASSUME TypeInv
  PROVE  begun \in Nat /\ Conns \subseteq Nat /\ \A e \in Ends : e[1] \in Conns
  BY ConnsAssumption, EndFacts DEF TypeInv, Conns

LEMMA AcceptSteady ==
  ASSUME NEW way \in [Conns -> Sides], Steady(way),
         NEW x \in Sides, NEW h \in Handles, Accept(x, h)
  PROVE  OInv'
<1>. DEFINE c == begun + 1
            e == <<c, "source">>
            p == [type |-> "request", fd |-> nextFd[x], conn |-> c]
<1>0. PICK w : w = [way EXCEPT ![c] = Other(x)]
  OBVIOUS
<1>1. /\ begun < MaxConns /\ Queue(x, p) /\ begun' = c
      /\ sock' = [sock EXCEPT ![x][h] = e]
      /\ pending' = [pending EXCEPT ![x] = Put(@, nextFd[x], h)]
      /\ nextFd' = [nextFd EXCEPT ![x] = @ + 1]
      /\ UNCHANGED <<listening, active, nextId, answering, taken, sent, got, hungUp>>
  BY DEF Accept
<1>. USE DEF Steady
<1>2. /\ begun \in Nat /\ c \in Conns /\ c \in Nat /\ begun < c /\ c <= MaxConns
      /\ e \in Ends
  <2>1. begun \in Nat /\ c \in Conns /\ c <= MaxConns
    BY <1>1, ConnsAssumption DEF TypeInv, Conns
  <2>. QED  BY <2>1, EndFacts
<1>3. nextFd[x] \in Conns /\ nextFd[x] \in Nat /\ nextFd[x] <= c
  BY <1>2, ConnsAssumption DEF Numbers, Conns
<1>4. p \in Packets /\ p.type = "request" /\ p.conn = c
  BY <1>2, <1>3, NewPackets
<1>5. e[1] = c /\ e[2] = "source" /\ e # Closed
  BY <1>2, EndFacts
<1>6. w \in [Conns -> Sides] /\ w[c] = Other(x) /\ \A k \in Conns \ {c} : w[k] = way[k]
  BY <1>0, <1>2, OtherFacts
<1>. HIDE DEF p, e
<1>7. \A z \in Sides : \A q \in Carried(z) : q.type = "request" => q.conn <= begun /\ q.conn \in Nat
  <2>1. \A z \in Sides : \A q \in Carried(z) : q \in Packets
    BY CarriedTypes
  <2>. QED  BY <2>1, NatFacts, PacketFacts DEF Ways
<1>8. \A q \in Carried(Other(x)) : Follows(q, p)
  BY <1>2, <1>4, <1>7, OtherFacts DEF Follows
<1>9. /\ net' \in [Sides -> Seq(Packets)] /\ Queues'
      /\ Carried(Other(x))' = Carried(Other(x)) \cup {p} /\ Carried(x)' = Carried(x)
  BY <1>1, <1>4, <1>8, Sending
<1>10. \A z \in Sides : \A q \in Carried(z)' : q \in Carried(z) \/ (q = p /\ z = Other(x))
  BY <1>9, OtherFacts
<1>11. sock' \in [Sides -> [Handles -> Ends \cup {Closed}]]
  BY <1>1, <1>2 DEF TypeInv
<1>12. TypeInv'
  <2>1. pending' \in [Sides -> PartialMaps]
    <3>1. pending \in [Sides -> PartialMaps] /\ pending[x] \in PartialMaps
      BY DEF TypeInv
    <3>2. Put(pending[x], nextFd[x], h) \in PartialMaps
      BY <1>3, <3>1, PutFacts
    <3>. QED  BY <1>1, <3>1, <3>2
  <2>2. nextFd' \in [Sides -> Nat]
    BY <1>1, <1>3 DEF TypeInv
  <2>3. begun' \in 0..MaxConns
    BY <1>1, <1>2, ConnsAssumption
  <2>. QED  BY <1>1, <1>9, <1>11, <2>1, <2>2, <2>3 DEF TypeInv
<1>13. \A f \in Ends : f[1] <= begun => Place(w, f) = Place(way, f)
  <2>1. \A f \in Ends : f[1] <= begun => f[1] \in Conns \ {c}
    BY <1>2, NatFacts
  <2>. QED  BY <1>6, <2>1 DEF Place
<1>14. Ways(w)'
  <2>1. ASSUME NEW z \in Sides, NEW g \in Handles, sock'[z][g] # Closed
        PROVE  sock'[z][g][1] <= c /\ z = Place(w, sock'[z][g])
    <3>1. CASE z = x /\ g = h
      <4>1. sock'[z][g] = e
        BY <1>1, <3>1 DEF TypeInv
      <4>2. Place(w, e) = Other(Other(x))
        BY <1>5, <1>6 DEF Place
      <4>. QED  BY <1>2, <1>5, <3>1, <4>1, <4>2, OtherFacts
    <3>2. CASE ~(z = x /\ g = h)
      <4>1. sock'[z][g] = sock[z][g] /\ sock[z][g] \in Ends \cup {Closed}
        BY <1>1, <3>2 DEF TypeInv
      <4>2. sock[z][g] \in Ends /\ sock[z][g][1] <= begun /\ z = Place(way, sock[z][g])
        BY <2>1, <4>1 DEF Ways
      <4>3. sock[z][g][1] \in Nat
        BY <4>2, NatFacts
      <4>. QED  BY <1>2, <1>13, <4>1, <4>2, <4>3
    <3>. QED  BY <3>1, <3>2
  <2>2. ASSUME NEW z \in Sides, NEW q \in Carried(z)'
        PROVE  /\ q.type = "request" => q.conn <= c /\ w[q.conn] = z
               /\ q.type = "data" =>
                    q.chunk[1][1] <= c /\ Other(z) = Place(w, q.chunk[1])
    <3>1. CASE q \in Carried(z)
      <4>1. q \in Packets
        BY <3>1, CarriedTypes
      <4>2. ASSUME q.type = "request"  PROVE q.conn <= c /\ w[q.conn] = z
        <5>1. q.conn <= begun /\ q.conn \in Nat /\ q.conn \in Conns /\ way[q.conn] = z
          BY <1>7, <3>1, <4>1, <4>2, PacketFacts DEF Ways
        <5>. QED  BY <1>2, <1>6, <5>1
      <4>3. ASSUME q.type = "data"
            PROVE  q.chunk[1][1] <= c /\ Other(z) = Place(w, q.chunk[1])
        <5>1. /\ q.chunk[1] \in Ends /\ q.chunk[1][1] <= begun
              /\ Other(z) = Place(way, q.chunk[1])
          BY <3>1, <4>1, <4>3, PacketFacts DEF Ways
        <5>2. q.chunk[1][1] \in Nat
          BY <5>1, NatFacts
        <5>. QED  BY <1>2, <1>13, <5>1, <5>2
      <4>. QED  BY <4>2, <4>3
    <3>2. CASE q = p /\ z = Other(x)
      BY <1>2, <1>4, <1>6, <3>2
    <3>. QED  BY <1>10, <3>1, <3>2
  <2>. QED  BY <1>1, <2>1, <2>2 DEF Ways
<1>15. Numbers'
  <2>1. \A z \in Sides : nextFd'[z] \in 1 .. c + 1
    <3>1. \A z \in Sides : nextFd'[z] \in {nextFd[z], nextFd[z] + 1}
      BY <1>1 DEF TypeInv
    <3>. QED  BY <1>2, <3>1 DEF Numbers
  <2>2. \A z \in Sides : nextId'[z] \in 1 .. c + 1 /\ nextId[z] <= c
    BY <1>1, <1>2 DEF Numbers
  <2>3. \A z \in Sides : \A q \in Carried(z)' : q.type = "request" => nextId'[z] <= q.conn
    BY <1>1, <1>4, <1>10, <2>2 DEF Numbers
  <2>4. \A z \in Sides : \A q \in Carried(z)' \cup Answers(z)' :
          q.type = "response" => q.id \in Conns
    BY <1>1, <1>4, <1>10 DEF Numbers, Answers
  <2>5. \A z \in Sides : \A q \in Answers(z)' : q.type \in {"response", "refusal"}
    BY <1>1 DEF Numbers, Answers
  <2>. QED  BY <1>1, <2>1, <2>2, <2>3, <2>4, <2>5 DEF Numbers
<1>16. Pieces'
  BY <1>1, <1>4, <1>10, SamePieces
<1>. QED  BY <1>6, <1>9, <1>12, <1>14, <1>15, <1>16 DEF OInv

(* The entries of a side, in either role, and the sockets they name.       *)
LEMMA EntryTypes ==
  ASSUME TypeInv, NEW x \in Sides, NEW r \in Roles
  PROVE  /\ active[x][r] \in PartialMaps /\ pending[x] \in PartialMaps
         /\ \A i \in DOMAIN active[x][r] : active[x][r][i] \in Handles
         /\ \A fd \in DOMAIN pending[x] : pending[x][fd] \in Handles
  BY MapFacts DEF TypeInv

LEMMA ForwardDataSteady ==
  ASSUME NEW way \in [Conns -> Sides], Steady(way),
         NEW x \in Sides, NEW r \in Roles, NEW i \in Conns, ForwardData(x, r, i)
  PROVE  Steady(way)'
<1>0. PICK e, n : e = sock[x][active[x][r][i]] /\ n = taken[e] + 1
  OBVIOUS
<1>. DEFINE p == [type |-> "data", id |-> i, chunk |-> <<e, n>>]
<1>1. /\ i \in DOMAIN active[x][r] /\ e # Closed /\ taken[e] < sent[e]
      /\ taken' = [taken EXCEPT ![e] = @ + 1] /\ Queue(x, p)
      /\ UNCHANGED <<listening, sock, active, pending, nextFd, nextId, answering,
                     sent, got, hungUp, begun>>
  BY <1>0 DEF ForwardData, tables, apps
<1>. USE DEF Steady
<1>2. active[x][r][i] \in Handles
  BY <1>1, EntryTypes
<1>3. e \in Ends /\ e[1] <= begun /\ x = Place(way, e)
  <2>1. PICK h \in Handles : h = active[x][r][i] /\ sock[x][h] = e
    BY <1>0, <1>2
  <2>2. sock[x][h] \in Ends \cup {Closed}
    BY DEF TypeInv
  <2>. QED  BY <1>1, <2>1, <2>2 DEF Ways
<1>4. /\ taken[e] \in Nat /\ sent[e] \in Nat /\ n \in Nat /\ taken[e] < n /\ n <= sent[e]
      /\ taken' \in [Ends -> Nat] /\ taken'[e] = n
      /\ \A f \in Ends \ {e} : taken'[f] = taken[f]
      /\ \A f \in Ends : taken[f] \in Nat /\ taken'[f] \in Nat /\ taken[f] <= taken'[f]
  <2>1. /\ taken \in [Ends -> Nat] /\ sent \in [Ends -> Nat]
        /\ taken[e] \in Nat /\ sent[e] \in Nat
    BY <1>3 DEF TypeInv
  <2>2. n \in Nat /\ taken[e] < n /\ n <= sent[e]
    <3>1. taken[e] < sent[e] /\ n = taken[e] + 1
      BY <1>0, <1>1
    <3>. QED  BY <2>1, <3>1
  <2>3. taken'[e] = n /\ taken' \in [Ends -> Nat] /\ \A f \in Ends \ {e} : taken'[f] = taken[f]
    BY <1>0, <1>1, <1>3, <2>1, <2>2
  <2>4. ASSUME NEW f \in Ends
        PROVE  taken[f] \in Nat /\ taken'[f] \in Nat /\ taken[f] <= taken'[f]
    BY <2>1, <2>2, <2>3
  <2>. QED  BY <2>1, <2>2, <2>3, <2>4
<1>5. p \in Packets /\ p.type = "data" /\ p.chunk = <<e, n>> /\ p.chunk[1] = e /\ p.chunk[2] = n
  BY <1>3, <1>4, NewPackets, NatFacts
<1>. HIDE DEF p
<1>6. \A z \in Sides : \A q \in Carried(z) : q.type = "data" =>
        /\ q.chunk[1] \in Ends /\ q.chunk[2] \in Nat
        /\ q.chunk[2] \in 1 .. taken[q.chunk[1]]
  <2>1. \A z \in Sides : \A q \in Carried(z) : q \in Packets
    BY CarriedTypes
  <2>. QED  BY <2>1, PacketFacts DEF Pieces
<1>7. \A q \in Carried(Other(x)) : Follows(q, p)
  <2>. SUFFICES ASSUME NEW q \in Carried(Other(x)), q.type = "data", q.chunk[1] = e
                PROVE  q.chunk[2] < n
    BY <1>5 DEF Follows
  <2>1. q.chunk[2] \in Nat /\ q.chunk[2] <= taken[e]
    BY <1>6, OtherFacts
  <2>. QED  BY <1>4, <2>1
<1>8. /\ net' \in [Sides -> Seq(Packets)] /\ Queues'
      /\ Carried(Other(x))' = Carried(Other(x)) \cup {p} /\ Carried(x)' = Carried(x)
  BY <1>1, <1>5, <1>7, Sending
<1>9. \A z \in Sides : \A q \in Carried(z)' : q \in Carried(z) \/ (q = p /\ z = Other(x))
  BY <1>8, OtherFacts
<1>10. TypeInv'
  BY <1>1, <1>4, <1>8 DEF TypeInv
<1>11. Ways(way)'
  <2>1. ASSUME NEW z \in Sides, NEW q \in Carried(z)'
        PROVE  /\ q.type = "request" => q.conn <= begun /\ way[q.conn] = z
               /\ q.type = "data" =>
                    q.chunk[1][1] <= begun /\ Other(z) = Place(way, q.chunk[1])
    <3>1. CASE q \in Carried(z)
      BY <3>1 DEF Ways
    <3>2. CASE q = p /\ z = Other(x)
      BY <1>3, <1>5, <3>2, OtherFacts
    <3>. QED  BY <1>9, <3>1, <3>2
  <2>. QED  BY <1>1, <2>1 DEF Ways, Place
<1>12. Numbers'
  <2>1. \A z \in Sides : \A q \in Carried(z) : q.type = "response" => q.id \in Conns
    BY DEF Numbers
  <2>2. \A z \in Sides : Answers(z)' = Answers(z)
    BY <1>1 DEF Answers
  <2>3. \A z \in Sides : \A q \in Carried(z)' :
           /\ q.type = "request" => q \in Carried(z)
           /\ q.type = "response" => q.id \in Conns
    BY <1>5, <1>9, <2>1
  <2>. QED  BY <1>1, <2>2, <2>3, SameNumbers
<1>13. \A f \in Ends : \A k \in DOMAIN got[f] :
         /\ got[f][k][1] \in Ends /\ got[f][k][2] \in Nat
         /\ got[f][k][2] \in 1 .. taken[got[f][k][1]]
  <2>1. \A f \in Ends : \A k \in DOMAIN got[f] : got[f][k] \in Ends \X Nat
    BY ElementOfSeq DEF TypeInv
  <2>. QED  BY <2>1 DEF Pieces
<1>14. Pieces'
  <2>1. \A f \in Ends : taken'[f] <= sent'[f]
    BY <1>1, <1>4 DEF Pieces
  <2>2. ASSUME NEW z \in Sides, NEW q \in Carried(z)', q.type = "data"
        PROVE  /\ q.chunk[2] \in 1 .. taken'[q.chunk[1]]
               /\ \A f \in Ends : \A k \in DOMAIN got[f] :
                    got[f][k][1] = q.chunk[1] => got[f][k][2] < q.chunk[2]
    <3>1. CASE q \in Carried(z)
      <4>1. /\ q.chunk[1] \in Ends /\ q.chunk[2] \in Nat
            /\ q.chunk[2] \in 1 .. taken[q.chunk[1]]
        BY <1>6, <2>2, <3>1
      <4>2. q.chunk[2] \in 1 .. taken'[q.chunk[1]]
        BY <1>4, <4>1
      <4>. QED  BY <2>2, <3>1, <4>2 DEF Pieces
    <3>2. CASE q = p
      <4>1. q.chunk[2] \in 1 .. taken'[q.chunk[1]]
        BY <1>4, <1>5, <3>2
      <4>2. ASSUME NEW f \in Ends, NEW k \in DOMAIN got[f], got[f][k][1] = e
            PROVE  got[f][k][2] < n
        BY <1>4, <1>13, <4>2
      <4>. QED  BY <1>5, <3>2, <4>1, <4>2
    <3>. QED  BY <1>9, <3>1, <3>2
  <2>3. ASSUME NEW f \in Ends, NEW k \in DOMAIN got[f]
        PROVE  got[f][k][2] \in 1 .. taken'[got[f][k][1]]
    BY <1>4, <1>13
  <2>. QED  BY <1>1, <2>1, <2>2, <2>3 DEF Pieces
<1>. QED  BY <1>8, <1>10, <1>11, <1>12, <1>14

LEMMA ForwardCloseSteady ==
  ASSUME NEW way \in [Conns -> Sides], Steady(way),
         NEW x \in Sides, NEW r \in Roles, NEW i \in Conns, ForwardClose(x, r, i)
  PROVE  Steady(way)'
<1>0. PICK h : h = active[x][r][i]
  OBVIOUS
<1>. DEFINE p == [type |-> "closed", id |-> i]
<1>1. /\ i \in DOMAIN active[x][r] /\ Queue(x, p)
      /\ sock' = [sock EXCEPT ![x][h] = Closed]
      /\ UNCHANGED <<listening, active, pending, nextFd, nextId, answering,
                     sent, taken, got, hungUp, begun>>
  BY <1>0 DEF ForwardClose, tables, apps
<1>. USE DEF Steady
<1>2. p \in Packets /\ p.type = "closed"
  BY NewPackets, NatFacts
<1>. HIDE DEF p
<1>3. \A q \in Carried(Other(x)) : Follows(q, p)
  BY <1>2 DEF Follows
<1>4. /\ net' \in [Sides -> Seq(Packets)] /\ Queues'
      /\ Carried(Other(x))' = Carried(Other(x)) \cup {p} /\ Carried(x)' = Carried(x)
  BY <1>1, <1>2, <1>3, Sending
<1>5. \A z \in Sides : \A q \in Carried(z)' : q \in Carried(z) \/ q.type = "closed"
  <2>1. \A z \in Sides : z = x \/ z = Other(x)
    BY OtherFacts
  <2>. QED  BY <1>2, <1>4, <2>1
<1>6. /\ sock' \in [Sides -> [Handles -> Ends \cup {Closed}]]
      /\ \A z \in Sides, g \in Handles : sock'[z][g] \in {sock[z][g], Closed}
  BY <1>1 DEF TypeInv
<1>7. TypeInv'
  BY <1>1, <1>4, <1>6 DEF TypeInv
<1>8. Ways(way)'
  BY <1>1, <1>5, <1>6, SameWays
<1>9. Numbers'
  <2>1. \A z \in Sides : \A q \in Carried(z) : q.type = "response" => q.id \in Conns
    BY DEF Numbers
  <2>2. \A z \in Sides : Answers(z)' = Answers(z)
    BY <1>1 DEF Answers
  <2>. QED  BY <1>1, <1>5, <2>1, <2>2, SameNumbers
<1>10. Pieces'
  BY <1>1, <1>5, SamePieces
<1>. QED  BY <1>4, <1>7, <1>8, <1>9, <1>10

LEMMA ConnectSteady ==
  ASSUME NEW way \in [Conns -> Sides], Steady(way),
         NEW x \in Sides, NEW h \in Handles, Connect(x, h)
  PROVE  Steady(way)'
<1>0. PICK p, i : p = Head(net[x]) /\ i = nextId[x]
  OBVIOUS
<1>. DEFINE c == p.conn
            e == <<c, "target">>
            r == [type |-> "response", fd |-> p.fd, id |-> i]
<1>1. /\ Incoming(x, "request") /\ net' = [net EXCEPT ![x] = Tail(@)]
      /\ sock' = [sock EXCEPT ![x][h] = e]
      /\ answering' = [answering EXCEPT ![x] = <<r>>]
      /\ active' = [active EXCEPT ![x]["target"] = Put(@, i, h)]
      /\ nextId' = [nextId EXCEPT ![x] = @ + 1]
      /\ UNCHANGED <<listening, pending, nextFd, taken, sent, got, hungUp, begun>>
  BY <1>0 DEF Connect, apps
<1>. USE DEF Steady
<1>2. /\ net' \in [Sides -> Seq(Packets)] /\ Queues'
      /\ p \in Packets /\ p \in Carried(x) /\ p.type = "request"
      /\ Carried(x) = Carried(x)' \cup {p}
      /\ \A q \in Carried(x)' : Follows(p, q)
      /\ \A z \in Sides : Carried(z)' \subseteq Carried(z)
  BY <1>0, <1>1, Receiving
<1>3. /\ c \in Conns /\ c \in Nat /\ p.fd \in Nat /\ c <= begun /\ way[c] = x /\ i <= c
      /\ begun \in Nat /\ i \in Nat /\ i \in 1 .. begun + 1
  <2>1. c \in Conns /\ p.fd \in Nat /\ begun \in Nat /\ Conns \subseteq Nat
    BY <1>2, PacketFacts, NatFacts
  <2>2. c <= begun /\ way[c] = x /\ i <= c /\ i \in 1 .. begun + 1
    BY <1>0, <1>2 DEF Ways, Numbers
  <2>3. i \in Nat
    BY <2>1, <2>2
  <2>. HIDE DEF c
  <2>. QED  BY <2>1, <2>2, <2>3
<1>4. i \in Conns /\ i + 1 \in 1 .. begun + 1
  BY <1>3, ConnsAssumption DEF Conns
<1>5. e \in Ends /\ e # Closed /\ e[1] = c /\ e[2] = "target"
  BY <1>3, EndFacts
<1>6. r \in Packets /\ r.type = "response" /\ r.id = i
  BY <1>3, NewPackets
<1>. HIDE DEF e, r, c
<1>7. /\ sock' \in [Sides -> [Handles -> Ends \cup {Closed}]]
      /\ \A z \in Sides, g \in Handles :
           sock'[z][g] = sock[z][g] \/ (z = x /\ sock'[z][g] = e)
  BY <1>1, <1>5 DEF TypeInv
<1>8. answering' \in [Sides -> Seq(Packets)]
      /\ \A z \in Sides : Answers(z)' \subseteq Answers(z) \cup {r}
  <2>1. <<r>> \in Seq(Packets) /\ answering \in [Sides -> Seq(Packets)]
    BY <1>6 DEF TypeInv
  <2>2. /\ answering' \in [Sides -> Seq(Packets)]
        /\ \A z \in Sides : answering'[z] \in {answering[z], <<r>>}
    BY <1>1, <2>1
  <2>. QED  BY <2>2, OneAnswer DEF Answers
<1>9. TypeInv'
  <2>1. active' \in [Sides -> [Roles -> PartialMaps]]
    <3>1. "target" \in Roles /\ active \in [Sides -> [Roles -> PartialMaps]]
      BY DEF Roles, TypeInv
    <3>2. Put(active[x]["target"], i, h) \in PartialMaps
      <4>1. active[x]["target"] \in PartialMaps
        BY <3>1
      <4>. QED  BY <1>4, <4>1, PutFacts
    <3>. QED  BY <1>1, <3>1, <3>2
  <2>2. nextId' \in [Sides -> Nat]
    BY <1>1, <1>0, <1>3 DEF TypeInv
  <2>. QED  BY <1>1, <1>2, <1>7, <1>8, <2>1, <2>2 DEF TypeInv
<1>10. Ways(way)'
  <2>1. x = Place(way, e)
    BY <1>3, <1>5 DEF Place
  <2>2. ASSUME NEW z \in Sides, NEW g \in Handles, sock'[z][g] # Closed
        PROVE  sock'[z][g][1] <= begun /\ z = Place(way, sock'[z][g])
    BY <1>3, <1>5, <1>7, <2>1, <2>2 DEF Ways
  <2>3. ASSUME NEW z \in Sides, NEW q \in Carried(z)'
        PROVE  /\ q.type = "request" => q.conn <= begun /\ way[q.conn] = z
               /\ q.type = "data" =>
                    q.chunk[1][1] <= begun /\ Other(z) = Place(way, q.chunk[1])
    BY <1>2 DEF Ways
  <2>. QED  BY <1>1, <2>2, <2>3 DEF Ways, Place
<1>11. Numbers'
  <2>1. nextId'[x] = i + 1 /\ \A z \in Sides : z # x => nextId'[z] = nextId[z]
    BY <1>0, <1>1 DEF TypeInv
  <2>2. \A z \in Sides : nextId'[z] \in 1 .. begun + 1
    BY <1>4, <2>1 DEF Numbers
  <2>3. ASSUME NEW z \in Sides, NEW q \in Carried(z)', q.type = "request"
        PROVE  nextId'[z] <= q.conn
    <3>1. CASE z = x
      <4>1. c < q.conn /\ q.conn \in Nat
        <5>1. q \in Packets
          BY <1>2, CarriedTypes
        <5>. QED  BY <1>2, <2>3, <3>1, <5>1, PacketFacts, NatFacts DEF Follows, c
      <4>. QED  BY <1>3, <2>1, <3>1, <4>1
    <3>2. CASE z # x
      BY <1>2, <2>1, <2>3, <3>2 DEF Numbers
    <3>. QED  BY <3>1, <3>2
  <2>4. \A z \in Sides : \A q \in Carried(z)' \cup Answers(z)' :
          q.type = "response" => q.id \in Conns
    BY <1>2, <1>4, <1>6, <1>8 DEF Numbers
  <2>5. \A z \in Sides : \A q \in Answers(z)' : q.type \in {"response", "refusal"}
    BY <1>6, <1>8 DEF Numbers
  <2>. QED  BY <1>1, <2>2, <2>3, <2>4, <2>5 DEF Numbers
<1>12. Pieces'
  BY <1>1, <1>2, SamePieces
<1>. QED  BY <1>2, <1>9, <1>10, <1>11, <1>12

(* Taking a packet that is not data, and answering it or not.              *)
LEMMA TakingSteady ==
  ASSUME NEW way \in [Conns -> Sides], Steady(way), NEW x \in Sides, NEW type,
         type # "data", Incoming(x, type), net' = [net EXCEPT ![x] = Tail(@)],
         UNCHANGED <<listening, nextFd, nextId, taken, sent, got, hungUp, begun>>,
         pending' \in [Sides -> PartialMaps],
         active' \in [Sides -> [Roles -> PartialMaps]],
         sock' \in [Sides -> [Handles -> Ends \cup {Closed}]],
         \A z \in Sides, h \in Handles : sock'[z][h] \in {sock[z][h], Closed},
         answering' \in [Sides -> Seq(Packets)],
         \A z \in Sides : \A p \in Answers(z)' : p \in Answers(z) \/ p.type = "refusal"
  PROVE  Steady(way)'
<1>. USE DEF Steady
<1>1. /\ net' \in [Sides -> Seq(Packets)] /\ Queues'
      /\ \A z \in Sides : Carried(z)' \subseteq Carried(z)
  BY Receiving
<1>2. TypeInv'
  BY <1>1 DEF TypeInv
<1>3. Ways(way)'
  BY <1>1, SameWays
<1>4. Numbers'
  <2>1. \A z \in Sides : \A p \in Carried(z) : p.type = "response" => p.id \in Conns
    BY DEF Numbers
  <2>. QED  BY <1>1, <2>1, SameNumbers
<1>5. Pieces'
  BY <1>1, SamePieces
<1>. QED  BY <1>1, <1>2, <1>3, <1>4, <1>5

LEMMA ConnectFailsSteady ==
  ASSUME NEW way \in [Conns -> Sides], Steady(way), NEW x \in Sides, ConnectFails(x)
  PROVE  Steady(way)'
<1>0. PICK r : r = [type |-> "refusal", fd |-> Head(net[x]).fd]
  OBVIOUS
<1>1. /\ Incoming(x, "request") /\ net' = [net EXCEPT ![x] = Tail(@)]
      /\ answering' = [answering EXCEPT ![x] = <<r>>]
      /\ UNCHANGED <<listening, sock, active, pending, nextFd, nextId, taken, sent,
                     got, hungUp, begun>>
  BY <1>0 DEF ConnectFails, tables
<1>2. r \in Packets /\ r.type = "refusal"
  <2>1. Head(net[x]) \in Packets /\ Head(net[x]).type = "request"
    BY <1>1, Receiving DEF Steady
  <2>2. Head(net[x]).fd \in Nat
    BY <2>1, PacketFacts
  <2>. QED  BY <1>0, <2>2, NewPackets
<1>3. /\ answering' \in [Sides -> Seq(Packets)]
      /\ \A z \in Sides : answering'[z] \in {answering[z], <<r>>}
  <2>1. <<r>> \in Seq(Packets) /\ answering \in [Sides -> Seq(Packets)]
    BY <1>2 DEF Steady, TypeInv
  <2>. QED  BY <1>1, <2>1
<1>4. \A z \in Sides : \A p \in Answers(z)' : p \in Answers(z) \/ p.type = "refusal"
  BY <1>2, <1>3, OneAnswer DEF Answers
<1>5. /\ pending' \in [Sides -> PartialMaps] /\ active' \in [Sides -> [Roles -> PartialMaps]]
      /\ sock' \in [Sides -> [Handles -> Ends \cup {Closed}]]
      /\ \A z \in Sides, h \in Handles : sock'[z][h] \in {sock[z][h], Closed}
  BY <1>1 DEF Steady, TypeInv
<1>. QED  BY <1>1, <1>3, <1>4, <1>5, TakingSteady

LEMMA HandleRefusalSteady ==
  ASSUME NEW way \in [Conns -> Sides], Steady(way), NEW x \in Sides, HandleRefusal(x)
  PROVE  Steady(way)'
<1>1. /\ Incoming(x, "refusal") /\ net' = [net EXCEPT ![x] = Tail(@)]
      /\ UNCHANGED <<listening, sock, active, pending, nextFd, nextId, answering, taken,
                     sent, got, hungUp, begun>>
  BY DEF HandleRefusal, tables, apps
<1>2. /\ pending' \in [Sides -> PartialMaps] /\ active' \in [Sides -> [Roles -> PartialMaps]]
      /\ sock' \in [Sides -> [Handles -> Ends \cup {Closed}]]
      /\ \A z \in Sides, h \in Handles : sock'[z][h] \in {sock[z][h], Closed}
      /\ answering' \in [Sides -> Seq(Packets)]
      /\ \A z \in Sides : Answers(z)' = Answers(z)
  BY <1>1 DEF Steady, TypeInv, Answers
<1>. QED  BY <1>1, <1>2, TakingSteady

LEMMA HandleResponseSteady ==
  ASSUME NEW way \in [Conns -> Sides], Steady(way), NEW x \in Sides, HandleResponse(x)
  PROVE  Steady(way)'
<1>0. PICK p : p = Head(net[x])
  OBVIOUS
<1>1. /\ Incoming(x, "response") /\ net' = [net EXCEPT ![x] = Tail(@)]
      /\ IF p.fd \in DOMAIN pending[x]
           THEN /\ active' = [active EXCEPT ![x]["source"] = Put(@, p.id, pending[x][p.fd])]
                /\ pending' = [pending EXCEPT ![x] = Drop(@, p.fd)]
           ELSE UNCHANGED <<active, pending>>
      /\ UNCHANGED <<listening, sock, nextFd, nextId, answering, taken, sent, got,
                     hungUp, begun>>
  BY <1>0 DEF HandleResponse, apps
<1>2. p.id \in Conns
  <2>1. p \in Carried(x) /\ p.type = "response"
    BY <1>0, <1>1, Receiving DEF Steady
  <2>. QED  BY <2>1 DEF Steady, Numbers
<1>3. pending' \in [Sides -> PartialMaps] /\ active' \in [Sides -> [Roles -> PartialMaps]]
  <2>1. /\ active \in [Sides -> [Roles -> PartialMaps]] /\ pending \in [Sides -> PartialMaps]
        /\ "source" \in Roles
    BY DEF Steady, TypeInv, Roles
  <2>2. CASE p.fd \in DOMAIN pending[x]
    <3>1. pending[x] \in PartialMaps /\ pending[x][p.fd] \in Handles
          /\ active[x]["source"] \in PartialMaps
      BY <2>1, <2>2, EntryTypes DEF Steady
    <3>2. /\ Put(active[x]["source"], p.id, pending[x][p.fd]) \in PartialMaps
          /\ Drop(pending[x], p.fd) \in PartialMaps
      BY <1>2, <3>1, PutFacts, DropFacts
    <3>. QED  BY <1>1, <2>1, <2>2, <3>2
  <2>3. CASE p.fd \notin DOMAIN pending[x]
    BY <1>1, <2>1, <2>3
  <2>. QED  BY <2>2, <2>3
<1>4. /\ sock' \in [Sides -> [Handles -> Ends \cup {Closed}]]
      /\ \A z \in Sides, h \in Handles : sock'[z][h] \in {sock[z][h], Closed}
      /\ answering' \in [Sides -> Seq(Packets)]
      /\ \A z \in Sides : Answers(z)' = Answers(z)
  BY <1>1 DEF Steady, TypeInv, Answers
<1>. QED  BY <1>1, <1>3, <1>4, TakingSteady

LEMMA HandleClosedSteady ==
  ASSUME NEW way \in [Conns -> Sides], Steady(way), NEW x \in Sides, HandleClosed(x)
  PROVE  Steady(way)'
<1>0. PICK i : i = Head(net[x]).id
  OBVIOUS
<1>1. PICK shut :
        sock' = [sock EXCEPT ![x] = [h \in Handles |-> IF h \in shut THEN Closed ELSE @[h]]]
  BY DEF HandleClosed
<1>2. /\ Incoming(x, "closed") /\ net' = [net EXCEPT ![x] = Tail(@)]
      /\ active' = [active EXCEPT ![x] = [r \in Roles |-> Drop(@[r], i)]]
      /\ UNCHANGED <<listening, pending, nextFd, nextId, answering, taken, sent, got,
                     hungUp, begun>>
  BY <1>0 DEF HandleClosed, apps
<1>3. active' \in [Sides -> [Roles -> PartialMaps]]
  <2>1. active \in [Sides -> [Roles -> PartialMaps]]
    BY DEF Steady, TypeInv
  <2>2. \A r \in Roles : Drop(active[x][r], i) \in PartialMaps
    <3>1. \A r \in Roles : active[x][r] \in PartialMaps
      BY <2>1
    <3>. QED  BY <3>1, DropFacts
  <2>. QED  BY <1>2, <2>1, <2>2
<1>4. /\ sock' \in [Sides -> [Handles -> Ends \cup {Closed}]]
      /\ \A z \in Sides, h \in Handles : sock'[z][h] \in {sock[z][h], Closed}
  <2>1. sock \in [Sides -> [Handles -> Ends \cup {Closed}]]
    BY DEF Steady, TypeInv
  <2>2. \A h \in Handles : sock'[x][h] = IF h \in shut THEN Closed ELSE sock[x][h]
    BY <1>1, <2>1
  <2>3. \A z \in Sides : z # x => sock'[z] = sock[z]
    BY <1>1, <2>1
  <2>4. sock' \in [Sides -> [Handles -> Ends \cup {Closed}]]
    BY <1>1, <2>1
  <2>. QED  BY <2>2, <2>3, <2>4
<1>5. /\ pending' \in [Sides -> PartialMaps] /\ answering' \in [Sides -> Seq(Packets)]
      /\ \A z \in Sides : Answers(z)' = Answers(z)
  BY <1>2 DEF Steady, TypeInv, Answers
<1>. QED  BY <1>2, <1>3, <1>4, <1>5, TakingSteady

LEMMA RespondSteady ==
  ASSUME NEW way \in [Conns -> Sides], Steady(way), NEW x \in Sides, Respond(x)
  PROVE  Steady(way)'
<1>0. PICK p : p = Head(answering[x])
  OBVIOUS
<1>1. /\ answering[x] # <<>> /\ Queue(x, p)
      /\ answering' = [answering EXCEPT ![x] = <<>>]
      /\ UNCHANGED <<listening, sock, active, pending, nextFd, nextId, taken, sent,
                     got, hungUp, begun>>
  BY <1>0 DEF Respond, tables, apps
<1>. USE DEF Steady
<1>2. p \in Packets /\ p \in Answers(x) /\ p.type \in {"response", "refusal"}
  <2>1. answering[x] \in Seq(Packets)
    BY DEF TypeInv
  <2>. QED  BY <1>0, <1>1, <2>1, ElementsTail DEF Answers, Numbers
<1>3. \A q \in Carried(Other(x)) : Follows(q, p)
  BY <1>2 DEF Follows
<1>4. /\ net' \in [Sides -> Seq(Packets)] /\ Queues'
      /\ Carried(Other(x))' = Carried(Other(x)) \cup {p} /\ Carried(x)' = Carried(x)
  BY <1>1, <1>2, <1>3, Sending
<1>5. \A z \in Sides : \A q \in Carried(z)' : q \in Carried(z) \/ q = p
  <2>1. \A z \in Sides : z = x \/ z = Other(x)
    BY OtherFacts
  <2>. QED  BY <1>4, <2>1
<1>6. /\ answering' \in [Sides -> Seq(Packets)]
      /\ \A z \in Sides : Answers(z)' \subseteq Answers(z)
  <2>1. <<>> \in Seq(Packets) /\ answering \in [Sides -> Seq(Packets)]
    BY DEF TypeInv
  <2>2. /\ answering' \in [Sides -> Seq(Packets)]
        /\ \A z \in Sides : answering'[z] \in {answering[z], <<>>}
    BY <1>1, <2>1
  <2>. QED  BY <2>2, OneAnswer DEF Answers
<1>7. TypeInv'
  BY <1>1, <1>4, <1>6 DEF TypeInv
<1>8. Ways(way)'
  <2>1. \A z \in Sides, h \in Handles : sock'[z][h] \in {sock[z][h], Closed}
    BY <1>1
  <2>2. \A z \in Sides : \A q \in Carried(z)' : q.type \in {"request", "data"} => q \in Carried(z)
    BY <1>2, <1>5
  <2>. QED  BY <1>1, <2>1, <2>2, SameWays
<1>9. Numbers'
  <2>1. \A z \in Sides : \A q \in Carried(z) \cup Answers(z) :
          q.type = "response" => q.id \in Conns
    BY DEF Numbers
  <2>2. \A z \in Sides : \A q \in Carried(z)' :
           /\ q.type = "request" => q \in Carried(z)
           /\ q.type = "response" => q.id \in Conns
    BY <1>2, <1>5, <2>1
  <2>. QED  BY <1>1, <1>6, <2>1, <2>2, SameNumbers
<1>10. Pieces'
  BY <1>1, <1>2, <1>5, SamePieces
<1>. QED  BY <1>4, <1>7, <1>8, <1>9, <1>10

(* What g says that the ends have received, when the piece ch is given to  *)
(* some of them: all that they had, and ch behind what is of its sender.   *)
Given(g, ch) ==
  /\ g \in [Ends -> Seq(Ends \X Nat)]
  /\ \A e \in Ends : \A k \in DOMAIN g[e] :
       g[e][k] = ch \/ \E l \in DOMAIN got[e] : g[e][k] = got[e][l]
  /\ \A e \in Ends : \A k \in DOMAIN g[e] : g[e][k][1] = ch[1] => g[e][k][2] <= ch[2]
  /\ \A e \in Ends : \A j, k \in DOMAIN g[e] :
       j < k /\ g[e][j][1] = g[e][k][1] => g[e][j][2] <= g[e][k][2]

LEMMA TakeGiven ==
  ASSUME NEW ch \in Ends \X Nat, NEW g, Given(g, ch), NEW x, NEW r, NEW p, p.chunk = ch
  PROVE  Given(Take(g, x, r, p), ch)
<1>. DEFINE t == Take(g, x, r, p)
<1>0. g \in [Ends -> Seq(Ends \X Nat)]
  BY DEF Given
<1>1. DOMAIN t = Ends /\ t = [e \in Ends |-> t[e]]
      /\ \A e \in Ends : t[e] = g[e] \/ t[e] = Append(g[e], ch)
  BY DEF Take
<1>. HIDE DEF t
<1>2. ASSUME NEW e \in Ends
      PROVE  /\ t[e] \in Seq(Ends \X Nat)
             /\ \/ t[e] = g[e]
                \/ /\ Len(g[e]) \in Nat /\ DOMAIN g[e] = 1..Len(g[e])
                   /\ DOMAIN t[e] = 1 .. Len(g[e]) + 1 /\ t[e][Len(g[e]) + 1] = ch
                   /\ \A k \in 1..Len(g[e]) : t[e][k] = g[e][k]
  <2>1. g[e] \in Seq(Ends \X Nat)
    BY <1>0
  <2>2. CASE t[e] = g[e]
    BY <2>1, <2>2
  <2>3. CASE t[e] = Append(g[e], ch)
    BY <2>1, <2>3, AppendProperties
  <2>. QED  BY <1>1, <2>2, <2>3
<1>3. t \in [Ends -> Seq(Ends \X Nat)]
  BY <1>1, <1>2
<1>4. ASSUME NEW e \in Ends, NEW k \in DOMAIN t[e]
      PROVE  t[e][k] = ch \/ (k \in DOMAIN g[e] /\ t[e][k] = g[e][k])
  <2>1. CASE t[e] = g[e]
    BY <2>1
  <2>2. CASE t[e] # g[e]
    <3>1. PICK n \in Nat :
            /\ DOMAIN g[e] = 1..n /\ DOMAIN t[e] = 1 .. n + 1 /\ t[e][n + 1] = ch
            /\ \A i \in 1..n : t[e][i] = g[e][i]
      BY <1>2, <2>2
    <3>2. k = n + 1 \/ k \in 1..n
      BY <1>4, <3>1
    <3>. QED  BY <3>1, <3>2
  <2>. QED  BY <2>1, <2>2
<1>5. \A e \in Ends : \A k \in DOMAIN t[e] : t[e][k][1] = ch[1] => t[e][k][2] <= ch[2]
  <2>1. ch[2] \in Nat /\ ch[2] <= ch[2]
    OBVIOUS
  <2>2. \A e \in Ends : \A k \in DOMAIN g[e] : g[e][k][1] = ch[1] => g[e][k][2] <= ch[2]
    BY DEF Given
  <2>3. ASSUME NEW e \in Ends, NEW k \in DOMAIN t[e], t[e][k][1] = ch[1]
        PROVE  t[e][k][2] <= ch[2]
    <3>1. t[e][k] = ch \/ (k \in DOMAIN g[e] /\ t[e][k] = g[e][k])
      BY <1>4
    <3>. QED  BY <2>1, <2>2, <2>3, <3>1
  <2>. QED  BY <2>3
<1>6. ASSUME NEW e \in Ends, NEW j \in DOMAIN t[e], NEW k \in DOMAIN t[e], j < k,
             t[e][j][1] = t[e][k][1]
      PROVE  t[e][j][2] <= t[e][k][2]
  <2>1. CASE t[e] = g[e]
    BY <1>6, <2>1 DEF Given
  <2>2. CASE t[e] # g[e] /\ k = Len(g[e]) + 1
    <3>1. t[e][k] = ch
      BY <1>2, <2>2
    <3>. QED  BY <1>5, <1>6, <3>1
  <2>3. CASE t[e] # g[e] /\ k # Len(g[e]) + 1
    <3>1. /\ Len(g[e]) \in Nat /\ DOMAIN g[e] = 1..Len(g[e])
          /\ DOMAIN t[e] = 1 .. Len(g[e]) + 1
          /\ \A i \in 1..Len(g[e]) : t[e][i] = g[e][i]
      BY <1>2, <2>3
    <3>2. j \in DOMAIN g[e] /\ k \in DOMAIN g[e] /\ t[e][j] = g[e][j] /\ t[e][k] = g[e][k]
      BY <1>6, <2>3, <3>1
    <3>. QED  BY <1>6, <3>2 DEF Given
  <2>. QED  BY <2>1, <2>2, <2>3
<1>7. \A e \in Ends : \A k \in DOMAIN t[e] :
        t[e][k] = ch \/ \E l \in DOMAIN got[e] : t[e][k] = got[e][l]
  <2>1. \A e \in Ends : \A k \in DOMAIN g[e] :
          g[e][k] = ch \/ \E l \in DOMAIN got[e] : g[e][k] = got[e][l]
    BY DEF Given
  <2>. QED  BY <1>4, <2>1
<1>. QED  BY <1>3, <1>5, <1>6, <1>7 DEF Given, t

LEMMA HandleDataSteady ==
  ASSUME NEW way \in [Conns -> Sides], Steady(way), NEW x \in Sides, HandleData(x)
  PROVE  Steady(way)'
<1>0. PICK p, ch : p = Head(net[x]) /\ ch = p.chunk
  OBVIOUS
<1>1. /\ Incoming(x, "data") /\ net' = [net EXCEPT ![x] = Tail(@)]
      /\ got' = Take(Take(got, x, "target", p), x, "source", p)
      /\ UNCHANGED <<listening, sock, active, pending, nextFd, nextId, answering, taken,
                     sent, hungUp, begun>>
  BY <1>0 DEF HandleData, tables
<1>. USE DEF Steady
<1>2. /\ net' \in [Sides -> Seq(Packets)] /\ Queues'
      /\ p \in Packets /\ p \in Carried(x) /\ p.type = "data"
      /\ Carried(x) = Carried(x)' \cup {p}
      /\ \A q \in Carried(x)' : Follows(p, q)
      /\ \A z \in Sides : Carried(z)' \subseteq Carried(z)
  BY <1>0, <1>1, Receiving
<1>3. /\ ch \in Ends \X Nat /\ ch[1] \in Ends /\ ch[2] \in Nat
      /\ ch[2] \in 1 .. taken[ch[1]]
  BY <1>0, <1>2, PacketFacts DEF Pieces
<1>4. \A e \in Ends : \A k \in DOMAIN got[e] :
        /\ got[e][k] \in Ends \X Nat
        /\ got[e][k][1] \in Ends /\ got[e][k][2] \in Nat
        /\ got[e][k][2] \in 1 .. taken[got[e][k][1]]
  <2>1. \A e \in Ends : \A k \in DOMAIN got[e] : got[e][k] \in Ends \X Nat
    BY ElementOfSeq DEF TypeInv
  <2>. QED  BY <2>1 DEF Pieces
<1>5. Given(got, ch)
  <2>1. got \in [Ends -> Seq(Ends \X Nat)]
    BY DEF TypeInv
  <2>2. ASSUME NEW e \in Ends, NEW k \in DOMAIN got[e], got[e][k][1] = ch[1]
        PROVE  got[e][k][2] <= ch[2]
    <3>1. got[e][k][2] < ch[2]
      BY <1>0, <1>2, <2>2 DEF Pieces
    <3>. QED  BY <1>3, <1>4, <3>1
  <2>. QED  BY <2>1, <2>2 DEF Given, Pieces
<1>6. Given(got', ch)
  <2>1. Given(Take(got, x, "target", p), ch)
    BY <1>0, <1>3, <1>5, TakeGiven
  <2>2. Given(Take(Take(got, x, "target", p), x, "source", p), ch)
    BY <1>0, <1>3, <2>1, TakeGiven
  <2>. QED  BY <1>1, <2>2
<1>7. TypeInv'
  BY <1>1, <1>2, <1>6 DEF TypeInv, Given
<1>8. Ways(way)'
  BY <1>1, <1>2, SameWays
<1>9. Numbers'
  <2>1. \A z \in Sides : \A q \in Carried(z) : q.type = "response" => q.id \in Conns
    BY DEF Numbers
  <2>2. \A z \in Sides : Answers(z)' = Answers(z)
    BY <1>1 DEF Answers
  <2>. QED  BY <1>1, <1>2, <2>1, <2>2, SameNumbers
<1>10. Pieces'
  <2>1. ASSUME NEW z \in Sides, NEW q \in Carried(z)', q.type = "data",
               NEW e \in Ends, NEW k \in DOMAIN got'[e], got'[e][k][1] = q.chunk[1]
        PROVE  got'[e][k][2] < q.chunk[2]
    <3>1. CASE got'[e][k] = ch
      <4>1. q \in Carried(z) /\ q.chunk[1] = ch[1]
        BY <1>2, <2>1, <3>1
      <4>2. Other(z) = Place(way, ch[1]) /\ Other(x) = Place(way, ch[1])
        BY <1>0, <1>2, <2>1, <4>1 DEF Ways
      <4>3. z = x
        BY <4>2 DEF Other, Sides
      <4>. QED  BY <1>0, <1>2, <2>1, <3>1, <4>1, <4>3 DEF Follows
    <3>2. CASE \E l \in DOMAIN got[e] : got'[e][k] = got[e][l]
      <4>1. PICK l \in DOMAIN got[e] : got'[e][k] = got[e][l]
        BY <3>2
      <4>2. q \in Carried(z)
        BY <1>2, <2>1
      <4>. QED  BY <2>1, <4>1, <4>2 DEF Pieces
    <3>. QED  BY <1>6, <3>1, <3>2 DEF Given
  <2>2. ASSUME NEW e \in Ends, NEW k \in DOMAIN got'[e]
        PROVE  got'[e][k][2] \in 1 .. taken[got'[e][k][1]]
    <3>1. got'[e][k] = ch \/ \E l \in DOMAIN got[e] : got'[e][k] = got[e][l]
      BY <1>6 DEF Given
    <3>. QED  BY <1>3, <1>4, <3>1
  <2>3. \A z \in Sides : \A q \in Carried(z)' : q.type = "data" =>
          q.chunk[2] \in 1 .. taken[q.chunk[1]]
    BY <1>2 DEF Pieces
  <2>4. \A e \in Ends : \A j, k \in DOMAIN got'[e] :
          j < k /\ got'[e][j][1] = got'[e][k][1] => got'[e][j][2] <= got'[e][k][2]
    BY <1>6 DEF Given
  <2>5. \A e \in Ends : taken'[e] <= sent'[e]
    BY <1>1 DEF Pieces
  <2>. QED  BY <1>1, <2>1, <2>2, <2>3, <2>4, <2>5 DEF Pieces
<1>. QED  BY <1>2, <1>7, <1>8, <1>9, <1>10

(* An application acts, or nothing happens.                                *)
LEMMA AppSteady ==
  ASSUME NEW way \in [Conns -> Sides], Steady(way),
         (\E e \in Ends : AppSends(e) \/ AppHangsUp(e)) \/ UNCHANGED vars
  PROVE  Steady(way)'
<1>1. /\ UNCHANGED <<listening, sock, active, pending, nextFd, nextId, answering, net,
                     taken, got, begun>>
      /\ hungUp' = hungUp \/ \E e \in Ends : hungUp' = hungUp \cup {e}
      /\ sent' = sent \/ \E e \in Ends : sent' = [sent EXCEPT ![e] = @ + 1]
  BY DEF AppSends, AppHangsUp, vars, tables, apps
<1>. USE DEF Steady
<1>2. sent' \in [Ends -> Nat] /\ \A e \in Ends : sent[e] <= sent'[e]
  <2>1. sent \in [Ends -> Nat]
    BY DEF TypeInv
  <2>2. CASE sent' = sent
    BY <2>1, <2>2
  <2>3. ASSUME NEW f \in Ends, sent' = [sent EXCEPT ![f] = @ + 1]
        PROVE  sent' \in [Ends -> Nat] /\ \A e \in Ends : sent[e] <= sent'[e]
    BY <2>1, <2>3
  <2>. QED  BY <1>1, <2>2, <2>3
<1>3. TypeInv'
  BY <1>1, <1>2 DEF TypeInv
<1>4. \A z \in Sides : Carried(z)' = Carried(z) /\ Answers(z)' = Answers(z)
  BY <1>1 DEF Carried, Answers
<1>5. Ways(way)' /\ Queues'
  BY <1>1, <1>4 DEF Ways, Place, Queues
<1>6. Numbers'
  BY <1>1, <1>4 DEF Numbers
<1>7. Pieces'
  <2>1. \A e \in Ends : taken[e] \in Nat /\ sent[e] \in Nat /\ sent'[e] \in Nat
    BY <1>2 DEF TypeInv
  <2>2. \A e \in Ends : taken'[e] <= sent'[e]
    BY <1>1, <1>2, <2>1 DEF Pieces
  <2>. QED  BY <1>1, <1>4, <2>2 DEF Pieces
<1>. QED  BY <1>3, <1>5, <1>6, <1>7

LEMMA InitSteady ==
  ASSUME Init
  PROVE  OInv
<1>1. PICK way : way = [c \in Conns |-> "server"]
  OBVIOUS
<1>2. way \in [Conns -> Sides]
  BY <1>1 DEF Sides
<1>3. /\ DOMAIN Empty = {} /\ Empty \in PartialMaps
  <2>1. DOMAIN Empty = {} /\ Empty \in [DOMAIN Empty -> Handles]
    BY DEF Empty
  <2>. QED  BY <2>1, MapFacts
<1>4. TypeInv
  BY <1>3, ConnsAssumption DEF Init, TypeInv
<1>5. \A z \in Sides : Carried(z) = {} /\ Answers(z) = {}
  BY OneAnswer DEF Init, Carried, Answers
<1>6. \A e \in Ends : DOMAIN got[e] = {}
  BY EmptySeq DEF Init
<1>7. Ways(way) /\ Numbers
  BY <1>5 DEF Init, Ways, Numbers
<1>8. Queues
  BY EmptySeq DEF Init, Queues, Sequenced
<1>9. Pieces
  BY <1>5, <1>6 DEF Init, Pieces
<1>. QED  BY <1>2, <1>4, <1>7, <1>8, <1>9 DEF OInv, Steady

LEMMA StepSteady ==
  ASSUME OInv, [Next]_vars
  PROVE  OInv'
<1>1. PICK way \in [Conns -> Sides] : Steady(way)
  BY DEF OInv
<1>2. CASE \E x \in Sides, h \in Handles : Accept(x, h)
  BY <1>1, <1>2, AcceptSteady
<1>3. CASE \/ \E x \in Sides, r \in Roles, i \in Conns : ForwardData(x, r, i)
           \/ \E x \in Sides, r \in Roles, i \in Conns : ForwardClose(x, r, i)
           \/ \E x \in Sides, h \in Handles : Connect(x, h)
  <2>1. Steady(way)'
    BY <1>1, <1>3, ForwardDataSteady, ForwardCloseSteady, ConnectSteady
  <2>. QED  BY <2>1 DEF OInv
<1>4. CASE \E x \in Sides :
             \/ ConnectFails(x) \/ Respond(x) \/ HandleResponse(x)
             \/ HandleRefusal(x) \/ HandleData(x) \/ HandleClosed(x)
  <2>1. Steady(way)'
    BY <1>1, <1>4, ConnectFailsSteady, RespondSteady, HandleResponseSteady,
       HandleRefusalSteady, HandleDataSteady, HandleClosedSteady
  <2>. QED  BY <2>1 DEF OInv
<1>5. CASE (\E e \in Ends : AppSends(e) \/ AppHangsUp(e)) \/ UNCHANGED vars
  <2>1. Steady(way)'
    BY <1>1, <1>5, AppSteady
  <2>. QED  BY <2>1 DEF OInv
<1>. QED  BY <1>2, <1>3, <1>4, <1>5 DEF Next

(* In every session, whatever the kinds of its tunnels, whoever speaks     *)
(* first and whatever handles are reused: what an application receives of  *)
(* one sender has been sent and is in the order of sending, even where it  *)
(* is another connection's and should not have come here.                  *)
THEOREM InOrder == Spec => []InOrderFromEach
<1>1. Init => OInv
  BY InitSteady
<1>2. OInv /\ [Next]_vars => OInv'
  BY StepSteady
<1>3. OInv => InOrderFromEach
  <2>. SUFFICES ASSUME OInv  PROVE InOrderFromEach
    OBVIOUS
  <2>1. TypeInv /\ Pieces
    BY DEF OInv, Steady
  <2>2. ASSUME NEW e \in Ends, NEW k \in DOMAIN got[e]
        PROVE  got[e][k][2] \in 1 .. sent[got[e][k][1]]
    <3>1. got[e][k] \in Ends \X Nat
      BY <2>1, <2>2, ElementOfSeq DEF TypeInv
    <3>2. PICK f \in Ends : f = got[e][k][1]
      BY <3>1
    <3>3. taken[f] \in Nat /\ sent[f] \in Nat /\ taken[f] <= sent[f]
      BY <2>1 DEF TypeInv, Pieces
    <3>4. got[e][k][2] \in 1 .. taken[f]
      BY <2>1, <3>2 DEF Pieces
    <3>. QED  BY <3>2, <3>3, <3>4
  <2>. QED  BY <2>1, <2>2 DEF Pieces, InOrderFromEach
<1>. QED  BY <1>1, <1>2, <1>3, PTL DEF Spec

(* In every session the maps stay within the connections that have been    *)
(* made: no number of a client or of a socket is ever beyond them.         *)
THEOREM TypeCorrect == Spec => []TypeInv
<1>1. Init => OInv
  BY InitSteady
<1>2. OInv /\ [Next]_vars => OInv'
  BY StepSteady
<1>3. OInv => TypeInv
  BY DEF OInv, Steady
<1>. QED  BY <1>1, <1>2, <1>3, PTL DEF Spec
=============================================================================
