------------------------- MODULE SshBootstrapProofs -------------------------
(***************************************************************************)
(* SshBootstrap leaves no ssh process and no handle behind, and TypeOK.    *)
(***************************************************************************)
EXTENDS SshBootstrap, SequenceTheorems, TLAPS

(* Where the client stands says which handles it has, on which path soever *)
(* it came there; and it has handles of every ssh that runs, so that it    *)
(* can still end it.                                                       *)
HandlesInv ==
  /\ main = "proxy" => jump
  /\ handles["target"] = IF main \in {"read", "terminate"} THEN Kept ELSE {}
  /\ handles["jumphost"] =
       IF jump /\ main \in {"tunnels", "connect", "session"} THEN Kept ELSE {}
  /\ \A k \in Links : ssh[k] = "live" => handles[k] # {}

IInv == TypeOK /\ HandlesInv

LEMMA LinksAre == Links = {"target", "jumphost"}
  BY DEF Links

LEMMA InitInv == Init => IInv
<1>. SUFFICES ASSUME Init  PROVE IInv
  OBVIOUS
<1>1. lines \in Seq({"id"} \cup Texts)
  BY EmptySeq DEF Init, AtRest
<1>2. ssh \in [Links -> {"none", "live", "ended"}]
  BY DEF Init, AtRest
<1>3. handles \in [Links -> SUBSET (Kept \cup {"childStdout"})]
  BY DEF Init, AtRest
<1>4. term \in [Links -> {"none", "started", "printed", "connected", "gone"}]
  BY DEF Init, AtRest
<1>5. TypeOK
  BY <1>1, <1>2, <1>3, <1>4 DEF Init, CommandLine, AtRest, TypeOK
<1>6. HandlesInv
  BY LinksAre DEF Init, CommandLine, AtRest, HandlesInv
<1>. QED  BY <1>5, <1>6 DEF IInv

-----------------------------------------------------------------------------
(* What the client does with ssh.                                          *)

LEMMA ExitInv ==
  ASSUME IInv, Exit, UNCHANGED <<options, lines, warned, remote>>, reply' = reply
  PROVE  IInv'
<1>. USE LinksAre DEF IInv, Exit, options, remote
<1>1. ssh' \in [Links -> {"none", "live", "ended"}] /\ \A k \in Links : ssh'[k] # "live"
  BY DEF TypeOK, Ended
<1>2. handles' \in [Links -> SUBSET (Kept \cup {"childStdout"})]
  OBVIOUS
<1>3. TypeOK'
  BY <1>1, <1>2 DEF TypeOK
<1>4. HandlesInv'
  BY <1>1 DEF HandlesInv
<1>. QED  BY <1>3, <1>4

(* A step of the client that starts and ends no ssh.                       *)
LEMMA GoesOnInv ==
  ASSUME IInv, UNCHANGED <<options, handles, ssh, warned, remote>>,
         <<main, main'>> \in
           {<<"options", "start">>, <<"read", "terminate">>, <<"tunnels", "connect">>,
            <<"connect", "session">>}
           \cup {<<"parse", IF jump THEN "proxy" ELSE "tunnels">>},
         reply' \in {reply, "seed", "id"} \cup Texts, lines' \in Seq({"id"} \cup Texts)
  PROVE  IInv'
<1>. USE DEF IInv, options, remote
<1>1. TypeOK'
  BY DEF TypeOK
<1>2. HandlesInv'
  BY DEF HandlesInv
<1>. QED  BY <1>1, <1>2

LEMMA StartInv ==
  ASSUME IInv, NEW k \in Links, NEW next,
         <<main, k, next>> \in {<<"start", "target", "read">>,
                                <<"proxy", "jumphost", "tunnels">>},
         Start(k, next), UNCHANGED <<options, reply, lines, warned, remote>>
  PROVE  IInv'
<1>1. CASE Exit
  BY <1>1, ExitInv
<1>2. CASE Succeed(k) /\ main' = next
  <2>. USE LinksAre DEF IInv, options, remote
  <2>1. /\ ssh' = [ssh EXCEPT ![k] = "live"] /\ handles' = [handles EXCEPT ![k] = Kept]
        /\ main' = next
    BY <1>2 DEF Succeed
  <2>2. TypeOK'
    BY <2>1 DEF TypeOK
  <2>3. HandlesInv'
    BY <2>1 DEF HandlesInv, TypeOK, Kept
  <2>. QED  BY <2>2, <2>3
<1>. QED  BY <1>1, <1>2 DEF Start

LEMMA MainStepInv ==
  ASSUME IInv, MainStep \/ LeaveSession
  PROVE  IInv'
<1>1. CASE ReadOptions
  <2>1. CASE Exit
    BY <1>1, <2>1, ExitInv DEF ReadOptions
  <2>2. CASE main' = "start" /\ UNCHANGED <<handles, ssh>>
    BY <1>1, <2>2, GoesOnInv DEF ReadOptions, IInv, TypeOK
  <2>. QED  BY <1>1, <2>1, <2>2 DEF ReadOptions
<1>2. CASE StartSsh
  <2>1. /\ Start("target", "read") /\ "target" \in Links
        /\ <<main, "target", "read">> \in {<<"start", "target", "read">>,
                                           <<"proxy", "jumphost", "tunnels">>}
    BY <1>2, LinksAre DEF StartSsh
  <2>2. UNCHANGED <<options, reply, lines, warned, remote>>
    BY <1>2 DEF StartSsh
  <2>. QED  BY <2>1, <2>2, StartInv
<1>3. CASE ReadLine
  <2>1. lines' \in Seq({"id"} \cup Texts) /\ reply' \in {"seed", "id"} \cup Texts
    BY <1>3, HeadTailProperties DEF ReadLine, IInv, TypeOK
  <2>. QED  BY <1>3, <2>1, GoesOnInv DEF ReadLine
<1>4. CASE TerminateSsh
  <2>1. /\ main = "terminate" /\ main' = "parse"
        /\ ssh' = [ssh EXCEPT !["target"] = Ended("target")]
        /\ handles' = [handles EXCEPT !["target"] = {}]
        /\ UNCHANGED <<options, reply, lines, warned, remote>>
    BY <1>4 DEF TerminateSsh, Terminate
  <2>. USE LinksAre DEF IInv, options, remote, Ended
  <2>2. TypeOK'
    BY <2>1 DEF TypeOK
  <2>3. HandlesInv'
    BY <2>1 DEF HandlesInv, TypeOK
  <2>. QED  BY <2>2, <2>3
<1>5. CASE ParseReply
  <2>1. CASE reply = "text"
    BY <1>5, <2>1, ExitInv DEF ParseReply
  <2>2. CASE reply # "text"
    BY <1>5, <2>2, GoesOnInv DEF ParseReply, IInv, TypeOK
  <2>. QED  BY <2>1, <2>2
<1>6. CASE StartJump
  BY <1>6, StartInv, LinksAre DEF StartJump
<1>7. CASE ParseTunnels
  <2>1. CASE Exit
    BY <1>7, <2>1, ExitInv DEF ParseTunnels
  <2>2. CASE main' = "connect" /\ UNCHANGED <<handles, ssh>>
    BY <1>7, <2>2, GoesOnInv DEF ParseTunnels, IInv, TypeOK
  <2>. QED  BY <1>7, <2>1, <2>2 DEF ParseTunnels
<1>8. CASE Connect
  <2>1. CASE Exit
    BY <1>8, <2>1, ExitInv DEF Connect
  <2>2. CASE Known /\ main' = "session" /\ UNCHANGED <<handles, ssh>>
    BY <1>8, <2>2, GoesOnInv DEF Connect, IInv, TypeOK
  <2>. QED  BY <1>8, <2>1, <2>2 DEF Connect
<1>9. CASE LeaveSession
  BY <1>9, ExitInv DEF LeaveSession
<1>. QED
  BY <1>1, <1>2, <1>3, <1>4, <1>5, <1>6, <1>7, <1>8, <1>9 DEF MainStep

-----------------------------------------------------------------------------
(* What ssh, sshd and the terminals do: at most, an ssh ends.              *)
LEMMA OthersInv ==
  ASSUME IInv, UNCHANGED <<options, client>>,
         lines' = lines \/ (\E t \in {"id"} \cup Texts : lines' = Append(lines, t)),
         warned' \in BOOLEAN, registered' \subseteq Links,
         term' \in [Links -> {"none", "started", "printed", "connected", "gone"}],
         ssh' = ssh \/ (\E k \in Links : ssh' = [ssh EXCEPT ![k] = "ended"])
  PROVE  IInv'
<1>. USE DEF IInv, options, client
<1>1. lines' \in Seq({"id"} \cup Texts)
  BY AppendProperties DEF TypeOK
<1>2. /\ ssh' \in [Links -> {"none", "live", "ended"}]
      /\ \A k \in Links : ssh'[k] = "live" => ssh[k] = "live"
  BY DEF TypeOK
<1>3. TypeOK'
  BY <1>1, <1>2 DEF TypeOK
<1>4. HandlesInv'
  BY <1>2 DEF HandlesInv
<1>. QED  BY <1>3, <1>4

LEMMA StepInv == IInv /\ [Next]_vars => IInv'
<1>. SUFFICES ASSUME IInv, [Next]_vars  PROVE IInv'
  OBVIOUS
<1>. USE DEF remote
<1>1. CASE MainStep \/ LeaveSession
  BY <1>1, MainStepInv
<1>2. CASE Warn
  BY <1>2, OthersInv DEF Warn, IInv, TypeOK
<1>3. ASSUME NEW k \in Links, RunCommand(k) \/ SshdEnds(k)  PROVE IInv'
  <2>1. term' \in [Links -> {"none", "started", "printed", "connected", "gone"}]
    BY <1>3 DEF RunCommand, SshdEnds, IInv, TypeOK
  <2>. QED  BY <1>3, <2>1, OthersInv DEF RunCommand, SshdEnds, IInv, TypeOK
<1>4. ASSUME NEW k \in Links, SshEnds(k)  PROVE IInv'
  BY <1>4, OthersInv DEF SshEnds, IInv, TypeOK
<1>5. ASSUME NEW k \in Links, PrintId(k) \/ ConnectPipe(k)  PROVE IInv'
  <2>1. term' \in [Links -> {"none", "started", "printed", "connected", "gone"}]
    BY <1>5 DEF PrintId, ConnectPipe, IInv, TypeOK
  <2>2. lines' = lines \/ \E t \in {"id"} \cup Texts : lines' = Append(lines, t)
    BY <1>5 DEF PrintId, ConnectPipe, Says, Texts
  <2>. QED  BY <1>5, <2>1, <2>2, OthersInv DEF PrintId, ConnectPipe, IInv, TypeOK
<1>6. ASSUME NEW k \in Links, Register(k)  PROVE IInv'
  BY <1>6, OthersInv DEF Register, IInv, TypeOK
<1>7. CASE UNCHANGED vars
  BY <1>7 DEF vars, options, client, IInv, TypeOK, HandlesInv
<1>. QED
  BY <1>1, <1>2, <1>3, <1>4, <1>5, <1>6, <1>7 DEF Next, TerminalStep

THEOREM Invariance == Spec => []IInv
  BY InitInv, StepInv, PTL DEF Spec

(* Every variable of the bootstrap keeps its type.                         *)
THEOREM TypeInvariance == Spec => []TypeOK
<1>1. IInv => TypeOK
  BY DEF IInv
<1>. QED  BY <1>1, Invariance, PTL

(* Whatever ssh, the remote shell and the terminals do, and wherever main  *)
(* returns, no ssh and no handle stays behind but the jumphost's.          *)
THEOREM NoSshIsLeft == Spec => []OnlyTheProxyIsKept
<1>1. IInv => OnlyTheProxyIsKept
  BY LinksAre DEF IInv, HandlesInv, OnlyTheProxyIsKept
<1>. QED  BY <1>1, Invariance, PTL
=============================================================================
