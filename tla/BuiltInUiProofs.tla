--------------------------- MODULE BuiltInUiProofs ---------------------------
(***************************************************************************)
(* For any number of profiles and children: IInv is an invariant of        *)
(* BuiltInUi, and with it that a live client is listed.                    *)
(***************************************************************************)
EXTENDS BuiltInUi, TLAPS

(* No handle is kept, and no child is live, before the first command. *)
LEMMA Initially ==
  ASSUME MarksDiffer
  PROVE  Init => IInv
  BY DEF MarksDiffer, Init, AtRest, IInv, TypeOK, HandlesAreOwn,
     LiveIsTracked, Tracked, Known

(* Terminate ends the child, or has failed to kill it, or does nothing to  *)
(* one that has exited.                                                    *)
LEMMA Terminated ==
  ASSUME NEW n \in Names, IInv, Tracked(n), Terminate(running[n]),
         running' = [running EXCEPT ![n] = NoChild],
         UNCHANGED <<profiles, owner, ui>>,
         ui \in {"prompt", "ending"}
  PROVE  IInv'
<1>1. running[n] \in Children /\ owner[running[n]] = n
  BY DEF IInv, TypeOK, HandlesAreOwn, Tracked
<1>2. /\ state' \in [Children -> {"new", "live", "exited"}]
      /\ unkilled' \subseteq Children
      /\ unkilled \subseteq unkilled'
      /\ \A c \in Children :
           /\ state[c] # "new" => state'[c] # "new"
           /\ state'[c] = "live" => state[c] = "live"
      /\ state'[running[n]] = "live" => running[n] \in unkilled'
  BY <1>1 DEF Terminate, IInv, TypeOK
<1>3. TypeOK'
  BY <1>2 DEF IInv, TypeOK
<1>4. HandlesAreOwn'
  <2> SUFFICES ASSUME NEW m \in Names, Tracked(m)'
               PROVE  /\ state'[running'[m]] # "new" /\ owner'[running'[m]] = m
                      /\ ui' # "broken" => Known(m)'
    BY DEF HandlesAreOwn
  <2>1. m # n /\ running'[m] = running[m] /\ Tracked(m)
    BY DEF Tracked, IInv, TypeOK
  <2>2. running[m] \in Children
    BY <2>1 DEF Tracked, IInv, TypeOK
  <2> QED BY <1>2, <2>1, <2>2 DEF IInv, HandlesAreOwn, Known
<1>5. LiveIsTracked'
  <2> SUFFICES ASSUME NEW c \in Children, state'[c] = "live", c \notin unkilled'
               PROVE  running'[owner'[c]] = c
    BY DEF LiveIsTracked
  <2>1. state[c] = "live" /\ c \notin unkilled /\ c # running[n]
    BY <1>2
  <2>2. running[owner[c]] = c /\ owner[c] \in Names
    BY <2>1 DEF IInv, TypeOK, LiveIsTracked
  <2> QED BY <2>1, <2>2 DEF IInv, TypeOK
<1> QED BY <1>3, <1>4, <1>5 DEF IInv

(* Every command, every end of a child and every way out keeps it. *)
LEMMA Steps ==
  ASSUME MarksDiffer
  PROVE  IInv /\ [Next]_vars => IInv'
<1> SUFFICES ASSUME IInv, [Next]_vars PROVE IInv'
  OBVIOUS
<1> USE DEF MarksDiffer
<1>1. ASSUME NEW n \in Names, NEW s \in Settings, Add(n, s) \/ Change(n, s)
      PROVE  IInv'
  <2>1. /\ ui = "prompt" /\ profiles' = [profiles EXCEPT ![n] = s]
        /\ UNCHANGED <<running, state, owner, unkilled, ui>>
    BY <1>1 DEF Add, Change, children
  <2>2. \A m \in Names : Known(m) => Known(m)'
    BY <2>1 DEF Known, IInv, TypeOK
  <2>3. HandlesAreOwn'
    BY <2>1, <2>2 DEF IInv, HandlesAreOwn, Tracked
  <2> QED BY <2>1, <2>3 DEF IInv, TypeOK, LiveIsTracked, Tracked
<1>2. ASSUME NEW n \in Names, NEW c \in Children, Start(n, c)
      PROVE  IInv'
  <2>1. /\ ui = "prompt" /\ Known(n) /\ ~Tracked(n)
        /\ state[c] = "new" /\ owner[c] = n
        /\ state' = [state EXCEPT ![c] = "live"]
        /\ running' = [running EXCEPT ![n] = c]
        /\ UNCHANGED <<profiles, owner, unkilled, ui>>
    BY <1>2 DEF Start, StartUiSessionProcess
  <2>2. TypeOK'
    BY <2>1 DEF IInv, TypeOK
  <2>3. HandlesAreOwn'
    <3> SUFFICES ASSUME NEW m \in Names, Tracked(m)'
                 PROVE  /\ state'[running'[m]] # "new"
                        /\ owner'[running'[m]] = m
                        /\ ui' # "broken" => Known(m)'
      BY DEF HandlesAreOwn
    <3>1. CASE m = n
      BY <2>1, <3>1 DEF Known, IInv, TypeOK
    <3>2. CASE m # n
      <4>1. running'[m] = running[m] /\ Tracked(m) /\ running[m] \in Children
        BY <2>1, <3>2 DEF Tracked, IInv, TypeOK
      <4>2. running[m] # c
        BY <2>1, <4>1 DEF IInv, HandlesAreOwn
      <4> QED BY <2>1, <4>1, <4>2 DEF IInv, TypeOK, HandlesAreOwn, Known
    <3> QED BY <3>1, <3>2
  <2>4. LiveIsTracked'
    <3> SUFFICES ASSUME NEW d \in Children, state'[d] = "live", d \notin unkilled'
                 PROVE  running'[owner'[d]] = d
      BY DEF LiveIsTracked
    <3>1. CASE d = c
      BY <2>1, <3>1 DEF IInv, TypeOK
    <3>2. CASE d # c
      <4>1. running[owner[d]] = d /\ owner[d] \in Names
        BY <2>1, <3>2 DEF IInv, TypeOK, LiveIsTracked
      <4>2. owner[d] # n
        BY <2>1, <4>1 DEF Tracked
      <4> QED BY <2>1, <4>1, <4>2 DEF IInv, TypeOK
    <3> QED BY <3>1, <3>2
  <2> QED BY <2>1, <2>2, <2>3, <2>4 DEF IInv
<1>3. ASSUME NEW n \in Names, Stop(n) \/ EndOne(n)
      PROVE  IInv'
  BY <1>3, Terminated DEF Stop, EndOne
<1>4. ASSUME NEW n \in Names, Remove(n)
      PROVE  IInv'
  <2>1. /\ ui = "prompt" /\ ~Tracked(n)
        /\ profiles' = [profiles EXCEPT ![n] = NoProfile]
        /\ UNCHANGED <<running, state, owner, unkilled, ui>>
    BY <1>4 DEF Remove, children
  <2>2. \A m \in Names : m # n /\ Known(m) => Known(m)'
    BY <2>1 DEF Known, IInv, TypeOK
  <2>3. HandlesAreOwn'
    BY <2>1, <2>2 DEF IInv, HandlesAreOwn, Tracked
  <2> QED BY <2>1, <2>3 DEF IInv, TypeOK, LiveIsTracked, Tracked
<1>5. ASSUME NEW c \in Children, ChildExits(c)
      PROVE  IInv'
  <2>1. /\ state[c] = "live" /\ state' = [state EXCEPT ![c] = "exited"]
        /\ UNCHANGED <<profiles, running, owner, unkilled, ui>>
    BY <1>5 DEF ChildExits
  <2>2. \A d \in Children : /\ state[d] # "new" => state'[d] # "new"
                            /\ state'[d] = "live" => state[d] = "live"
    BY <2>1 DEF IInv, TypeOK
  <2>3. HandlesAreOwn'
    BY <2>1, <2>2 DEF IInv, TypeOK, HandlesAreOwn, Tracked, Known
  <2> QED BY <2>1, <2>2, <2>3 DEF IInv, TypeOK, LiveIsTracked, Tracked
<1>6. ASSUME Quit \/ Return \/ BreakOff
      PROVE  IInv'
  BY <1>6 DEF Quit, Return, BreakOff, children, IInv, TypeOK, HandlesAreOwn,
     LiveIsTracked, Tracked, Known
<1>7. CASE UNCHANGED vars
  BY <1>7 DEF vars, children, IInv, TypeOK, HandlesAreOwn,
     LiveIsTracked, Tracked, Known
<1> QED BY <1>1, <1>2, <1>3, <1>4, <1>5, <1>6, <1>7 DEF Next

(* IInv holds in every state, for any profiles and children. *)
THEOREM Invariance ==
  ASSUME MarksDiffer
  PROVE  Spec => []IInv
  BY Initially, Steps, PTL DEF Spec

(* What `list` and `stop` rest on: a live client that may be killed is the *)
(* one that is kept under its name, and the name has a profile.            *)
THEOREM Listed ==
  ASSUME MarksDiffer
  PROVE  Spec => []LiveIsListed
<1>1. IInv => LiveIsListed
  <2> SUFFICES ASSUME IInv, ui \in {"prompt", "ending"}, NEW c \in Children,
                      state[c] = "live", c \notin unkilled
               PROVE  running[owner[c]] = c /\ profiles[owner[c]] # NoProfile
    BY DEF LiveIsListed
  <2>1. running[owner[c]] = c /\ owner[c] \in Names
    BY DEF IInv, TypeOK, LiveIsTracked
  <2>2. Tracked(owner[c])
    BY <2>1 DEF MarksDiffer, Tracked
  <2> QED BY <2>1, <2>2 DEF IInv, HandlesAreOwn, Known
<1> QED BY <1>1, Invariance, PTL
=============================================================================
