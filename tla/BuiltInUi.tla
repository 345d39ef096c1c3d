----------------------------- MODULE BuiltInUi ------------------------------
(***************************************************************************)
(* The prompt of `ut --ui`: it keeps profiles, and for each of them the    *)
(* handle of at most one child process, a client started from it.  A child *)
(* runs in a console of its own and may end at any time; the prompt looks  *)
(* at it only when it is told to stop it, and when it quits itself.        *)
(***************************************************************************)
EXTENDS FiniteSets

CONSTANTS
  Names,       \* names of profiles
  Settings,    \* what a profile may hold: host, port, id, key, tunnel, flags
  NoProfile,   \* no profile of that name
  Children,    \* processes the prompt may start
  NoChild      \* no handle under that name

MarksDiffer == NoProfile \notin Settings /\ NoChild \notin Children

VARIABLES
  profiles,   \* per name: its profile
  running,    \* per name: the child whose handle is kept
  state,      \* per child: not started yet, live, or exited
  owner,      \* per child: the name it was started for
  unkilled,   \* children that TerminateProcess has failed to end
  ui          \* at its prompt, in the loop after it, or gone

children == <<state, owner, unkilled>>
vars == <<profiles, running, children, ui>>

TypeOK ==
  /\ profiles \in [Names -> Settings \cup {NoProfile}]
  /\ running \in [Names -> Children \cup {NoChild}]
  /\ state \in [Children -> {"new", "live", "exited"}]
  /\ owner \in [Children -> Names]
  /\ unkilled \subseteq Children
  /\ ui \in {"prompt", "ending", "over", "broken"}

AtRest ==
  /\ profiles = [n \in Names |-> NoProfile]
  /\ running = [n \in Names |-> NoChild]
  /\ state = [c \in Children |-> "new"]
  /\ unkilled = {}

Init == AtRest /\ owner \in [Children -> Names] /\ ui = "prompt"

-----------------------------------------------------------------------------
Known(n) == profiles[n] # NoProfile
Tracked(n) == running[n] # NoChild

(* add replaces a profile of that name, even one with a child. *)
Add(n, s) ==
  /\ ui = "prompt"
  /\ profiles' = [profiles EXCEPT ![n] = s]
  /\ UNCHANGED <<running, children, ui>>

(* set-tunnel and set-flag; a child that runs keeps the old settings. *)
Change(n, s) ==
  /\ ui = "prompt" /\ Known(n)
  /\ profiles' = [profiles EXCEPT ![n] = s]
  /\ UNCHANGED <<running, children, ui>>

(* CreateProcess: a new process, or none and an error. *)
StartUiSessionProcess(n, c) ==
  /\ state[c] = "new" /\ owner[c] = n
  /\ state' = [state EXCEPT ![c] = "live"]
  /\ running' = [running EXCEPT ![n] = c]

StartAgain(n, c) ==
  /\ ui = "prompt" /\ Known(n)
  /\ StartUiSessionProcess(n, c)
  /\ UNCHANGED <<profiles, owner, unkilled, ui>>

(* start refuses while the handle of an earlier child is kept, and also    *)
(* when that child has exited.                                             *)
Start(n, c) ==
  /\ ui = "prompt" /\ Known(n) /\ ~Tracked(n)
  /\ StartUiSessionProcess(n, c)
  /\ UNCHANGED <<profiles, owner, unkilled, ui>>

(* A child that has not exited is terminated, which may fail. *)
Terminate(c) ==
  \/ state[c] = "live" /\ state' = [state EXCEPT ![c] = "exited"]
     /\ UNCHANGED unkilled
  \/ state[c] = "live" /\ unkilled' = unkilled \cup {c} /\ UNCHANGED state
  \/ state[c] = "exited" /\ UNCHANGED <<state, unkilled>>

(* stop: the handle is closed and forgotten, however that went. *)
Stop(n) ==
  /\ ui = "prompt" /\ Tracked(n)
  /\ Terminate(running[n])
  /\ running' = [running EXCEPT ![n] = NoChild]
  /\ UNCHANGED <<profiles, owner, ui>>

Remove(n) ==
  /\ ui = "prompt" /\ Known(n) /\ ~Tracked(n)
  /\ profiles' = [profiles EXCEPT ![n] = NoProfile]
  /\ UNCHANGED <<running, children, ui>>

(* quit, exit, or the end of the input. *)
Quit ==
  /\ ui = "prompt" /\ ui' = "ending"
  /\ UNCHANGED <<profiles, running, children>>

(* One round of the loop after the prompt, in the order of a hash map. *)
EndOne(n) ==
  /\ ui = "ending" /\ Tracked(n)
  /\ Terminate(running[n])
  /\ running' = [running EXCEPT ![n] = NoChild]
  /\ UNCHANGED <<profiles, owner, ui>>

Return ==
  /\ ui = "ending" /\ \A n \in Names : ~Tracked(n)
  /\ ui' = "over"
  /\ UNCHANGED <<profiles, running, children>>

(* Ctrl+C or a closed console: no loop. *)
BreakOff ==
  /\ ui \in {"prompt", "ending"} /\ ui' = "broken"
  /\ UNCHANGED <<profiles, running, children>>

(* A client ends: its shell, its window or its connection has. *)
ChildExits(c) ==
  /\ state[c] = "live" /\ state' = [state EXCEPT ![c] = "exited"]
  /\ UNCHANGED <<profiles, running, owner, unkilled, ui>>

Next ==
  \/ \E n \in Names, s \in Settings : Add(n, s) \/ Change(n, s)
  \/ \E n \in Names, c \in Children : Start(n, c)
  \/ \E n \in Names : Stop(n) \/ Remove(n) \/ EndOne(n)
  \/ \E c \in Children : ChildExits(c)
  \/ Quit \/ Return \/ BreakOff

Spec == Init /\ [][Next]_vars

-----------------------------------------------------------------------------
(* A live client that the prompt has not failed to kill is the one under   *)
(* its name in the list, and the name has a profile: `list` shows it and   *)
(* `stop` reaches it, and two clients of one profile, which would take the *)
(* session from each other again and again, never run at once.  It takes a *)
(* start, then a stop, a removal or another start to break it.             *)
LiveIsListed ==
  ui \in {"prompt", "ending"} =>
    \A c \in Children : state[c] = "live" /\ c \notin unkilled =>
      running[owner[c]] = c /\ profiles[owner[c]] # NoProfile

-----------------------------------------------------------------------------
(* A handle that is kept is that of a child that was started for the name. *)
HandlesAreOwn ==
  \A n \in Names : Tracked(n) =>
    /\ state[running[n]] # "new" /\ owner[running[n]] = n
    /\ ui # "broken" => Known(n)

(* A live child that may be killed is listed until the prompt breaks off. *)
LiveIsTracked ==
  ui # "broken" =>
    \A c \in Children : state[c] = "live" /\ c \notin unkilled =>
      running[owner[c]] = c

IInv == TypeOK /\ HandlesAreOwn /\ LiveIsTracked
=============================================================================
