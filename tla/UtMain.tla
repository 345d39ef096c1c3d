------------------------------- MODULE UtMain -------------------------------
(***************************************************************************)
(* The program ut.  Its first argument makes it one of three: the prompt   *)
(* of BuiltInUi (--ui), the client that starts its terminal through ssh    *)
(* (--ssh, SshBootstrap), or the client of a terminal that is there        *)
(* (--connect, ClientProgram).  The three share no state.  What a client   *)
(* of --ssh does in its session is ClientProgram's once more.              *)
(***************************************************************************)
EXTENDS ClientProgram

CONSTANTS Names, Settings, NoProfile, Children, NoChild   \* of the prompt

VARIABLES
  profiles, uiRunning, state, owner, unkilled, ui,           \* BuiltInUi
  jump, tmux, quotes, bootMain, reply, ssh, handles, lines,  \* SshBootstrap
  warned, term, registered

prompt == <<profiles, uiRunning, state, owner, unkilled, ui>>
bootstrap == <<jump, tmux, quotes, bootMain, reply, ssh, handles, lines, warned,
               term, registered>>
utVars == <<vars, prompt, bootstrap>>

Ui == INSTANCE BuiltInUi WITH running <- uiRunning
Ssh == INSTANCE SshBootstrap WITH main <- bootMain

ASSUME UiMarksAssumption == Ui!MarksDiffer

(* The programs that have not been asked for.                              *)
NoClient ==
  /\ mode = "shell" /\ tunnels = FALSE /\ command = 0 /\ predictive = FALSE
  /\ main = "exit0" /\ AtRest

NoBootstrap ==
  /\ jump = FALSE /\ tmux = FALSE /\ quotes = FALSE
  /\ bootMain = "exit" /\ Ssh!AtRest

NoPrompt ==
  /\ owner = [c \in Children |-> CHOOSE n \in Names : TRUE]
  /\ ui = "over" /\ Ui!AtRest

UtInit ==
  \/ Ui!Init /\ NoBootstrap /\ NoClient
  \/ NoPrompt /\ Ssh!Init /\ NoClient
  \/ NoPrompt /\ NoBootstrap /\ Init

UtNext ==
  \/ Ui!Next /\ UNCHANGED <<bootstrap, vars>>
  \/ Ssh!Next /\ UNCHANGED <<prompt, vars>>
  \/ Next /\ UNCHANGED <<prompt, bootstrap>>

UtSpec == UtInit /\ [][UtNext]_utVars /\ Ssh!Fairness /\ Fairness

-----------------------------------------------------------------------------
(* The properties of the prompt and of the bootstrap; those of the client  *)
(* have their names from ClientProgram.                                    *)

(* A live client that the prompt has not failed to kill is the one under   *)
(* its name in the list, and the name has a profile (main.cpp:283-457).    *)
LiveIsListed == Ui!LiveIsListed

(* No way out of the bootstrap leaves an ssh running or a handle open      *)
(* (main.cpp:602-741); a session keeps the ssh to the jumphost.            *)
OnlyTheProxyIsKept == Ssh!OnlyTheProxyIsKept

(* The bootstrap does not wait for its id for ever (main.cpp:636-667).     *)
ReadingEnds == Ssh!ReadingEnds
=============================================================================
