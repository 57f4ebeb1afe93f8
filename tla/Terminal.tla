------------------------------- MODULE Terminal -------------------------------
(***************************************************************************)
(* The terminal tab (server/main.ts and server/terminal.ts): a viewer is   *)
(* sent what is above the agent's screen, and is then attached by a client *)
(* of tmux, which draws the screen and everything that follows.  The       *)
(* server's part is synchronous; tmux and the agent are processes of their *)
(* own, so lines scroll and sessions end between the two.                  *)
(***************************************************************************)
EXTENDS Naturals, FiniteSets

CONSTANTS
  Client,    (* viewers                                                     *)
  Height,    (* lines of the screen                                         *)
  Depth,     (* lines of history that a viewer is sent                      *)
  MaxLines   (* bound: lines the agent prints                               *)

ASSUME TerminalAssumption == Height \in Nat /\ Depth \in Nat /\ MaxLines \in Nat

VARIABLES
  session,   (* the agent's tmux session                                    *)
  base,      (* lines printed before the session began                      *)
  printed,   (* lines printed, which number them                            *)
  viewer,    (* each viewer's connection                                    *)
  past,      (* the lines it was sent as history                            *)
  live,      (* the lines its client drew                                   *)
  writable   (* viewers whose input is not refused                          *)

paneVars     == <<session, base, printed>>
terminalVars == <<paneVars, viewer, past, live, writable>>

TerminalTypeOK ==
  /\ session \in {"none", "partial", "ready"}
  /\ base \in 0..printed /\ printed \in 0..MaxLines
  /\ viewer \in [Client -> {"none", "refused", "spawned", "attached", "blank"}]
  /\ past \in [Client -> SUBSET (1..MaxLines)] /\ live \in [Client -> SUBSET (1..MaxLines)]
  /\ writable \subseteq Client

TerminalInit ==
  /\ session = "none" /\ base = 0 /\ printed = 0
  /\ viewer = [c \in Client |-> "none"] /\ writable = {}
  /\ past = [c \in Client |-> {}] /\ live = [c \in Client |-> {}]

Scrolled == {i \in (base + 1)..printed : i + Height <= printed}
Screen   == ((base + 1)..printed) \ Scrolled

-----------------------------------------------------------------------------
(* new-session is followed by three commands that may fail: a second call    *)
(* finds a session, and leaves it as it is.                                 *)
EnsureSession ==
  IF session = "none" THEN session' \in {"none", "partial", "ready"}
  ELSE UNCHANGED session

(* The capture stops above the screen.  When nothing is above it, tmux takes  *)
(* the line -1 that was asked for to be line 0, the first of the screen.     *)
SlipHistory == {i \in (base + 1)..printed : i + Depth > printed}
History ==
  IF Scrolled = {} THEN {i \in Screen : i = base + 1}
  ELSE {i \in Scrolled : i + Depth + Height > printed}

(* The agent is known, or the name is taken for that of a session.  The      *)
(* client of tmux is started here, if it can be, and attaches later.         *)
Connects(c) ==
  /\ viewer[c] = "none"
  /\ EnsureSession \/ UNCHANGED session
  /\ past' = [past EXCEPT ![c] = IF session' = "none" THEN {} ELSE History]
  /\ \E v \in {"refused", "spawned"} :
       /\ session' = "none" => v = "refused"
       /\ viewer' = [viewer EXCEPT ![c] = v]
  /\ UNCHANGED <<base, printed, live, writable>>

ClientDraws(c) ==
  /\ viewer[c] = "spawned" /\ session # "none"
  /\ viewer' = [viewer EXCEPT ![c] = "attached"]
  /\ live' = [live EXCEPT ![c] = Screen]
  /\ UNCHANGED <<paneVars, past, writable>>

AgentPrints ==
  /\ session # "none" /\ printed < MaxLines
  /\ printed' = printed + 1
  /\ live' = [c \in Client |-> IF viewer[c] = "attached" THEN live[c] \cup {printed'} ELSE live[c]]
  /\ UNCHANGED <<session, base, viewer, past, writable>>

(* Its clients exit; the viewers keep their connection and are told nothing. *)
SessionEnds ==
  /\ session # "none" /\ session' = "none" /\ base' = printed
  /\ viewer' = [c \in Client |-> IF viewer[c] = "attached" THEN "blank" ELSE viewer[c]]
  /\ UNCHANGED <<printed, past, live, writable>>

ClientFails(c) ==
  /\ viewer[c] = "spawned" /\ session = "none"
  /\ viewer' = [viewer EXCEPT ![c] = "blank"]
  /\ UNCHANGED <<paneVars, past, live, writable>>

(* The client was started read-only and stays so: the input it is given now  *)
(* is still dropped by tmux.                                                *)
GrantControl(c, on) ==
  /\ viewer[c] \in {"spawned", "attached", "blank"}
  /\ writable' = IF on THEN writable \cup {c} ELSE writable \ {c}
  /\ UNCHANGED <<paneVars, viewer, past, live>>

(* The viewer may come back as a new one.                                   *)
Leaves(c) ==
  /\ viewer[c] # "none"
  /\ viewer' = [viewer EXCEPT ![c] = "none"]
  /\ past' = [past EXCEPT ![c] = {}] /\ live' = [live EXCEPT ![c] = {}]
  /\ writable' = writable \ {c}
  /\ UNCHANGED paneVars

TerminalNext ==
  \/ AgentPrints \/ SessionEnds
  \/ \E c \in Client :
       \/ Connects(c) \/ ClientDraws(c) \/ ClientFails(c) \/ Leaves(c)
       \/ \E on \in BOOLEAN : GrantControl(c, on)

TerminalSpec == TerminalInit /\ [][TerminalNext]_terminalVars

-----------------------------------------------------------------------------
(* Properties *)

(* terminal.ts:93-107 and main.ts:303-304: a viewer reads the agent's lines  *)
(* in their order, with lines scrolling and sessions ending between the      *)
(* history it was sent and the screen that was drawn; the only line it may   *)
(* read twice is one that was all of its history.                           *)
ReadInOrder ==
  \A c \in Client : \A i \in past[c], j \in live[c] :
    i < j \/ (i = j /\ past[c] = {i})

(* terminal.ts:97-100: it reads none of them twice.  The code does not keep   *)
(* this while a session has not filled its screen: the history is then the   *)
(* first line of the screen, and tmux's client draws that line again.       *)
HistoryThenScreen == \A c \in Client : \A i \in past[c], j \in live[c] : i < j
=============================================================================
