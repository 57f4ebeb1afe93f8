-------------------------------- MODULE Viewer --------------------------------
(***************************************************************************)
(* The browser tab: websocket connections to the server, each of which     *)
(* attaches to the agent's browser over the DevTools protocol, pumps       *)
(* frames from it, and lets a human take the wheel (server/main.ts and     *)
(* server/browser.ts).  The server is one thread: what it does between two *)
(* awaits is one action, and anything can happen during an await.          *)
(*                                                                         *)
(* A definition named Slip... is no part of the system: it is a plausible  *)
(* mistake in the definition below it, which the checks must notice.       *)
(***************************************************************************)
CONSTANT Tab   (* browser tabs open on the agent                            *)

VARIABLES
  ws,        (* each tab's connection                                       *)
  handler,   (* where its connection handler is                             *)
  socket,    (* its socket to the browser                                   *)
  pump,      (* its frame pump, and whether that was told to stop           *)
  stopped,
  click,     (* the call its click is at                                    *)
  control,   (* who has the wheel, in memory ...                            *)
  recorded   (* ... and in the table meta, for the supervisor               *)

tabVars    == <<ws, handler, socket, pump, stopped, click>>
viewerVars == <<tabVars, control, recorded>>

Control == {"agent_driving", "help_requested", "control_taken"}
Clicks  == {"none", "metrics", "moved", "pressed", "released"}

ViewerTypeOK ==
  /\ ws \in [Tab -> {"none", "open", "closed"}]
  /\ handler \in [Tab -> {"none", "list", "handshake", "enable", "serving", "blind", "returned"}]
  /\ socket \in [Tab -> {"none", "open", "closing", "closed"}]
  /\ pump \in [Tab -> {"none", "shot", "where", "wait", "off"}]
  /\ stopped \subseteq Tab
  /\ click \in [Tab -> Clicks]
  /\ control \in Control /\ recorded \in Control

ViewerInit ==
  /\ ws = [t \in Tab |-> "none"] /\ handler = [t \in Tab |-> "none"]
  /\ socket = [t \in Tab |-> "none"] /\ pump = [t \in Tab |-> "none"]
  /\ stopped = {} /\ click = [t \in Tab |-> "none"]
  /\ control = "agent_driving" /\ recorded = "agent_driving"

Attaching(t) == handler[t] \in {"list", "handshake", "enable"}

-----------------------------------------------------------------------------
(* Attaching: fetch the list of pages, open a socket, enable the page domain *)

(* The handler goes on without a grabber: it says why, and serves control.   *)
Blind(t) ==
  /\ handler' = [handler EXCEPT ![t] = IF ws[t] = "closed" THEN "returned" ELSE "blind"]
  /\ UNCHANGED <<ws, socket, pump, stopped, click, control, recorded>>

(* discoverCdp finds an endpoint, in the environment or in what an identity  *)
(* published, or there is nothing to wait for.                              *)
Discovered == {"list", "blind"}

Connect(t) ==
  /\ ws[t] = "none"
  /\ ws' = [ws EXCEPT ![t] = "open"]
  /\ \E h \in Discovered : handler' = [handler EXCEPT ![t] = h]
  /\ UNCHANGED <<socket, pump, stopped, click, control, recorded>>

PagesListed(t) ==
  /\ handler[t] = "list"
  /\ handler' = [handler EXCEPT ![t] = "handshake"]
  /\ UNCHANGED <<ws, socket, pump, stopped, click, control, recorded>>

SocketOpens(t) ==
  /\ handler[t] = "handshake"
  /\ handler' = [handler EXCEPT ![t] = "enable"]
  /\ socket' = [socket EXCEPT ![t] = "open"]
  /\ UNCHANGED <<ws, pump, stopped, click, control, recorded>>

(* No page, a browser that refuses, or the deadline both awaits have.        *)
AttachFails(t) ==
  /\ handler[t] \in {"list", "handshake"}
  /\ Blind(t)

SlipLeft(t) == FALSE
Left(t)     == ws[t] = "closed"

(* Page.enable settles, one way or another.  A tab closed meanwhile has had  *)
(* its close event, which found nothing to stop.                            *)
Attached(t) ==
  /\ handler[t] = "enable"
  /\ IF Left(t)
     THEN /\ handler' = [handler EXCEPT ![t] = "returned"]
          /\ socket' = [socket EXCEPT ![t] = IF @ = "open" THEN "closing" ELSE @]
          /\ UNCHANGED pump
     ELSE /\ handler' = [handler EXCEPT ![t] = "serving"]
          /\ pump' = [pump EXCEPT ![t] = "shot"]
          /\ UNCHANGED socket
  /\ UNCHANGED <<ws, stopped, click, control, recorded>>

-----------------------------------------------------------------------------
(* Calls to the browser *)

(* Where a pump or a click goes when its call was answered, or was not.      *)
AfterGrab(t) == IF t \in stopped THEN "off" ELSE "wait"

ShotAnswered(t) ==
  /\ pump[t] = "shot" /\ socket[t] = "open"
  /\ pump' = [pump EXCEPT ![t] = "where"]
  /\ UNCHANGED <<ws, handler, socket, stopped, click, control, recorded>>

PumpSettles(t) ==
  /\ pump' = [pump EXCEPT ![t] = AfterGrab(t)]
  /\ UNCHANGED <<ws, handler, socket, stopped, click, control, recorded>>

FrameSent(t) == pump[t] = "where" /\ socket[t] = "open" /\ PumpSettles(t)

(* An error, the socket's end, or the deadline every call has.              *)
SlipCallDue(t) == socket[t] = "open"
CallDue(t)     == TRUE
GrabFails(t) == pump[t] \in {"shot", "where"} /\ CallDue(t) /\ PumpSettles(t)

NextFrame(t) ==
  /\ pump[t] = "wait"
  /\ pump' = [pump EXCEPT ![t] = IF t \in stopped THEN "off" ELSE "shot"]
  /\ UNCHANGED <<ws, handler, socket, stopped, click, control, recorded>>

(* The three mouse events go out one after the other's answer; who has the   *)
(* wheel was asked once, before the first call.                             *)
ClickGoesOn(t) ==
  LET next == [metrics |-> "moved", moved |-> "pressed", pressed |-> "released"] IN
  /\ click[t] \in DOMAIN next /\ socket[t] = "open"
  /\ click' = [click EXCEPT ![t] = next[@]]
  /\ UNCHANGED <<ws, handler, socket, pump, stopped, control, recorded>>

ClickEnds(t) ==
  /\ click[t] # "none"
  /\ click' = [click EXCEPT ![t] = "none"]
  /\ UNCHANGED <<ws, handler, socket, pump, stopped, control, recorded>>

(* The closing handshake ends or times out, or the browser goes away.        *)
SocketCloses(t) ==
  /\ socket[t] \in {"open", "closing"}
  /\ socket' = [socket EXCEPT ![t] = "closed"]
  /\ UNCHANGED <<ws, handler, pump, stopped, click, control, recorded>>

-----------------------------------------------------------------------------
(* What the human does.  A message that comes while the handler is attaching *)
(* has no listener yet and is lost.                                          *)

SetControl(t, state) ==
  /\ ws[t] = "open" /\ handler[t] \in {"serving", "blind"}
  /\ control' = state /\ recorded' = state
  /\ UNCHANGED tabVars

Click(t) ==
  /\ ws[t] = "open" /\ handler[t] = "serving" /\ click[t] = "none"
  /\ control = "control_taken"
  /\ click' = [click EXCEPT ![t] = "metrics"]
  /\ UNCHANGED <<ws, handler, socket, pump, stopped, control, recorded>>

(* The close event stops what the handler has assigned by then.             *)
CloseTab(t) ==
  /\ ws[t] = "open"
  /\ ws' = [ws EXCEPT ![t] = "closed"]
  /\ IF handler[t] = "serving"
     THEN /\ stopped' = stopped \cup {t}
          /\ socket' = [socket EXCEPT ![t] = IF @ = "open" THEN "closing" ELSE @]
          /\ handler' = [handler EXCEPT ![t] = "returned"]
     ELSE /\ handler' = IF Attaching(t) THEN handler ELSE [handler EXCEPT ![t] = "returned"]
          /\ UNCHANGED <<stopped, socket>>
  /\ UNCHANGED <<pump, click, control, recorded>>

(* The server starts again: the wheel is the agent's in its memory, and      *)
(* whoever's it was in the table.                                           *)
ServerRestarts ==
  /\ ws' = [t \in Tab |-> "none"] /\ handler' = [t \in Tab |-> "none"]
  /\ socket' = [t \in Tab |-> "none"] /\ pump' = [t \in Tab |-> "none"]
  /\ stopped' = {} /\ click' = [t \in Tab |-> "none"]
  /\ control' = "agent_driving"
  /\ UNCHANGED recorded

ViewerNext ==
  \/ \E t \in Tab :
       \/ Connect(t) \/ PagesListed(t) \/ SocketOpens(t) \/ AttachFails(t) \/ Attached(t)
       \/ ShotAnswered(t) \/ FrameSent(t) \/ GrabFails(t) \/ NextFrame(t)
       \/ Click(t) \/ ClickGoesOn(t) \/ ClickEnds(t)
       \/ SocketCloses(t) \/ CloseTab(t)
       \/ \E state \in Control : SetControl(t, state)
  \/ ServerRestarts

(* Deadlines and timers come; a browser need never answer.                  *)
ViewerFairness ==
  \A t \in Tab :
    /\ WF_viewerVars(AttachFails(t)) /\ WF_viewerVars(Attached(t))
    /\ WF_viewerVars(GrabFails(t)) /\ WF_viewerVars(NextFrame(t))
    /\ WF_viewerVars(ClickEnds(t))
    /\ WF_viewerVars(socket[t] = "closing" /\ SocketCloses(t))

ViewerSpec == ViewerInit /\ [][ViewerNext]_viewerVars /\ ViewerFairness

-----------------------------------------------------------------------------
(* Properties *)

(* main.ts:339-358: "a socket that closes while the endpoint is still being  *)
(* attached" leaves no grabber and no pump behind: once its handler is done, *)
(* a tab that was closed has a pump only if that was told to stop, and no   *)
(* open socket.                                                             *)
NoOrphanPump ==
  \A t \in Tab : (ws[t] = "closed" /\ ~Attaching(t)) =>
    (pump[t] = "none" \/ t \in stopped) /\ socket[t] # "open"

(* browser.ts:196-204: "a browser that stops answering must not hold a frame *)
(* pump, and through it a websocket handler, open forever": after a tab is   *)
(* closed everything it started ends.                                       *)
Quiet(t) ==
  /\ ~Attaching(t) /\ pump[t] \in {"none", "off"} /\ click[t] = "none"
  /\ socket[t] \in {"none", "closed"}
ClosedTabsGoQuiet == \A t \in Tab : ws[t] = "closed" ~> Quiet(t)
=============================================================================
