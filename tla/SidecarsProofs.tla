--------------------------- MODULE SidecarsProofs ---------------------------
(***************************************************************************)
(* Proofs about the sidecars, for any number of tabs, viewers and events,   *)
(* any screen and any depth of history.                                     *)
(***************************************************************************)
EXTENDS Sidecars, FiniteSetTheorems, TLAPS

(* A step of the sidecars is one of one of them.                            *)
LEMMA OneAtATime ==
  ASSUME [SidecarsNext]_sidecarVars
  PROVE  [ViewerNext]_viewerVars /\ [TerminalNext]_terminalVars /\ [HooksNext]_hookVars
BY DEF SidecarsNext, InBrowser, InTerminal, InHooks, sidecarVars

-----------------------------------------------------------------------------
(* The browser tab (Viewer) *)

(* What a connection's handler has started by the time it is there.         *)
Started(t) ==
  /\ handler[t] \in {"none", "list", "handshake", "blind"} => pump[t] = "none" /\ socket[t] = "none"
  /\ handler[t] = "enable" => pump[t] = "none"
  /\ handler[t] \in {"serving", "blind"} => ws[t] = "open"
  /\ handler[t] = "none" <=> ws[t] = "none"
  /\ handler[t] = "returned" => (pump[t] = "none" \/ t \in stopped) /\ socket[t] # "open"

ViewerInv == ViewerTypeOK /\ \A t \in Tab : Started(t)

LEMMA ViewerStep ==
  ASSUME ViewerInv, [ViewerNext]_viewerVars
  PROVE  ViewerInv'
<1> USE DEF ViewerInv, ViewerTypeOK, Started
<1>1. ASSUME NEW t \in Tab, Connect(t) PROVE ViewerInv'
  <2>1. /\ ws[t] = "none" /\ ws' = [ws EXCEPT ![t] = "open"]
        /\ UNCHANGED <<socket, pump, stopped, click, control, recorded>>
    BY <1>1 DEF Connect
  <2>2. PICK h \in {"list", "blind"} : handler' = [handler EXCEPT ![t] = h]
    BY <1>1 DEF Connect, Discovered
  <2>3. ViewerTypeOK'
    BY <2>1, <2>2
  <2>4. \A u \in Tab : Started(u)'
    BY <2>1, <2>2
  <2> QED BY <2>3, <2>4
<1>2. ASSUME NEW t \in Tab, PagesListed(t) PROVE ViewerInv'
  <2>1. ViewerTypeOK'
    BY <1>2 DEF PagesListed
  <2>2. \A u \in Tab : Started(u)'
    BY <1>2 DEF PagesListed
  <2> QED BY <2>1, <2>2
<1>3. ASSUME NEW t \in Tab, SocketOpens(t) PROVE ViewerInv'
  BY <1>3 DEF SocketOpens
<1>4. ASSUME NEW t \in Tab, AttachFails(t) PROVE ViewerInv'
  <2>1. /\ handler[t] \in {"list", "handshake"} /\ UNCHANGED <<ws, socket, pump, stopped, click, control, recorded>>
        /\ handler' = [handler EXCEPT ![t] = IF ws[t] = "closed" THEN "returned" ELSE "blind"]
    BY <1>4 DEF AttachFails, Blind
  <2>2. ws[t] \in {"open", "closed"}
    BY <1>4, <2>1
  <2>3. ViewerTypeOK'
    BY <2>1
  <2>4. \A u \in Tab : Started(u)'
    BY <2>1, <2>2
  <2> QED BY <2>3, <2>4
<1>5. ASSUME NEW t \in Tab, Attached(t) PROVE ViewerInv'
  <2>1. ViewerTypeOK'
    <3>1. CASE Left(t)
      BY <1>5, <3>1 DEF Attached
    <3>2. CASE ~Left(t)
      BY <1>5, <3>2 DEF Attached
    <3> QED BY <3>1, <3>2
  <2>2. Started(t)'
    BY <1>5 DEF Attached, Left
  <2>3. ASSUME NEW u \in Tab, u # t PROVE Started(u)'
    BY <1>5, <2>3 DEF Attached
  <2> QED BY <2>1, <2>2, <2>3
<1>6. ASSUME NEW t \in Tab, ShotAnswered(t) PROVE ViewerInv'
  BY <1>6 DEF ShotAnswered
<1>7. ASSUME NEW t \in Tab, pump[t] # "none", PumpSettles(t) PROVE ViewerInv'
  BY <1>7 DEF PumpSettles, AfterGrab
<1>8. ASSUME NEW t \in Tab, FrameSent(t) \/ GrabFails(t) PROVE ViewerInv'
  BY <1>7, <1>8 DEF FrameSent, GrabFails
<1>9. ASSUME NEW t \in Tab, NextFrame(t) PROVE ViewerInv'
  BY <1>9 DEF NextFrame
<1>10. ASSUME NEW t \in Tab, Click(t) \/ ClickGoesOn(t) \/ ClickEnds(t) PROVE ViewerInv'
  <2>1. /\ UNCHANGED <<ws, handler, socket, pump, stopped, control, recorded>>
        /\ click' \in [Tab -> Clicks]
    BY <1>10 DEF Click, ClickGoesOn, ClickEnds, Clicks
  <2> QED BY <2>1
<1>11. ASSUME NEW t \in Tab, SocketCloses(t) PROVE ViewerInv'
  BY <1>11 DEF SocketCloses
<1>12. ASSUME NEW t \in Tab, CloseTab(t) PROVE ViewerInv'
  BY <1>12 DEF CloseTab, Attaching
<1>13. ASSUME NEW t \in Tab, NEW state \in Control, SetControl(t, state) PROVE ViewerInv'
  BY <1>13 DEF SetControl, tabVars
<1>14. CASE ServerRestarts
  BY <1>14 DEF ServerRestarts, Clicks, Control
<1>15. CASE UNCHANGED viewerVars
  BY <1>15 DEF viewerVars, tabVars
<1> QED
  BY <1>1, <1>2, <1>3, <1>4, <1>5, <1>6, <1>8, <1>9, <1>10, <1>11, <1>12, <1>13, <1>14, <1>15
  DEF ViewerNext

LEMMA ViewerStart == SidecarsInit => ViewerInv
BY DEF SidecarsInit, ViewerInit, ViewerInv, ViewerTypeOK, Started, Clicks, Control

(* main.ts:339-358, for any number of tabs: whenever in its attaching a tab  *)
(* is closed, no pump and no open socket outlives its handler.              *)
THEOREM NoPumpIsOrphaned == SidecarsSpec => []NoOrphanPump
<1>1. SidecarsInit => ViewerInv
  BY ViewerStart
<1>2. ViewerInv /\ [SidecarsNext]_sidecarVars => ViewerInv'
  BY ViewerStep, OneAtATime
<1>3. ViewerInv => NoOrphanPump
  BY DEF ViewerInv, ViewerTypeOK, Started, NoOrphanPump, Attaching
<1> QED BY <1>1, <1>2, <1>3, PTL DEF SidecarsSpec

-----------------------------------------------------------------------------
(* The terminal tab (Terminal) *)

(* A history has left the screen for good, or is a line that no line of this *)
(* session or of a later one comes before; only a viewer whose client has     *)
(* drawn reads any other line.                                              *)
Gone(h) == \A i \in h : i + Height <= printed /\ i <= printed
First(h) == \E i \in 1..printed : h = {i} /\ i <= base + 1

TerminalInv ==
  /\ TerminalTypeOK
  /\ \A c \in Client : Gone(past[c]) \/ First(past[c])
  /\ \A c \in Client : viewer[c] \in {"none", "refused", "spawned"} => live[c] = {}
  /\ ReadInOrder

LEMMA TerminalStep ==
  ASSUME TerminalInv, [TerminalNext]_terminalVars
  PROVE  TerminalInv'
<1> USE TerminalAssumption DEF TerminalInv, TerminalTypeOK, ReadInOrder, Gone, First
<1>1. CASE AgentPrints
  <2>1. /\ printed' = printed + 1 /\ UNCHANGED <<session, base, viewer, past, writable>>
        /\ live' = [c \in Client |-> IF viewer[c] = "attached" THEN live[c] \cup {printed'} ELSE live[c]]
    BY <1>1 DEF AgentPrints
  <2>2. \A c \in Client : \A i \in past'[c] : i < printed'
    BY <2>1
  <2>8. \A c \in Client : Gone(past[c])' \/ First(past[c])'
    <3> TAKE c \in Client
    <3>1. past'[c] = past[c] /\ printed \in Nat /\ base' = base
      BY <2>1
    <3>2. CASE Gone(past[c])
      BY <2>1, <3>1, <3>2
    <3>3. CASE First(past[c])
      BY <2>1, <3>1, <3>3
    <3> QED BY <3>2, <3>3
  <2>3. \A c \in Client : live'[c] \subseteq live[c] \cup {printed'}
    BY <2>1
  <2>4. ReadInOrder'
    BY <2>1, <2>2, <2>3
  <2>5. printed' \in 1..MaxLines /\ base' \in 0..printed'
    BY <1>1, <2>1 DEF AgentPrints
  <2>6. live' \in [Client -> SUBSET (1..MaxLines)]
    BY <2>1, <2>5
  <2>7. \A c \in Client : viewer'[c] \in {"none", "refused", "spawned"} => live'[c] = {}
    BY <2>1
  <2> QED BY <2>1, <2>4, <2>5, <2>6, <2>7, <2>8
<1>2. CASE SessionEnds
  <2>1. /\ session' = "none" /\ base' = printed /\ UNCHANGED <<printed, past, live, writable>>
        /\ viewer' = [c \in Client |-> IF viewer[c] = "attached" THEN "blank" ELSE viewer[c]]
    BY <1>2 DEF SessionEnds
  <2>2. \A c \in Client : Gone(past[c])' \/ First(past[c])'
    BY <2>1
  <2>3. TerminalTypeOK' /\ ReadInOrder'
    BY <2>1
  <2> QED BY <2>1, <2>2, <2>3
<1>3. ASSUME NEW c \in Client, Connects(c) PROVE TerminalInv'
  <2>1. /\ viewer[c] = "none" /\ UNCHANGED <<base, printed, live, writable>>
        /\ session' \in {"none", "partial", "ready"}
        /\ \E v \in {"refused", "spawned"} : viewer' = [viewer EXCEPT ![c] = v]
    BY <1>3 DEF Connects, EnsureSession
  <2>2. PICK h \in SUBSET (1..MaxLines) : past' = [past EXCEPT ![c] = h] /\ (Gone(h) \/ First(h))
    <3>1. CASE session' = "none"
      BY <1>3, <3>1 DEF Connects
    <3>2. CASE session' # "none"
      <4>1. past' = [past EXCEPT ![c] = History]
        BY <1>3, <3>2 DEF Connects
      <4>2. CASE Scrolled = {}
        <5>1. History = {i \in Screen : i = base + 1}
          BY <4>2 DEF History
        <5>2. History = {} \/ (History = {base + 1} /\ base + 1 \in 1..printed)
          BY <5>1 DEF Screen
        <5>3. History \in SUBSET (1..MaxLines) /\ (Gone(History) \/ First(History))
          BY <5>2
        <5> QED BY <4>1, <5>3
      <4>3. CASE Scrolled # {}
        <5>1. History \in SUBSET (1..MaxLines) /\ Gone(History)
          BY <4>3 DEF History, Scrolled
        <5> QED BY <4>1, <5>1
      <4> QED BY <4>2, <4>3
    <3> QED BY <3>1, <3>2
  <2>3. live[c] = {}
    BY <2>1
  <2>4. /\ past' \in [Client -> SUBSET (1..MaxLines)]
        /\ \A d \in Client : past'[d] = IF d = c THEN h ELSE past[d]
    BY <2>2
  <2>5. ReadInOrder'
    BY <2>1, <2>3, <2>4
  <2>6. ASSUME NEW d \in Client PROVE Gone(past[d])' \/ First(past[d])'
    <3>1. CASE d = c
      <4>1. past'[d] = h
        BY <2>4, <3>1
      <4> QED BY <2>1, <2>2, <4>1
    <3>2. CASE d # c
      <4>1. past'[d] = past[d] /\ (Gone(past[d]) \/ First(past[d]))
        BY <2>4, <3>2
      <4> QED BY <2>1, <4>1
    <3> QED BY <3>1, <3>2
  <2>7. TerminalTypeOK' /\ \A d \in Client : viewer'[d] \in {"none", "refused", "spawned"} => live'[d] = {}
    BY <2>1, <2>3, <2>4, Zenon
  <2> HIDE DEF TerminalTypeOK, ReadInOrder, Gone, First
  <2> QED BY <2>5, <2>6, <2>7
<1>4. ASSUME NEW c \in Client, ClientDraws(c) PROVE TerminalInv'
  <2>1. /\ UNCHANGED <<session, base, printed, past, writable>> /\ viewer' = [viewer EXCEPT ![c] = "attached"]
        /\ live' = [live EXCEPT ![c] = Screen]
    BY <1>4 DEF ClientDraws, paneVars
  <2>2. Screen \in SUBSET (1..MaxLines) /\ \A j \in Screen : j + Height > printed
    BY DEF Screen, Scrolled
  <2>3. \A i \in past[c], j \in Screen : i < j \/ (i = j /\ past[c] = {i})
    <3>1. CASE Gone(past[c])
      BY <2>2, <3>1
    <3>2. CASE First(past[c])
      BY <3>2 DEF Screen
    <3> QED BY <3>1, <3>2
  <2>4. live' \in [Client -> SUBSET (1..MaxLines)] /\ \A d \in Client : live'[d] = IF d = c THEN Screen ELSE live[d]
    BY <2>1, <2>2
  <2>5. ReadInOrder'
    BY <2>1, <2>3, <2>4
  <2> QED BY <2>1, <2>4, <2>5
<1>5. ASSUME NEW c \in Client, ClientFails(c) PROVE TerminalInv'
  BY <1>5 DEF ClientFails, paneVars
<1>6. ASSUME NEW c \in Client, Leaves(c) PROVE TerminalInv'
  BY <1>6 DEF Leaves, paneVars
<1>7. ASSUME NEW c \in Client, NEW on \in BOOLEAN, GrantControl(c, on) PROVE TerminalInv'
  BY <1>7 DEF GrantControl, paneVars
<1>8. CASE UNCHANGED terminalVars
  BY <1>8 DEF terminalVars, paneVars
<1> QED BY <1>1, <1>2, <1>3, <1>4, <1>5, <1>6, <1>7, <1>8 DEF TerminalNext

LEMMA TerminalStart == SidecarsInit => TerminalInv
BY TerminalAssumption DEF SidecarsInit, TerminalInit, TerminalInv, TerminalTypeOK, ReadInOrder, Gone, First

(* terminal.ts:93-107, main.ts:303-304, for any screen and any depth of      *)
(* history: a viewer reads the agent's lines in their order, and none twice  *)
(* but a first line that was all of its history.                            *)
THEOREM LinesAreReadInOrder == SidecarsSpec => []ReadInOrder
<1>1. SidecarsInit => TerminalInv
  BY TerminalStart
<1>2. TerminalInv /\ [SidecarsNext]_sidecarVars => TerminalInv'
  BY TerminalStep, OneAtATime
<1>3. TerminalInv => ReadInOrder
  BY DEF TerminalInv
<1> QED BY <1>1, <1>2, <1>3, PTL DEF SidecarsSpec

-----------------------------------------------------------------------------
(* Event hooks (Hooks) *)

(* A callback is owed to each queued event once, and a slot is occupied by    *)
(* each command that was started and has not closed.                        *)
HooksInv ==
  /\ HooksTypeOK
  /\ \A i \in 1..Len(deferred) : hook[deferred[i]] = "queued"
  /\ \A i, j \in 1..Len(deferred) : deferred[i] = deferred[j] => i = j
  /\ IsFiniteSet(Occupied) /\ PoolIsExact

(* Only who starts and who closes changes the occupied slots, by itself.     *)
LEMMA SlotTaken ==
  ASSUME NEW e \in Event, IsFiniteSet(Occupied), PoolIsExact,
         e \notin Occupied, Occupied' = Occupied \cup {e},
         running' = running + 1, running < PoolSize
  PROVE  IsFiniteSet(Occupied') /\ PoolIsExact'
<1>1. /\ IsFiniteSet(Occupied \cup {e})
      /\ Cardinality(Occupied \cup {e}) = Cardinality(Occupied) + 1
  BY FS_AddElement
<1>2. Cardinality(Occupied) \in Nat
  BY FS_CardinalityType
<1> QED BY <1>1, <1>2, HooksAssumption DEF PoolIsExact

LEMMA SlotGivenBack ==
  ASSUME NEW e \in Event, IsFiniteSet(Occupied), PoolIsExact,
         e \in Occupied, Occupied' = Occupied \ {e}, running' = running - 1
  PROVE  IsFiniteSet(Occupied') /\ PoolIsExact' /\ running' \in Nat
<1>1. /\ IsFiniteSet(Occupied \ {e})
      /\ Cardinality(Occupied \ {e}) = Cardinality(Occupied) - 1
  BY FS_RemoveElement
<1>2. Cardinality(Occupied) \in Nat /\ Cardinality(Occupied \ {e}) \in Nat
  BY <1>1, FS_CardinalityType
<1> QED BY <1>1, <1>2, HooksAssumption DEF PoolIsExact

LEMMA HooksStep ==
  ASSUME HooksInv, [HooksNext]_hookVars
  PROVE  HooksInv'
<1> USE DEF HooksInv, HooksTypeOK
<1>1. CASE BeginTx \/ EndTx
  BY <1>1 DEF BeginTx, EndTx, Occupied, PoolIsExact
<1>2. CASE Callback
  <2> DEFINE e == Head(deferred)
  <2>1. /\ deferred # <<>> /\ deferred' = Tail(deferred) /\ UNCHANGED inTx
        /\ StartHook(e)
    BY <1>2 DEF Callback
  <2>2. e \in Event /\ e = deferred[1] /\ Len(deferred) \in Nat \ {0} /\ hook[e] = "queued"
    BY <2>1
  <2>3. /\ deferred' \in Seq(Event) /\ Len(deferred') = Len(deferred) - 1
        /\ \A i \in 1..Len(deferred') : deferred'[i] = deferred[i + 1]
    BY <2>1
  <2>4. \A i \in 1..Len(deferred') : i + 1 \in 1..Len(deferred) /\ deferred'[i] # e
    BY <2>2, <2>3
  <2>5. PICK h \in {"skipped", "alive", "exited"} :
          /\ hook' = [hook EXCEPT ![e] = h]
          /\ h = "skipped" => UNCHANGED running
          /\ h # "skipped" => running' = running + 1 /\ running < PoolSize
    BY <2>1, HooksAssumption DEF StartHook
  <2>6. \A i \in 1..Len(deferred') : hook'[deferred'[i]] = "queued"
    BY <2>2, <2>3, <2>4, <2>5
  <2>7. \A i, j \in 1..Len(deferred') : deferred'[i] = deferred'[j] => i = j
    BY <2>2, <2>3, <2>4
  <2>8. early' \subseteq Event /\ running' \in Nat
    BY <2>1, <2>2, <2>5 DEF StartHook
  <2>9. hook' \in [Event -> {"none", "queued", "skipped", "alive", "exited", "closed", "forgotten"}]
    BY <2>2, <2>5
  <2>10. IsFiniteSet(Occupied') /\ PoolIsExact'
    <3>1. CASE h = "skipped"
      <4>1. Occupied' = Occupied
        BY <2>2, <2>5, <3>1 DEF Occupied
      <4> QED BY <2>5, <3>1, <4>1 DEF PoolIsExact
    <3>2. CASE h # "skipped"
      <4>1. e \notin Occupied /\ Occupied' = Occupied \cup {e}
        BY <2>2, <2>5, <3>2 DEF Occupied
      <4> QED BY <2>2, <2>5, <3>2, <4>1, SlotTaken
    <3> QED BY <3>1, <3>2
  <2> QED BY <2>1, <2>3, <2>6, <2>7, <2>8, <2>9, <2>10
<1>3. CASE SupervisorRestarts
  <2>1. Occupied' = {}
    BY <1>3 DEF SupervisorRestarts, Occupied
  <2>2. IsFiniteSet(Occupied') /\ PoolIsExact'
    BY <1>3, <2>1, FS_EmptySet, HooksAssumption DEF SupervisorRestarts, PoolIsExact
  <2>3. deferred' = <<>> /\ Len(deferred') = 0 /\ deferred' \in Seq(Event)
    BY <1>3 DEF SupervisorRestarts
  <2>4. hook' \in [Event -> {"none", "queued", "skipped", "alive", "exited", "closed", "forgotten"}]
    BY <1>3 DEF SupervisorRestarts
  <2>5. HooksTypeOK'
    BY <1>3, <2>3, <2>4 DEF SupervisorRestarts
  <2> QED BY <2>2, <2>3, <2>5
<1>4. ASSUME NEW e \in Event, Emit(e) PROVE HooksInv'
  <2>1. /\ hook[e] = "none" /\ deferred' = Append(deferred, e)
        /\ hook' = [hook EXCEPT ![e] = "queued"] /\ UNCHANGED <<inTx, running, early>>
    BY <1>4 DEF Emit, Listener
  <2>2. /\ deferred' \in Seq(Event) /\ Len(deferred') = Len(deferred) + 1 /\ Len(deferred) \in Nat
        /\ \A i \in 1..Len(deferred') :
             deferred'[i] = IF i = Len(deferred) + 1 THEN e ELSE deferred[i]
    BY <2>1
  <2>3. \A i \in 1..Len(deferred) : deferred[i] # e
    BY <2>1
  <2>4. \A i \in 1..Len(deferred') : hook'[deferred'[i]] = "queued"
    BY <2>1, <2>2
  <2>5. \A i, j \in 1..Len(deferred') : deferred'[i] = deferred'[j] => i = j
    BY <2>2, <2>3
  <2>6. Occupied' = Occupied
    BY <2>1 DEF Occupied
  <2> QED BY <2>1, <2>2, <2>4, <2>5, <2>6 DEF PoolIsExact
<1>5. ASSUME NEW e \in Event, HookExits(e) PROVE HooksInv'
  <2>1. hook[e] = "alive" /\ hook' = [hook EXCEPT ![e] = "exited"] /\ UNCHANGED <<inTx, deferred, running, early>>
    BY <1>5 DEF HookExits
  <2>2. Occupied' = Occupied
    BY <2>1 DEF Occupied
  <2>3. \A i \in 1..Len(deferred) : deferred[i] # e
    BY <2>1
  <2> QED BY <2>1, <2>2, <2>3 DEF PoolIsExact
<1>6. ASSUME NEW e \in Event, HookCloses(e) PROVE HooksInv'
  <2>1. /\ hook[e] = "exited" /\ hook' = [hook EXCEPT ![e] = "closed"]
        /\ running' = running - 1 /\ UNCHANGED <<inTx, deferred, early>>
    BY <1>6 DEF HookCloses
  <2>2. e \in Occupied /\ Occupied' = Occupied \ {e}
    BY <2>1 DEF Occupied
  <2>3. IsFiniteSet(Occupied') /\ PoolIsExact' /\ running' \in Nat
    BY <2>1, <2>2, SlotGivenBack
  <2>4. \A i \in 1..Len(deferred) : deferred[i] # e
    BY <2>1
  <2> QED BY <2>1, <2>3, <2>4
<1>7. CASE UNCHANGED hookVars
  BY <1>7 DEF hookVars, Occupied, PoolIsExact
<1> QED
  BY <1>1, <1>2, <1>3, <1>4, <1>5, <1>6, <1>7 DEF HooksNext, Deadline

LEMMA HooksKeepInv == SidecarsSpec => []HooksInv
<1>1. SidecarsInit => HooksInv
  <2> SUFFICES ASSUME HooksInit PROVE HooksInv
    BY DEF SidecarsInit
  <2>1. Occupied = {}
    BY DEF HooksInit, Occupied
  <2>2. IsFiniteSet(Occupied) /\ PoolIsExact
    BY <2>1, FS_EmptySet, HooksAssumption DEF HooksInit, PoolIsExact
  <2>3. deferred = <<>> /\ Len(deferred) = 0 /\ deferred \in Seq(Event)
    BY DEF HooksInit
  <2>4. HooksTypeOK
    BY <2>3 DEF HooksInit, HooksTypeOK
  <2> QED BY <2>2, <2>3, <2>4 DEF HooksInv
<1>2. HooksInv /\ [SidecarsNext]_sidecarVars => HooksInv'
  BY HooksStep, OneAtATime
<1> QED BY <1>1, <1>2, PTL DEF SidecarsSpec

(* hooks.ts:38-56, for any events and any size of the pool: the counter is    *)
(* exact, so the pool is never overrun, no slot leaks and none is given back *)
(* twice, whatever events, exits, kills and restarts come in between.        *)
THEOREM ThePoolIsNeverOverrun == SidecarsSpec => []PoolIsExact
<1>1. HooksInv => PoolIsExact
  BY DEF HooksInv
<1> QED BY <1>1, HooksKeepInv, PTL

(* hooks.ts:41-43, for any events and any pool: no command starts while the  *)
(* write lock is held.                                                      *)
THEOREM HooksRunAfterTheCommit == SidecarsSpec => []HooksSeeCommits
<1>1. SidecarsInit => HooksSeeCommits
  BY DEF SidecarsInit, HooksInit, HooksSeeCommits
<1>2. HooksSeeCommits /\ [HooksNext]_hookVars => HooksSeeCommits'
  BY DEF HooksNext, BeginTx, EndTx, Callback, SupervisorRestarts, Emit, Listener, HookExits,
         Deadline, HookCloses, StartHook, hookVars, HooksSeeCommits
<1>3. HooksSeeCommits /\ [SidecarsNext]_sidecarVars => HooksSeeCommits'
  BY <1>2, OneAtATime
<1> QED BY <1>1, <1>3, PTL DEF SidecarsSpec

-----------------------------------------------------------------------------
(* The composition *)

(* Every tab, viewer and hook is at all times in one of the states its       *)
(* module names, for any number of them: the sidecars are type correct.      *)
THEOREM SidecarsTypes == SidecarsSpec => []SidecarsTypeOK
<1> DEFINE One == sidecar \in {"browser", "terminal", "hooks"}
<1>1. SidecarsInit => ViewerInv /\ TerminalInv /\ One
  BY ViewerStart, TerminalStart DEF SidecarsInit
<1>2. ViewerInv /\ TerminalInv /\ One /\ [SidecarsNext]_sidecarVars
      => ViewerInv' /\ TerminalInv' /\ One'
  <2>1. [SidecarsNext]_sidecarVars => UNCHANGED sidecar
    BY DEF SidecarsNext, InBrowser, InTerminal, InHooks, sidecarVars
  <2> QED BY <2>1, ViewerStep, TerminalStep, OneAtATime
<1>3. ViewerInv /\ TerminalInv /\ One /\ HooksInv => SidecarsTypeOK
  BY DEF ViewerInv, TerminalInv, HooksInv, SidecarsTypeOK
<1> QED BY <1>1, <1>2, <1>3, HooksKeepInv, PTL DEF SidecarsSpec
=============================================================================
