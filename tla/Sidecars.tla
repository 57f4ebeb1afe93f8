------------------------------- MODULE Sidecars -------------------------------
(***************************************************************************)
(* What runs beside the loop and the store: browser tabs, terminal tabs    *)
(* and event hooks.  They share no state, so a behaviour of the sidecars   *)
(* is one of one of them, chosen at its start.                             *)
(***************************************************************************)
EXTENDS Viewer, Terminal, Hooks

VARIABLE sidecar

sidecarVars == <<viewerVars, terminalVars, hookVars, sidecar>>

SidecarsTypeOK ==
  /\ ViewerTypeOK /\ TerminalTypeOK /\ HooksTypeOK
  /\ sidecar \in {"browser", "terminal", "hooks"}

SidecarsInit ==
  /\ ViewerInit /\ TerminalInit /\ HooksInit
  /\ sidecar \in {"browser", "terminal", "hooks"}

InBrowser ==
  /\ sidecar = "browser" /\ ViewerNext
  /\ UNCHANGED <<terminalVars, hookVars, sidecar>>
InTerminal ==
  /\ sidecar = "terminal" /\ TerminalNext
  /\ UNCHANGED <<viewerVars, hookVars, sidecar>>
InHooks ==
  /\ sidecar = "hooks" /\ HooksNext
  /\ UNCHANGED <<viewerVars, terminalVars, sidecar>>

SidecarsNext == InBrowser \/ InTerminal \/ InHooks

SidecarsFairness ==
  /\ sidecar = "browser" => ViewerFairness
  /\ sidecar = "hooks" => HooksFairness

SidecarsSpec == SidecarsInit /\ [][SidecarsNext]_sidecarVars /\ SidecarsFairness
=============================================================================
