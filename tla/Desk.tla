--------------------------------- MODULE Desk ---------------------------------
(***************************************************************************)
(* What the owner decides, and who carries it out: plans, spawn proposals  *)
(* and budgets, fan-ins, join grants, notes, verdicts and rosters.  Each   *)
(* keeps its own rows and none of the handlers reads another's, the status *)
(* of an agent excepted, which several set and none relies on.  Their      *)
(* interleavings add nothing to what is stated of each, so a behaviour of  *)
(* the desk works on one of them, chosen at its start.                     *)
(***************************************************************************)
EXTENDS Plans, Ledger, FanIn, Join, Memory, Verdicts, Seeding

VARIABLE tray

deskVars == <<planVars, ledgerVars, fanInVars, joinVars, memoryVars, verdictVars,
              seedVars, tray>>

DeskTypeOK ==
  /\ PlansTypeOK /\ LedgerTypeOK /\ FanInTypeOK /\ JoinTypeOK /\ MemoryTypeOK
  /\ VerdictsTypeOK /\ SeedingTypeOK
  /\ tray \in {"plans", "ledger", "fanin", "join", "memory", "verdicts", "seeding"}

DeskInit ==
  /\ PlansInit /\ LedgerInit /\ FanInInit /\ JoinInit /\ MemoryInit /\ VerdictsInit
  /\ SeedingInit
  /\ tray \in {"plans", "ledger", "fanin", "join", "memory", "verdicts", "seeding"}

OnPlans ==
  /\ tray = "plans" /\ PlansNext
  /\ UNCHANGED <<ledgerVars, fanInVars, joinVars, memoryVars, verdictVars, seedVars, tray>>
OnLedger ==
  /\ tray = "ledger" /\ LedgerNext
  /\ UNCHANGED <<planVars, fanInVars, joinVars, memoryVars, verdictVars, seedVars, tray>>
OnFanIns ==
  /\ tray = "fanin" /\ FanInNext
  /\ UNCHANGED <<planVars, ledgerVars, joinVars, memoryVars, verdictVars, seedVars, tray>>
OnGrants ==
  /\ tray = "join" /\ JoinNext
  /\ UNCHANGED <<planVars, ledgerVars, fanInVars, memoryVars, verdictVars, seedVars, tray>>
OnNotes ==
  /\ tray = "memory" /\ MemoryNext
  /\ UNCHANGED <<planVars, ledgerVars, fanInVars, joinVars, verdictVars, seedVars, tray>>
OnVerdicts ==
  /\ tray = "verdicts" /\ VerdictsNext
  /\ UNCHANGED <<planVars, ledgerVars, fanInVars, joinVars, memoryVars, seedVars, tray>>
OnRoster ==
  /\ tray = "seeding" /\ SeedingNext
  /\ UNCHANGED <<planVars, ledgerVars, fanInVars, joinVars, memoryVars, verdictVars, tray>>

DeskNext ==
  OnPlans \/ OnLedger \/ OnFanIns \/ OnGrants \/ OnNotes \/ OnVerdicts \/ OnRoster

DeskSpec == DeskInit /\ [][DeskNext]_deskVars
=============================================================================
