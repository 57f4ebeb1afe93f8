-------------------------------- MODULE FanIn --------------------------------
(***************************************************************************)
(* Fan-in (orchestrator/fanin.ts): the changes several agents made, of     *)
(* which the owner selects some and approves the selection.  The           *)
(* orchestrator opens fan-ins in one process, the owner decides on them in *)
(* the other, and they share the list.                                     *)
(*                                                                         *)
(* A definition named Slip... is no part of the system: it is a plausible  *)
(* mistake in the definition below it, which the checks must notice.       *)
(***************************************************************************)
EXTENDS Lists

CONSTANTS
  Path, Proven,     (* changed files, and those with provenance and a pass  *)
  FanInCap,         (* fan-ins the list keeps                               *)
  MaxFanIns         (* bound on the fan-ins opened                          *)

ASSUME FanInAssumption ==
  /\ IsFiniteSet(Path) /\ Proven \subseteq Path
  /\ FanInCap \in Nat \ {0} /\ MaxFanIns \in Nat

Bundle == 1..MaxFanIns

VARIABLES
  fanIns, selected,   (* the list: state and selection of each             *)
  changes,            (* what each brings                                  *)
  opened, approved,   (* fan-ins opened so far; how often each was approved *)
  loaded              (* the list openFanIn is holding                      *)

fanInVars == <<fanIns, selected, changes, opened, approved, loaded>>

States    == [Bundle -> {"absent", "REVIEW", "APPROVED"}]
Choice    == [Bundle -> SUBSET Path]
NotLoaded == [busy |-> FALSE, states |-> [f \in Bundle |-> "absent"],
              choice |-> [f \in Bundle |-> {}]]

FanInTypeOK ==
  /\ fanIns \in States /\ selected \in Choice /\ changes \in Choice
  /\ opened \in 0..MaxFanIns /\ approved \in [Bundle -> Nat]
  /\ loaded \in [busy: BOOLEAN, states: States, choice: Choice]

FanInInit ==
  /\ fanIns = [f \in Bundle |-> "absent"]
  /\ selected = [f \in Bundle |-> {}] /\ changes = [f \in Bundle |-> {}]
  /\ opened = 0 /\ approved = [f \in Bundle |-> 0]
  /\ loaded = NotLoaded

(* openFanIn is no transaction: what the owner decides between its load and *)
(* its save is undone by the save.                                          *)
OpenLoads ==
  /\ ~loaded.busy /\ opened < MaxFanIns
  /\ loaded' = [busy |-> TRUE, states |-> fanIns, choice |-> selected]
  /\ UNCHANGED <<fanIns, selected, changes, opened, approved>>

(* Every change is selected at first, whatever is known of it.              *)
OpenSaves(cs) ==
  LET f == opened + 1 IN
  /\ loaded.busy
  /\ opened' = f
  /\ fanIns' = Kept([loaded.states EXCEPT ![f] = "REVIEW"], FanInCap)
  /\ selected' = [loaded.choice EXCEPT ![f] = cs]
  /\ changes' = [changes EXCEPT ![f] = cs]
  /\ loaded' = NotLoaded
  /\ UNCHANGED approved

(* setSelection, which asks for no state: an approved selection can change. *)
SetSelection(f, paths) ==
  /\ fanIns[f] # "absent"
  /\ selected' = [selected EXCEPT ![f] = paths \cap changes[f] \cap Proven]
  /\ UNCHANGED <<fanIns, changes, opened, approved, loaded>>

SlipApprovable(f) == fanIns[f] # "absent" /\ selected[f] # {}
Approvable(f)     == fanIns[f] = "REVIEW" /\ selected[f] # {}

ApproveFanIn(f) ==
  /\ Approvable(f)
  /\ fanIns' = Kept([fanIns EXCEPT ![f] = "APPROVED"], FanInCap)
  /\ approved' = [approved EXCEPT ![f] = @ + 1]
  /\ UNCHANGED <<selected, changes, opened, loaded>>

FanInNext ==
  \/ OpenLoads
  \/ \E cs \in SUBSET Path : OpenSaves(cs)
  \/ \E f \in Bundle : ApproveFanIn(f) \/ \E paths \in SUBSET Path : SetSelection(f, paths)

FanInSpec == FanInInit /\ [][FanInNext]_fanInVars

-----------------------------------------------------------------------------
(* Properties *)

(* fanin.ts:78-82, "A change with no provenance cannot be selected": what is *)
(* approved was produced by a known agent and passed its tests.  The code   *)
(* asks that in setSelection only; openFanIn has selected every change.     *)
ApprovedIsProven == \A f \in Bundle : fanIns[f] = "APPROVED" => selected[f] \subseteq Proven

(* fanin.ts:145: an approved fan-in is refused a second approval.  A save    *)
(* that writes an older list back makes it one under review again, but each *)
(* opening does that to it once at most, and nothing else ever does.        *)
ApprovedOncePerUndoing == \A f \in Bundle : approved[f] <= 1 + Cardinality((f + 1)..opened)
=============================================================================
