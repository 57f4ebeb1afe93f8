------------------------------- MODULE Seeding -------------------------------
(***************************************************************************)
(* Where agents come from (adapters/import.ts, orchestrator/bootstrap.ts): *)
(* a roster is imported, and imported again after it was edited; each of   *)
(* the two processes makes sure at its start that there is an              *)
(* orchestrator; a plan creates one; and humans decide which of them run.  *)
(* All of it happens in any order, each step in one transaction.           *)
(*                                                                         *)
(* A definition named Slip... is no part of the system: it is a plausible  *)
(* mistake in the definition below it, which the checks must notice.       *)
(***************************************************************************)
EXTENDS Naturals, FiniteSets

CONSTANTS
  Person, Seat,   (* slugs, and the reserved one                            *)
  Division,       (* a roster's divisions                                   *)
  Roster,         (* rosters, see Rosters                                   *)
  MaxImports      (* bound on the imports                                   *)

(* The persons a roster lists, what it says of them, and how many questions *)
(* the outbox beside it leaves open.                                        *)
Rosters ==
  [listed: SUBSET Person, active: SUBSET Person, division: [Person -> Division], open: Nat]

ASSUME SeedingAssumption ==
  /\ IsFiniteSet(Person) /\ Seat \in Person
  /\ Roster \subseteq Rosters /\ MaxImports \in Nat

VARIABLES
  hired,      (* agents: status, or "none"                                  *)
  eldest,     (* the agents that were created first                         *)
  rooms,      (* the channels of the table meta, as their members           *)
  raised,     (* imported questions in each agent's thread                  *)
  imports,    (* imports so far                                             *)
  vouched,    (* persons an imported roster said are active                 *)
  decided     (* what a human decided last about each                       *)

seedVars == <<hired, eldest, rooms, raised, imports, vouched, decided>>

SeedingTypeOK ==
  /\ hired \in [Person -> {"none", "DRAFT", "ACTIVE", "PAUSED", "RETIRED"}]
  /\ eldest \subseteq Person /\ rooms \in [Division -> SUBSET Person]
  /\ raised \in [Person -> Nat] /\ imports \in 0..MaxImports /\ vouched \subseteq Person
  /\ decided \in [Person -> {"none", "ACTIVE", "PAUSED", "RETIRED"}]

SeedingInit ==
  /\ hired = [p \in Person |-> "none"] /\ eldest = {}
  /\ rooms = [d \in Division |-> {}] /\ raised = [p \in Person |-> 0]
  /\ imports = 0 /\ vouched = {} /\ decided = [p \in Person |-> "none"]

Elders(newcomers) == IF eldest = {} THEN newcomers ELSE eldest

SlipNewcomers(r) == {p \in r.listed : hired[p] # "ACTIVE"}
Newcomers(r)     == {p \in r.listed : hired[p] = "none"}

(* runImport: a person who has a row is skipped, whatever the roster says    *)
(* now.  The channels are those of the newcomers alone: they replace what   *)
(* an earlier import had filed.  The open questions are filed again.        *)
Import(r) ==
  LET new == Newcomers(r) IN
  /\ imports < MaxImports /\ imports' = imports + 1
  /\ hired' = [p \in Person |-> IF p \in new THEN IF p \in r.active THEN "ACTIVE" ELSE "DRAFT"
                                             ELSE hired[p]]
  /\ eldest' = Elders(new)
  /\ rooms' = [d \in Division |-> {p \in new : r.division[p] = d}]
  /\ vouched' = vouched \cup (r.listed \cap r.active)
  /\ \/ eldest' = {} /\ UNCHANGED raised
     \/ \E p \in IF hired'[Seat] # "none" THEN {Seat} ELSE eldest' :
          raised' = [raised EXCEPT ![p] = @ + r.open]
  /\ UNCHANGED decided

(* ensureOrchestrator: a row that is there is left exactly as it is.        *)
ProcessStarts ==
  /\ hired[Seat] = "none"
  /\ hired' = [hired EXCEPT ![Seat] = "ACTIVE"]
  /\ eldest' = Elders({Seat})
  /\ UNCHANGED <<rooms, raised, imports, vouched, decided>>

(* The create_agent effect of a plan.                                       *)
PlanCreates(p) ==
  /\ hired[p] = "none"
  /\ hired' = [hired EXCEPT ![p] = "DRAFT"]
  /\ eldest' = Elders({p})
  /\ UNCHANGED <<rooms, raised, imports, vouched, decided>>

(* The activate route, and the pause, resume and retire effects of a plan.   *)
HumanDecides(p, s) ==
  /\ hired[p] # "none"
  /\ s = "RETIRED" => p # Seat
  /\ hired' = [hired EXCEPT ![p] = s]
  /\ decided' = [decided EXCEPT ![p] = s]
  /\ UNCHANGED <<eldest, rooms, raised, imports, vouched>>

SeedingNext ==
  \/ \E r \in Roster : Import(r)
  \/ ProcessStarts
  \/ \E p \in Person : PlanCreates(p)
  \/ \E p \in Person, s \in {"ACTIVE", "PAUSED", "RETIRED"} : HumanDecides(p, s)

SeedingSpec == SeedingInit /\ [][SeedingNext]_seedVars

(* import.ts:178-180, "an import must not start unfamiliar agents", and      *)
(* bootstrap.ts:13-14, a row "is left exactly as it is": no restart, plan or *)
(* import of an edited roster undoes what a human decided about an agent,    *)
(* and none that a human never decided about runs, the orchestrator aside,   *)
(* unless a roster called it active.                                         *)
DecisionsStand ==
  \A p \in Person :
    /\ decided[p] # "none" => hired[p] = decided[p]
    /\ decided[p] = "none" /\ hired[p] = "ACTIVE" => p \in vouched \cup {Seat}
=============================================================================
