-------------------------------- MODULE Plans --------------------------------
(***************************************************************************)
(* The orchestrator's command surface (orchestrator/plan.ts): a request is *)
(* parsed into effects and filed as a plan; the owner applies or rejects   *)
(* it.  Two processes file plans: the server for the owner, and the        *)
(* supervisor for the PROPOSE lines of the orchestrator's turn             *)
(* (supervisor/report.ts ingestMarkers), whose text a supervisor that      *)
(* restarts reads again.  The backlog (server/api.ts) is what two kinds of *)
(* effect act on.                                                          *)
(*                                                                         *)
(* A definition named Slip... is no part of the system: it is a plausible  *)
(* mistake in the definition below it, which the checks must notice.       *)
(***************************************************************************)
EXTENDS Lists, Sequences

CONSTANTS
  Text,      (* the requests, as what parseRequest reads in them, see Request *)
  Script,    (* the PROPOSE lines a turn may end with, sequences of texts    *)
  PlanCap,   (* plans the list keeps                                        *)
  MaxPlans, MaxTurns, MaxItems   (* bounds on plans, turns, backlog items    *)

Orch == "orchestrator"
Slug == {Orch, "worker", "child", "fresh"}
ParentOf == [child |-> "worker"]
Children(set) == {a \in DOMAIN ParentOf : ParentOf[a] \in set}

Verb == {"pause", "resume", "retire", "create", "backlog", "rerank"}

(* The verbs and the slugs a text names, the members of the channel it      *)
(* names, and the slug it wants created.                                    *)
Request == [verbs: SUBSET Verb, named: SUBSET Slug, room: SUBSET Slug, called: Slug]

ASSUME PlansAssumption ==
  /\ Text \subseteq Request /\ Script \subseteq Seq(Text)
  /\ PlanCap \in Nat \ {0} /\ MaxPlans \in Nat /\ MaxTurns \in Nat /\ MaxItems \in Nat

Plan   == 1..MaxPlans
Item   == 1..MaxItems
Effect == [kind: Verb, slug: Slug]

VARIABLES
  fleet, due,          (* agents: status, or "none"; those with a wake       *)
  plans, effects,      (* the list, and what each plan filed says            *)
  filed, applied,      (* plans filed so far; how often each one's effects ran *)
  held,                (* the plan rejectPlan is at and the list it loaded    *)
  turn, speaker,       (* the turn whose text is being read, who spoke       *)
  lines, at,           (* its PROPOSE lines, the next one to read            *)
  thread, heard,       (* lines already in the thread; plans each line filed *)
  inbox,               (* plans whose request went on to the orchestrator    *)
  backlog, ranked, asked  (* items: state, whether ranked, questions opened   *)

fleetVars   == <<fleet, due>>
listVars    == <<plans, effects, filed, inbox>>
turnVars    == <<turn, speaker, lines, at, thread, heard>>
backlogVars == <<backlog, ranked, asked>>
planVars    == <<fleetVars, listVars, applied, held, turnVars, backlogVars>>

PlanList == [Plan -> {"absent", "PENDING", "APPLIED", "REJECTED"}]
NoHold   == [plan |-> 0, list |-> [p \in Plan |-> "absent"]]
Line     == (1..MaxTurns) \X Text

PlansTypeOK ==
  /\ fleet \in [Slug -> {"none", "DRAFT", "ACTIVE", "PAUSED", "RETIRED"}]
  /\ due \subseteq Slug
  /\ plans \in PlanList /\ effects \in [Plan -> SUBSET Effect]
  /\ filed \in 0..MaxPlans /\ applied \in [Plan -> Nat]
  /\ held \in [plan: 0..MaxPlans, list: PlanList]
  /\ turn \in 0..MaxTurns /\ speaker \in Slug /\ lines \in Script \cup {<<>>}
  /\ at \in Nat
  /\ thread \subseteq Line /\ heard \in [Line -> Nat] /\ inbox \subseteq Plan
  /\ backlog \in [Item -> {"none", "OPEN", "PROMOTED"}] /\ ranked \subseteq Item
  /\ asked \in [Item -> Nat]

PlansInit ==
  /\ fleet = [a \in Slug |-> IF a = "fresh" THEN "none" ELSE "ACTIVE"]
  /\ due = {Orch, "worker", "child"}
  /\ plans = [p \in Plan |-> "absent"] /\ effects = [p \in Plan |-> {}]
  /\ filed = 0 /\ applied = [p \in Plan |-> 0] /\ held = NoHold
  /\ turn = 0 /\ speaker = Orch /\ lines = <<>> /\ at = 0
  /\ thread = {} /\ heard = [l \in Line |-> 0] /\ inbox = {}
  /\ backlog = [i \in Item |-> "none"] /\ ranked = {} /\ asked = [i \in Item |-> 0]

-----------------------------------------------------------------------------
(* parseRequest *)

Rows       == {a \in Slug : fleet[a] # "none"}
Targets(t) == IF t.named \cap Rows # {} THEN t.named \cap Rows ELSE t.room \cap Rows

(* The first verb that fits wins; a verb that acts on agents needs one.     *)
Precedence == <<"pause", "resume", "retire", "create", "backlog", "rerank">>
Fits(t, v) ==
  /\ v \in t.verbs
  /\ v \in {"pause", "resume", "retire"} => Targets(t) # {}
  /\ v = "backlog" => "rerank" \notin t.verbs
Fitting(t) == {n \in 1..6 : Fits(t, Precedence[n])}
Parsed(t) ==
  IF Fitting(t) = {} THEN "question"
  ELSE Precedence[CHOOSE n \in Fitting(t) : \A k \in Fitting(t) : n <= k]

(* The agents the winning verb acts on; the backlog's verbs act on none, and *)
(* their one effect carries the orchestrator's name.                        *)
ActsOn(t) ==
  CASE Parsed(t) \in {"pause", "resume"}   -> Targets(t)
    [] Parsed(t) = "retire"                -> Targets(t) \ {Orch}
    [] Parsed(t) = "create"                -> {t.called}
    [] Parsed(t) \in {"backlog", "rerank"} -> {Orch}
    [] OTHER                               -> {}
EffectsOf(t) == {[kind |-> Parsed(t), slug |-> a] : a \in ActsOn(t)}
Refused(t)   == Parsed(t) = "retire" /\ ActsOn(t) = {}

-----------------------------------------------------------------------------
(* Filing a plan *)

(* While rejectPlan is between its load and its save, a plan the supervisor *)
(* files is lost; if the list was full, a plan that was cut off comes back  *)
(* as well, which only an instance with that rarity admits.                 *)
Safe == held = NoHold \/ Cardinality(Present(plans)) < PlanCap \/ "evict" \in Rare

(* proposePlan, one transaction.                                           *)
ProposePlan(t) ==
  /\ filed < MaxPlans
  /\ Safe
  /\ LET p == filed + 1 IN
       /\ filed' = p
       /\ plans' = Kept([plans EXCEPT ![p] = "PENDING"], PlanCap)
       /\ effects' = [effects EXCEPT ![p] = EffectsOf(t)]

(* POST /api/orchestrator/ask.  A question is passed on; a command and a     *)
(* refusal are not.  The server runs one handler at a time.                 *)
OwnerAsks(t) ==
  /\ held = NoHold
  /\ ProposePlan(t)
  /\ inbox' = IF EffectsOf(t) = {} /\ ~Refused(t) THEN inbox \cup {filed + 1} ELSE inbox
  /\ UNCHANGED <<fleetVars, applied, held, turnVars, backlogVars>>

(* A turn ended with these lines, and its result is applied.               *)
TurnEnds(a, s) ==
  /\ at = 0 /\ turn < MaxTurns
  /\ turn' = turn + 1 /\ speaker' = a /\ lines' = s /\ at' = 1
  /\ UNCHANGED <<fleetVars, listVars, applied, held, thread, heard, backlogVars>>

SlipAlready(l) == FALSE
Already(l)     == l \in thread

(* The PROPOSE case of ingestMarkers.                                      *)
IngestPropose ==
  LET l == <<turn, lines[at]>> IN
  /\ at \in 1..Len(lines)
  /\ at' = at + 1
  /\ IF speaker # Orch \/ Already(l) \/ EffectsOf(lines[at]) = {}
     THEN UNCHANGED <<listVars, thread, heard>>
     ELSE /\ ProposePlan(lines[at])
          /\ thread' = thread \cup {l}
          /\ heard' = [heard EXCEPT ![l] = @ + 1]
          /\ UNCHANGED inbox
  /\ UNCHANGED <<fleetVars, applied, held, turn, speaker, lines, backlogVars>>

(* The run is settled.                                                     *)
TurnSettled ==
  /\ at > Len(lines)
  /\ at' = 0
  /\ UNCHANGED <<fleetVars, listVars, applied, held, turn, speaker, lines, thread, heard,
                 backlogVars>>

(* The supervisor dies while it applies the result: the next one finalises  *)
(* the run from its capture, or finds no capture and settles it.            *)
SupervisorDies ==
  /\ at > 0
  /\ at' \in {0, 1}
  /\ UNCHANGED <<fleetVars, listVars, applied, held, turn, speaker, lines, thread, heard,
                 backlogVars>>

-----------------------------------------------------------------------------
(* Deciding a plan *)

Affected(p, kind) == {e.slug : e \in {f \in effects[p] : f.kind = kind}}

(* The effects of a plan, in the order a plan's one verb leaves no choice   *)
(* about.  A plan made by hand could name the orchestrator's retirement.    *)
ApplyEffects(p) ==
  LET paused  == Affected(p, "pause") \cap Rows
      resumed == Affected(p, "resume") \cap Rows
      leaving == (Affected(p, "retire") \cap Rows) \ {Orch}
      retired == leaving \cup (Children(leaving) \cap Rows)
      created == Affected(p, "create") \ Rows
      free    == {i \in Item : backlog[i] = "none"}
  IN
  /\ fleet' = [a \in Slug |-> CASE a \in paused  -> "PAUSED"
                                [] a \in resumed -> "ACTIVE"
                                [] a \in retired -> "RETIRED"
                                [] a \in created -> "DRAFT"
                                [] OTHER         -> fleet[a]]
  /\ due' = (due \ (paused \cup retired)) \cup resumed
  /\ \/ Affected(p, "backlog") = {} /\ UNCHANGED backlog
     \/ /\ Affected(p, "backlog") # {}
        /\ \E i \in free : /\ \A j \in free : i <= j
                           /\ backlog' = [backlog EXCEPT ![i] = "OPEN"]
  /\ ranked' = IF Affected(p, "rerank") = {} THEN ranked
               ELSE ranked \cup {i \in Item : backlog[i] = "OPEN"}
  /\ applied' = [applied EXCEPT ![p] = @ + 1]

SlipPending(p) == plans[p] # "absent"
Pending(p)     == plans[p] = "PENDING"

(* applyPlan, one transaction.                                             *)
ApplyPlan(p) ==
  /\ held = NoHold
  /\ Pending(p)
  /\ ApplyEffects(p)
  /\ plans' = Kept([plans EXCEPT ![p] = "APPLIED"], PlanCap)
  /\ UNCHANGED <<effects, filed, inbox, held, turnVars, asked>>

(* rejectPlan is no transaction: it loads the list ...                      *)
RejectLoads(p) ==
  /\ held = NoHold
  /\ Pending(p)
  /\ held' = [plan |-> p, list |-> plans]
  /\ UNCHANGED <<fleetVars, listVars, applied, turnVars, backlogVars>>

(* ... and writes it back.                                                 *)
RejectSaves ==
  /\ held # NoHold
  /\ plans' = Kept([held.list EXCEPT ![held.plan] = "REJECTED"], PlanCap)
  /\ held' = NoHold
  /\ UNCHANGED <<fleetVars, effects, filed, inbox, applied, turnVars, backlogVars>>

-----------------------------------------------------------------------------
(* The other routes that change agents and the backlog *)

(* POST /api/agents/:slug/activate, whatever the agent's status.            *)
ActivateAgent(a) ==
  /\ held = NoHold
  /\ a \in Rows
  /\ fleet' = [fleet EXCEPT ![a] = "ACTIVE"]
  /\ due' = due \cup {a}
  /\ UNCHANGED <<listVars, applied, held, turnVars, backlogVars>>

(* addBacklogItem *)
AddItem(i) ==
  /\ held = NoHold
  /\ backlog[i] = "none" /\ \A j \in 1..(i - 1) : backlog[j] # "none"
  /\ backlog' = [backlog EXCEPT ![i] = "OPEN"]
  /\ UNCHANGED <<fleetVars, listVars, applied, held, turnVars, ranked, asked>>

(* promoteBacklogItem does not ask whether the item is still open: promoted *)
(* again it opens another question (bounded here to two).                   *)
PromoteItem(i) ==
  /\ held = NoHold
  /\ backlog[i] # "none" /\ asked[i] < 2
  /\ backlog' = [backlog EXCEPT ![i] = "PROMOTED"]
  /\ asked' = [asked EXCEPT ![i] = @ + 1]
  /\ UNCHANGED <<fleetVars, listVars, applied, held, turnVars, ranked>>

PlansNext ==
  \/ \E t \in Text : OwnerAsks(t)
  \/ \E a \in {Orch, "worker"}, s \in Script : TurnEnds(a, s)
  \/ IngestPropose
  \/ TurnSettled
  \/ SupervisorDies
  \/ \E p \in Plan : ApplyPlan(p) \/ RejectLoads(p)
  \/ RejectSaves
  \/ \E a \in Slug : ActivateAgent(a)
  \/ \E i \in Item : AddItem(i) \/ PromoteItem(i)

PlansSpec == PlansInit /\ [][PlansNext]_planVars

-----------------------------------------------------------------------------
(* Properties *)

(* A plan that was filed and is no longer listed was lost, or cut off.      *)
PlanStage(p) ==
  CASE p > filed                                                    -> "none"
    [] p <= filed /\ applied[p] = 0 /\ plans[p] = "PENDING"         -> "open"
    [] p <= filed /\ applied[p] = 0 /\ plans[p] \in {"absent", "REJECTED"} -> "dropped"
    [] p <= filed /\ applied[p] = 1 /\ plans[p] \in {"absent", "APPLIED"}  -> "done"
    [] OTHER                                                        -> "broken"

PlanDecisions == INSTANCE OneShot WITH Item <- Plan, state <- [p \in Plan |-> PlanStage(p)]

(* plan.ts:15-17, 193-195, 363-374: a plan changes the fleet once, when the *)
(* owner applies it and never before; a rejected plan stays rejected, with  *)
(* the supervisor filing plans in the middle of a rejection.                *)
PlansOnce == PlanDecisions!Spec

(* report.ts:124-139: however often a turn's text is read, before and after *)
(* a restart, a PROPOSE line in it files at most one plan.                   *)
ProposedOnce == \A l \in Line : heard[l] <= 1
=============================================================================
