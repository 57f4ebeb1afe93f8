----------------------------- MODULE DeskProofs -----------------------------
(***************************************************************************)
(* Proofs about the smaller trays of Desk, and about the types of them all. *)
(***************************************************************************)
EXTENDS Desk, OneShotProofs, LedgerProofs

-----------------------------------------------------------------------------
(* Verdicts *)

(* What the settle will consume is in the capsule.                          *)
Times == clock \in Nat /\ startedAt \in Nat /\ answeredAt \in [Question -> Nat]
VerdictsInv ==
  /\ Times /\ ConsumedWasTold
  /\ startedAt <= clock
  /\ stage = "told" => {q \in Owed : Before(q)} \subseteq capsule

(* A capsule with room for every question carries every verdict owed.       *)
LEMMA AllAreTold ==
  ASSUME CapsuleLimit >= Cardinality(Question), NEW qs, Newest(qs)
  PROVE  qs = Owed
<1>1. qs \subseteq Owed /\ Owed \subseteq Question
  BY DEF Newest, Owed
<1>2. IsFiniteSet(Question) /\ CapsuleLimit \in Nat
  BY VerdictsAssumption
<1>3. CASE Cardinality(qs) = CapsuleLimit
  <2>1. qs \in SUBSET Question
    BY <1>1
  <2>2. Cardinality(qs) <= Cardinality(Question) /\ (Cardinality(Question) = Cardinality(qs) => Question = qs)
    BY <1>2, <2>1, FS_Subset
  <2>3. Cardinality(Question) \in Nat
    BY <1>2, FS_CardinalityType
  <2> QED BY <1>1, <1>2, <1>3, <2>2, <2>3
<1>4. CASE qs = Owed
  BY <1>4
<1> QED BY <1>3, <1>4 DEF Newest

LEMMA VerdictsStep ==
  ASSUME "instant" \notin Rare, CapsuleLimit >= Cardinality(Question),
         VerdictsInv, [VerdictsNext]_verdictVars
  PROVE  VerdictsInv'
<1> USE DEF VerdictsInv, Times, ConsumedWasTold
<1>1. CASE TimePasses
  BY <1>1 DEF TimePasses, Owed, Before
<1>2. ASSUME NEW q \in Question, AskQuestion(q) PROVE VerdictsInv'
  <2>1. Owed' \subseteq Owed /\ UNCHANGED <<clock, answeredAt, consumed, told, stage, startedAt, capsule>>
    BY <1>2 DEF AskQuestion, Owed
  <2> QED BY <2>1 DEF Before
<1>3. ASSUME NEW q \in Question, Answer(q) PROVE VerdictsInv'
  <2>1. /\ UNCHANGED <<clock, consumed, told, stage, startedAt, capsule>>
        /\ stage = "told" => clock # startedAt
        /\ answeredAt' = [answeredAt EXCEPT ![q] = clock]
    BY <1>3 DEF Answer
  <2>2. Owed' \subseteq Owed \cup {q}
    BY <1>3 DEF Answer, Owed
  <2>3. stage = "told" => ~Before(q)'
    BY <2>1 DEF Before
  <2>4. \A k \in Question : k # q => Before(k)' = Before(k)
    BY <2>1 DEF Before
  <2>5. stage' = "told" => {k \in Owed' : Before(k)'} \subseteq capsule'
    BY <2>1, <2>2, <2>3, <2>4 DEF Owed
  <2> QED BY <2>1, <2>5
<1>4. ASSUME NEW q \in Question, Withdraw(q) PROVE VerdictsInv'
  <2>1. UNCHANGED <<clock, consumed, told, stage, startedAt, capsule>>
        /\ answeredAt' = [answeredAt EXCEPT ![q] = clock]
    BY <1>4 DEF Withdraw
  <2>2. Owed' \subseteq Owed /\ q \notin Owed'
    BY <1>4 DEF Withdraw, Owed
  <2>3. \A k \in Question : k # q => Before(k)' = Before(k)
    BY <2>1 DEF Before
  <2>4. stage' = "told" => {k \in Owed' : Before(k)'} \subseteq capsule'
    BY <2>1, <2>2, <2>3 DEF Owed
  <2> QED BY <2>1, <2>4
<1>5. CASE OpenRunFor
  BY <1>5 DEF OpenRunFor
<1>6. ASSUME NEW qs, AssembleCapsule(qs) PROVE VerdictsInv'
  <2>1. qs = Owed
    BY <1>6, AllAreTold DEF AssembleCapsule
  <2>2. UNCHANGED <<clock, verdict, answeredAt, consumed, told, startedAt>> /\ capsule' = qs
    BY <1>6 DEF AssembleCapsule
  <2>3. {q \in Owed' : Before(q)'} \subseteq capsule'
    BY <2>1, <2>2 DEF Owed
  <2> QED BY <2>2, <2>3
<1>7. ASSUME NEW completed \in BOOLEAN, Settle(completed) PROVE VerdictsInv'
  <2>1. /\ UNCHANGED <<clock, answeredAt, startedAt>> /\ stage' = "none"
        /\ consumed' = IF completed THEN consumed \cup {q \in Owed : Before(q)} ELSE consumed
        /\ told' = IF completed THEN told \cup capsule ELSE told
        /\ completed => stage = "told"
    BY <1>7 DEF Settle
  <2>2. completed => {q \in Owed : Before(q)} \subseteq capsule
    BY <2>1
  <2>3. ConsumedWasTold'
    BY <2>1, <2>2
  <2> QED BY <2>1, <2>3
<1>8. CASE UNCHANGED verdictVars
  BY <1>8 DEF verdictVars, Owed, Before
<1> QED BY <1>1, <1>2, <1>3, <1>4, <1>5, <1>6, <1>7, <1>8 DEF VerdictsNext

(* repo.ts:277-278, for any questions: no verdict is consumed that no        *)
(* completed turn was told, when the capsule has room for every question    *)
(* and no verdict comes in the millisecond its agent's run opened in.       *)
THEOREM VerdictsAreTold ==
  "instant" \notin Rare /\ CapsuleLimit >= Cardinality(Question) =>
    (VerdictsSpec => []ConsumedWasTold)
<1> SUFFICES ASSUME "instant" \notin Rare, CapsuleLimit >= Cardinality(Question)
             PROVE  VerdictsSpec => []ConsumedWasTold
  OBVIOUS
<1>1. VerdictsInit => VerdictsInv
  BY DEF VerdictsInit, VerdictsInv, Times, ConsumedWasTold
<1>2. VerdictsInv /\ [VerdictsNext]_verdictVars => VerdictsInv'
  BY VerdictsStep
<1>3. VerdictsInv => ConsumedWasTold
  BY DEF VerdictsInv
<1> QED BY <1>1, <1>2, <1>3, PTL DEF VerdictsSpec

-----------------------------------------------------------------------------
(* Where agents come from (Seeding) *)

SeedTypes ==
  /\ hired \in [Person -> {"none", "DRAFT", "ACTIVE", "PAUSED", "RETIRED"}]
  /\ decided \in [Person -> {"none", "ACTIVE", "PAUSED", "RETIRED"}]
SeedingInv == SeedTypes /\ DecisionsStand

LEMMA SeedingStep ==
  ASSUME SeedingInv, [SeedingNext]_seedVars
  PROVE  SeedingInv'
<1> USE SeedingAssumption DEF SeedingInv, SeedTypes, DecisionsStand
<1>1. ASSUME NEW r \in Roster, Import(r) PROVE SeedingInv'
  <2>1. /\ hired' = [p \in Person |->
                       IF p \in Newcomers(r) THEN IF p \in r.active THEN "ACTIVE" ELSE "DRAFT"
                                             ELSE hired[p]]
        /\ vouched' = vouched \cup (r.listed \cap r.active) /\ UNCHANGED decided
    BY <1>1 DEF Import
  <2>2. \A p \in Person : p \in Newcomers(r) => p \in r.listed /\ hired[p] = "none" /\ decided[p] = "none"
    BY DEF Newcomers
  <2>3. hired' \in [Person -> {"none", "DRAFT", "ACTIVE", "PAUSED", "RETIRED"}]
    BY <2>1
  <2>4. ASSUME NEW p \in Person
        PROVE  /\ decided'[p] # "none" => hired'[p] = decided'[p]
               /\ decided'[p] = "none" /\ hired'[p] = "ACTIVE" => p \in vouched' \cup {Seat}
    <3>1. CASE p \in Newcomers(r)
      BY <2>1, <2>2, <3>1
    <3>2. CASE p \notin Newcomers(r)
      BY <2>1, <3>2
    <3> QED BY <3>1, <3>2
  <2> QED BY <2>1, <2>3, <2>4
<1>2. CASE ProcessStarts
  BY <1>2 DEF ProcessStarts
<1>3. ASSUME NEW p \in Person, PlanCreates(p) PROVE SeedingInv'
  BY <1>3 DEF PlanCreates
<1>4. ASSUME NEW p \in Person, NEW s \in {"ACTIVE", "PAUSED", "RETIRED"}, HumanDecides(p, s)
      PROVE  SeedingInv'
  BY <1>4 DEF HumanDecides
<1>5. CASE UNCHANGED seedVars
  BY <1>5 DEF seedVars
<1> QED BY <1>1, <1>2, <1>3, <1>4, <1>5 DEF SeedingNext

(* import.ts:178-180, bootstrap.ts:13-14, for any rosters: neither imports,   *)
(* restarts nor plans undo what a human decided about an agent, or start    *)
(* one that nobody called active.                                           *)
THEOREM DecisionsAreKept == SeedingSpec => []DecisionsStand
<1>1. SeedingInit => SeedingInv
  BY DEF SeedingInit, SeedingInv, SeedTypes, DecisionsStand
<1>2. SeedingInv /\ [SeedingNext]_seedVars => SeedingInv'
  BY SeedingStep
<1>3. SeedingInv => DecisionsStand
  BY DEF SeedingInv
<1> QED BY <1>1, <1>2, <1>3, PTL DEF SeedingSpec

-----------------------------------------------------------------------------
(* Types: those of every tray, whatever rarities are admitted *)

(* What a request asks for are effects, whatever verbs fit it.              *)
LEMMA Requests ==
  ASSUME NEW t \in Text
  PROVE  EffectsOf(t) \subseteq Effect
<1>1. t.named \subseteq Slug /\ t.room \subseteq Slug /\ t.called \in Slug
  BY PlansAssumption DEF Request
<1>2. Targets(t) \subseteq Slug /\ Orch \in Slug
  BY DEF Targets, Rows, Slug
<1>3. ActsOn(t) \subseteq Slug /\ (ActsOn(t) # {} => Parsed(t) \in Verb)
  BY <1>1, <1>2 DEF ActsOn, Verb
<1> QED BY <1>3 DEF EffectsOf, Effect

(* A turn whose text is being read has a number.                            *)
PlansTyped == PlansTypeOK /\ (at > 0 => turn > 0)

LEMMA PlansSlicedTypes ==
  ASSUME NEW list \in PlanList, NEW p, NEW s \in {"PENDING", "APPLIED", "REJECTED"}
  PROVE  Kept([list EXCEPT ![p] = s], PlanCap) \in PlanList
<1> DEFINE V == {"absent", "PENDING", "APPLIED", "REJECTED"}
           new == [list EXCEPT ![p] = s]
<1>1. new \in [Plan -> V] /\ "absent" \in V
  BY DEF PlanList
<1> HIDE DEF new, V
<1>2. Kept(new, PlanCap) \in [Plan -> V]
  BY <1>1, Sliced
<1> QED BY <1>2 DEF new, V, PlanList

LEMMA ProposeTypes ==
  ASSUME PlansTyped, NEW t \in Text, ProposePlan(t)
  PROVE  /\ plans' \in PlanList /\ effects' \in [Plan -> SUBSET Effect]
         /\ filed' \in 0..MaxPlans /\ filed + 1 \in Plan
<1>1. filed' = filed + 1 /\ filed + 1 \in 1..MaxPlans
  BY PlansAssumption DEF ProposePlan, PlansTyped, PlansTypeOK
<1>2. plans' \in PlanList
  BY PlansSlicedTypes DEF ProposePlan, PlansTyped, PlansTypeOK
<1>3. EffectsOf(t) \in SUBSET Effect
  BY Requests
<1>4. effects' \in [Plan -> SUBSET Effect]
  BY <1>3 DEF ProposePlan, PlansTyped, PlansTypeOK
<1> QED BY <1>1, <1>2, <1>4, PlansAssumption DEF Plan

LEMMA PlansTypesStep ==
  ASSUME PlansTyped, [PlansNext]_planVars
  PROVE  PlansTyped'
<1> USE PlansAssumption DEF PlansTyped, PlansTypeOK
<1>1. ASSUME NEW t \in Text, OwnerAsks(t) PROVE PlansTyped'
  <2>1. /\ plans' \in PlanList /\ effects' \in [Plan -> SUBSET Effect]
        /\ filed' \in 0..MaxPlans /\ filed + 1 \in Plan
    BY <1>1, ProposeTypes DEF OwnerAsks
  <2>2. inbox' \subseteq Plan
    BY <1>1, <2>1 DEF OwnerAsks
  <2> QED BY <1>1, <2>1, <2>2 DEF OwnerAsks, fleetVars, turnVars, backlogVars
<1>2. ASSUME NEW a \in {Orch, "worker"}, NEW s \in Script, TurnEnds(a, s) PROVE PlansTyped'
  <2>1. a \in Slug /\ turn' \in 1..MaxTurns /\ at' = 1
    BY <1>2 DEF TurnEnds, Slug
  <2> QED BY <1>2, <2>1 DEF TurnEnds, fleetVars, listVars, backlogVars
<1>3. CASE IngestPropose
  <2> DEFINE l == <<turn, lines[at]>>
  <2>1. /\ at \in 1..Len(lines) /\ at' = at + 1
        /\ UNCHANGED <<fleetVars, applied, held, turn, speaker, lines, backlogVars>>
    BY <1>3 DEF IngestPropose
  <2>2. lines \in Seq(Text) /\ lines[at] \in Text /\ turn \in 1..MaxTurns
    <3>1. lines \in Seq(Text)
      <4>1. CASE lines \in Script
        BY <4>1
      <4>2. CASE lines = <<>>
        BY <2>1, <4>2
      <4> QED BY <4>1, <4>2
    <3>2. lines[at] \in Text
      BY <2>1, <3>1
    <3> QED BY <2>1, <3>1, <3>2
  <2>3. l \in Line
    BY <2>2 DEF Line
  <2>4. CASE UNCHANGED <<listVars, thread, heard>>
    BY <2>1, <2>2, <2>4 DEF fleetVars, listVars, backlogVars
  <2>5. CASE /\ ProposePlan(lines[at]) /\ thread' = thread \cup {l}
             /\ heard' = [heard EXCEPT ![l] = @ + 1] /\ UNCHANGED inbox
    <3>1. /\ plans' \in PlanList /\ effects' \in [Plan -> SUBSET Effect]
          /\ filed' \in 0..MaxPlans
      BY <2>2, <2>5, ProposeTypes
    <3>2. thread' \subseteq Line /\ heard' \in [Line -> Nat]
      <4> HIDE DEF l
      <4> QED BY <2>3, <2>5
    <3>3. at' \in Nat /\ turn' > 0 /\ inbox' \subseteq Plan
      BY <2>1, <2>2, <2>5
    <3>4. UNCHANGED <<fleet, due, applied, held, turn, speaker, lines, backlog, ranked, asked>>
      BY <2>1 DEF fleetVars, backlogVars
    <3> QED BY <3>1, <3>2, <3>3, <3>4
  <2> QED BY <1>3, <2>4, <2>5 DEF IngestPropose
<1>4. CASE TurnSettled \/ SupervisorDies
  <2>1. at' \in {0, 1} /\ (at' > 0 => at > 0)
    BY <1>4 DEF TurnSettled, SupervisorDies
  <2> QED BY <1>4, <2>1 DEF TurnSettled, SupervisorDies, fleetVars, listVars, backlogVars
<1>5. ASSUME NEW p \in Plan, ApplyPlan(p) PROVE PlansTyped'
  <2>1. plans' \in PlanList
    BY <1>5, PlansSlicedTypes DEF ApplyPlan
  <2>2. fleet' \in [Slug -> {"none", "DRAFT", "ACTIVE", "PAUSED", "RETIRED"}]
    BY <1>5 DEF ApplyPlan, ApplyEffects
  <2>3. due' \subseteq Slug
    BY <1>5 DEF ApplyPlan, ApplyEffects, Rows
  <2>4. /\ backlog' = backlog \/ \E i \in Item : backlog' = [backlog EXCEPT ![i] = "OPEN"]
        /\ ranked' \subseteq ranked \cup Item
        /\ applied' = [applied EXCEPT ![p] = @ + 1]
    BY <1>5 DEF ApplyPlan, ApplyEffects
  <2>5. backlog' \in [Item -> {"none", "OPEN", "PROMOTED"}]
    BY <2>4
  <2>6. ranked' \subseteq Item /\ applied' \in [Plan -> Nat]
    BY <2>4
  <2> QED BY <1>5, <2>1, <2>2, <2>3, <2>5, <2>6 DEF ApplyPlan, turnVars
<1>6. ASSUME NEW p \in Plan, RejectLoads(p) PROVE PlansTyped'
  <2>1. held' \in [plan : 0..MaxPlans, list : PlanList]
    BY <1>6 DEF RejectLoads, Plan
  <2> QED BY <1>6, <2>1 DEF RejectLoads, fleetVars, listVars, turnVars, backlogVars
<1>7. CASE RejectSaves
  <2>1. plans' \in PlanList
    BY <1>7, PlansSlicedTypes DEF RejectSaves
  <2>2. held' \in [plan : 0..MaxPlans, list : PlanList]
    BY <1>7 DEF RejectSaves, NoHold, PlanList
  <2> QED BY <1>7, <2>1, <2>2 DEF RejectSaves, fleetVars, turnVars, backlogVars
<1>8. ASSUME NEW a \in Slug, ActivateAgent(a) PROVE PlansTyped'
  BY <1>8 DEF ActivateAgent, listVars, turnVars, backlogVars
<1>9. ASSUME NEW i \in Item, AddItem(i) \/ PromoteItem(i) PROVE PlansTyped'
  <2>1. /\ backlog' \in [Item -> {"none", "OPEN", "PROMOTED"}]
        /\ asked' \in [Item -> Nat] /\ UNCHANGED ranked
    <3>1. CASE AddItem(i)
      BY <3>1 DEF AddItem
    <3>2. CASE PromoteItem(i)
      BY <3>2 DEF PromoteItem
    <3> QED BY <1>9, <3>1, <3>2
  <2>2. UNCHANGED <<fleetVars, listVars, applied, held, turnVars>>
    BY <1>9 DEF AddItem, PromoteItem
  <2> QED BY <2>1, <2>2 DEF fleetVars, listVars, turnVars
<1>10. CASE UNCHANGED planVars
  BY <1>10 DEF planVars, fleetVars, listVars, turnVars, backlogVars
<1> QED
  BY <1>1, <1>2, <1>3, <1>4, <1>5, <1>6, <1>7, <1>8, <1>9, <1>10 DEF PlansNext

LEMMA PlansTypes == PlansSpec => []PlansTypeOK
<1>1. PlansInit => PlansTyped
  BY PlansAssumption DEF PlansInit, PlansTyped, PlansTypeOK, PlanList, NoHold, Slug
<1>2. PlansTyped => PlansTypeOK
  BY DEF PlansTyped
<1> QED BY <1>1, <1>2, PlansTypesStep, PTL DEF PlansSpec

(* openFanIn has room for what it loaded the list for.                       *)
FanInTyped == FanInTypeOK /\ (loaded.busy => opened < MaxFanIns)

LEMMA FanInTypesStep ==
  ASSUME FanInTyped, [FanInNext]_fanInVars
  PROVE  FanInTyped'
<1> USE FanInAssumption DEF FanInTyped, FanInTypeOK
<1> DEFINE V == {"absent", "REVIEW", "APPROVED"}
<1>1. ASSUME NEW list \in States, NEW f, NEW s \in V
      PROVE  Kept([list EXCEPT ![f] = s], FanInCap) \in States
  <2> DEFINE new == [list EXCEPT ![f] = s]
  <2>1. new \in [Bundle -> V] /\ "absent" \in V
    BY DEF States
  <2> HIDE DEF new, V
  <2>2. Kept(new, FanInCap) \in [Bundle -> V]
    BY <2>1, Sliced
  <2> QED BY <2>2 DEF new, V, States
<1>2. CASE OpenLoads
  BY <1>2 DEF OpenLoads
<1>3. ASSUME NEW cs \in SUBSET Path, OpenSaves(cs) PROVE FanInTyped'
  <2>1. fanIns' \in States
    BY <1>1, <1>3 DEF OpenSaves
  <2>2. selected' \in Choice /\ changes' \in Choice
    BY <1>3 DEF OpenSaves, Choice
  <2>3. loaded' \in [busy : BOOLEAN, states : States, choice : Choice] /\ ~loaded'.busy
    BY <1>3 DEF OpenSaves, NotLoaded, States, Choice
  <2> QED BY <1>3, <2>1, <2>2, <2>3 DEF OpenSaves
<1>4. ASSUME NEW f \in Bundle, ApproveFanIn(f) PROVE FanInTyped'
  <2>1. fanIns' \in States
    BY <1>1, <1>4 DEF ApproveFanIn
  <2> QED BY <1>4, <2>1 DEF ApproveFanIn
<1>5. ASSUME NEW f \in Bundle, NEW paths \in SUBSET Path, SetSelection(f, paths) PROVE FanInTyped'
  <2>1. selected' \in Choice
    BY <1>5 DEF SetSelection, Choice
  <2> QED BY <1>5, <2>1 DEF SetSelection
<1>6. CASE UNCHANGED fanInVars
  BY <1>6 DEF fanInVars
<1> QED BY <1>2, <1>3, <1>4, <1>5, <1>6 DEF FanInNext

LEMMA FanInTypes == FanInSpec => []FanInTypeOK
<1>1. FanInInit => FanInTyped
  BY FanInAssumption DEF FanInInit, FanInTyped, FanInTypeOK, NotLoaded, States, Choice
<1>2. FanInTyped => FanInTypeOK
  BY DEF FanInTyped
<1> QED BY <1>1, <1>2, FanInTypesStep, PTL DEF FanInSpec

(* What each fan-in's approvals are bounded by: an opening undoes one at     *)
(* most, which leaves room for one more when it is back under review.       *)
Undone ==
  /\ FanInTyped
  /\ \A f \in Bundle : f > opened => /\ fanIns[f] = "absent" /\ approved[f] = 0
                                     /\ loaded.busy => loaded.states[f] = "absent"
  /\ \A f \in Bundle : f <= opened => approved[f] <= 1 + (opened - f)
  /\ \A f \in Bundle : fanIns[f] = "REVIEW" => approved[f] <= opened - f

(* A save gives a fan-in the state that was loaded, or cuts it off.          *)
LEMMA FanInsSaved ==
  ASSUME FanInTyped, NEW list \in States, NEW f \in Bundle, NEW s \in {"REVIEW", "APPROVED"},
         fanIns' = Kept([list EXCEPT ![f] = s], FanInCap)
  PROVE  \A h \in Bundle : fanIns'[h] \in {IF h = f THEN s ELSE list[h], "absent"}
<1> DEFINE new == [list EXCEPT ![f] = s]
           V == {"absent", "REVIEW", "APPROVED"}
<1>1. new \in [Bundle -> V] /\ "absent" \in V
  BY DEF States
<1>2. \A h \in Bundle : new[h] = IF h = f THEN s ELSE list[h]
  BY DEF States
<1> HIDE DEF new, V
<1>3. \A h \in Bundle : fanIns'[h] \in {new[h], "absent"}
  BY <1>1, Sliced DEF new
<1> QED BY <1>2, <1>3

LEMMA UndoneStep ==
  ASSUME Undone, [FanInNext]_fanInVars
  PROVE  Undone'
<1>1. /\ opened \in Nat /\ Bundle \subseteq Nat /\ approved \in [Bundle -> Nat]
      /\ FanInTyped'
  BY FanInAssumption, FanInTypesStep DEF Undone, FanInTyped, FanInTypeOK, Bundle
<1>2. CASE OpenLoads
  BY <1>1, <1>2 DEF OpenLoads, Undone
<1>3. ASSUME NEW cs \in SUBSET Path, OpenSaves(cs) PROVE Undone'
  <2>1. /\ opened + 1 \in Bundle /\ loaded.states \in States /\ loaded.busy
        /\ opened' = opened + 1 /\ ~loaded'.busy /\ UNCHANGED approved
    BY <1>1, <1>3, FanInAssumption
    DEF OpenSaves, NotLoaded, Undone, FanInTyped, FanInTypeOK, Bundle
  <2>2. \A h \in Bundle :
          fanIns'[h] \in {IF h = opened + 1 THEN "REVIEW" ELSE loaded.states[h], "absent"}
    BY <1>3, <2>1, FanInsSaved DEF OpenSaves, Undone
  <2>3. ASSUME NEW f \in Bundle
        PROVE  /\ f > opened' => fanIns'[f] = "absent" /\ approved'[f] = 0
               /\ f <= opened' => approved'[f] <= 1 + (opened' - f)
               /\ fanIns'[f] = "REVIEW" => approved'[f] <= opened' - f
    <3>1. f \in Nat /\ approved[f] \in Nat /\ approved'[f] = approved[f]
      BY <1>1, <2>1
    <3>2. CASE f <= opened
      <4>1. approved[f] <= 1 + (opened - f)
        BY <3>2 DEF Undone
      <4> QED BY <1>1, <2>1, <3>1, <3>2, <4>1
    <3>3. CASE f > opened
      <4>1. approved[f] = 0 /\ loaded.states[f] = "absent"
        BY <2>1, <3>3 DEF Undone
      <4>2. fanIns'[f] # "absent" => f = opened + 1
        BY <2>2, <4>1
      <4> QED BY <1>1, <2>1, <3>1, <3>3, <4>1, <4>2
    <3> QED BY <1>1, <3>1, <3>2, <3>3
  <2> QED BY <1>1, <2>1, <2>3 DEF Undone
<1>4. ASSUME NEW f \in Bundle, ApproveFanIn(f) PROVE Undone'
  <2>1. /\ fanIns[f] = "REVIEW" /\ approved' = [approved EXCEPT ![f] = @ + 1]
        /\ UNCHANGED <<opened, loaded>> /\ fanIns \in States
    BY <1>4 DEF ApproveFanIn, Approvable, Undone, FanInTyped, FanInTypeOK
  <2>2. \A h \in Bundle : fanIns'[h] \in {IF h = f THEN "APPROVED" ELSE fanIns[h], "absent"}
    BY <1>4, <2>1, FanInsSaved DEF ApproveFanIn, Undone
  <2>3. f <= opened /\ approved[f] <= opened - f
    BY <1>1, <2>1 DEF Undone
  <2>4. ASSUME NEW h \in Bundle
        PROVE  /\ h > opened' => /\ fanIns'[h] = "absent" /\ approved'[h] = 0
                                 /\ loaded'.busy => loaded'.states[h] = "absent"
               /\ h <= opened' => approved'[h] <= 1 + (opened' - h)
               /\ fanIns'[h] = "REVIEW" => approved'[h] <= opened' - h
    <3>1. CASE h = f
      <4>1. approved'[h] = approved[f] + 1 /\ fanIns'[h] # "REVIEW" /\ approved[f] \in Nat
        BY <1>1, <2>1, <2>2, <3>1
      <4> QED BY <1>1, <2>1, <2>3, <3>1, <4>1
    <3>2. CASE h # f
      <4>1. approved'[h] = approved[h] /\ fanIns'[h] \in {fanIns[h], "absent"}
        BY <1>1, <2>1, <2>2, <3>2
      <4> QED BY <2>1, <4>1 DEF Undone
    <3> QED BY <3>1, <3>2
  <2> QED BY <1>1, <2>4 DEF Undone
<1>5. ASSUME NEW f \in Bundle, NEW paths \in SUBSET Path, SetSelection(f, paths) PROVE Undone'
  BY <1>1, <1>5 DEF SetSelection, Undone
<1>6. CASE UNCHANGED fanInVars
  BY <1>1, <1>6 DEF fanInVars, Undone
<1> QED BY <1>2, <1>3, <1>4, <1>5, <1>6 DEF FanInNext

(* fanin.ts:71-73 and 140-153, for every list and every number of fan-ins,   *)
(* whatever the owner decides while the orchestrator opens one: a fan-in is *)
(* approved at most once more than fan-ins were opened after it.            *)
THEOREM OpeningsUndoOneApproval == FanInSpec => []ApprovedOncePerUndoing
<1>1. FanInInit => Undone
  <2> SUFFICES ASSUME FanInInit PROVE Undone
    OBVIOUS
  <2>1. FanInTyped
    BY FanInAssumption DEF FanInInit, FanInTyped, FanInTypeOK, NotLoaded, States, Choice
  <2>2. \A f \in Bundle : f \in Nat /\ f > opened
    BY DEF FanInInit, Bundle
  <2> QED BY <2>1, <2>2 DEF FanInInit, Undone, NotLoaded
<1>2. Undone => ApprovedOncePerUndoing
  <2> SUFFICES ASSUME Undone, NEW f \in Bundle
               PROVE  approved[f] <= 1 + Cardinality((f + 1)..opened)
    BY DEF ApprovedOncePerUndoing
  <2>1. f \in Nat /\ opened \in Nat /\ approved[f] \in Nat
    BY FanInAssumption DEF Undone, FanInTyped, FanInTypeOK, Bundle
  <2>2. Cardinality((f + 1)..opened) = IF f + 1 > opened THEN 0 ELSE opened - (f + 1) + 1
    BY <2>1, FS_Interval
  <2>3. CASE f > opened
    BY <2>1, <2>2, <2>3 DEF Undone
  <2>4. CASE f <= opened
    <3>1. approved[f] <= 1 + (opened - f)
      BY <2>4 DEF Undone
    <3> QED BY <2>1, <2>2, <2>4, <3>1
  <2> QED BY <2>1, <2>3, <2>4
<1> QED BY <1>1, <1>2, UndoneStep, PTL DEF FanInSpec

LEMMA JoinTypesStep ==
  ASSUME JoinTypeOK, [JoinNext]_joinVars
  PROVE  JoinTypeOK'
<1> USE JoinAssumption DEF JoinTypeOK
<1> DEFINE V == {"absent", "fresh", "used"}
<1>1. ASSUME NEW g, NEW s \in V PROVE Kept([grants EXCEPT ![g] = s], GrantCap) \in [Grant -> V]
  <2> DEFINE new == [grants EXCEPT ![g] = s]
  <2>1. new \in [Grant -> V] /\ "absent" \in V
    OBVIOUS
  <2> HIDE DEF new, V
  <2>2. Kept(new, GrantCap) \in [Grant -> V]
    BY <2>1, Sliced
  <2> QED BY <2>2 DEF new
<1>2. CASE GrantJoin
  <2>1. grants' \in [Grant -> V]
    BY <1>1, <1>2 DEF GrantJoin
  <2>2. granted' \in 0..MaxGrants /\ UNCHANGED <<expired, delivered, answering>>
    BY <1>2 DEF GrantJoin
  <2> QED BY <2>1, <2>2
<1>3. ASSUME NEW g \in Grant, GrantExpires(g) \/ SubmitDelivers(g) PROVE JoinTypeOK'
  <2>1. g \in 0..MaxGrants
    BY DEF Grant
  <2>2. CASE GrantExpires(g)
    BY <2>2 DEF GrantExpires
  <2>3. CASE SubmitDelivers(g)
    <3>1. delivered' \in [Grant -> Nat] /\ answering' = g /\ UNCHANGED <<grants, granted, expired>>
      BY <2>3 DEF SubmitDelivers
    <3> QED BY <2>1, <3>1
  <2> QED BY <1>3, <2>2, <2>3
<1>4. CASE SubmitSaves
  <2>1. grants' \in [Grant -> V]
    BY <1>1, <1>4 DEF SubmitSaves, Spend
  <2> QED BY <1>4, <2>1 DEF SubmitSaves
<1>5. CASE UNCHANGED joinVars
  BY <1>5 DEF joinVars
<1> QED BY <1>2, <1>3, <1>4, <1>5 DEF JoinNext

LEMMA JoinTypes == JoinSpec => []JoinTypeOK
<1>1. JoinInit => JoinTypeOK
  BY JoinAssumption DEF JoinInit, JoinTypeOK
<1> QED BY <1>1, JoinTypesStep, PTL DEF JoinSpec

LEMMA MemoryTypes == MemorySpec => []MemoryTypeOK
<1>1. MemoryInit => MemoryTypeOK
  BY DEF MemoryInit, MemoryTypeOK
<1>2. MemoryTypeOK /\ [MemoryNext]_memoryVars => MemoryTypeOK'
  BY DEF MemoryTypeOK, MemoryNext, memoryVars, ProposePromotion, PendingPromotion,
         ApprovePromotion, RejectPromotion
<1> QED BY <1>1, <1>2, PTL DEF MemorySpec

LEMMA VerdictsTypes == VerdictsSpec => []VerdictsTypeOK
<1> USE VerdictsAssumption DEF VerdictsTypeOK
<1>1. VerdictsInit => VerdictsTypeOK
  BY DEF VerdictsInit
<1>2. VerdictsTypeOK /\ [VerdictsNext]_verdictVars => VerdictsTypeOK'
  <2> SUFFICES ASSUME VerdictsTypeOK, [VerdictsNext]_verdictVars PROVE VerdictsTypeOK'
    OBVIOUS
  <2>1. CASE TimePasses
    BY <2>1 DEF TimePasses
  <2>2. ASSUME NEW q \in Question, AskQuestion(q) \/ Answer(q) \/ Withdraw(q) PROVE VerdictsTypeOK'
    BY <2>2 DEF AskQuestion, Answer, Withdraw
  <2>3. CASE OpenRunFor
    BY <2>3 DEF OpenRunFor
  <2>4. ASSUME NEW qs \in SUBSET Question, AssembleCapsule(qs) PROVE VerdictsTypeOK'
    BY <2>4 DEF AssembleCapsule
  <2>5. ASSUME NEW completed \in BOOLEAN, Settle(completed) PROVE VerdictsTypeOK'
    BY <2>5 DEF Settle, Owed
  <2>6. CASE UNCHANGED verdictVars
    BY <2>6 DEF verdictVars
  <2> QED BY <2>1, <2>2, <2>3, <2>4, <2>5, <2>6 DEF VerdictsNext
<1> QED BY <1>1, <1>2, PTL DEF VerdictsSpec

LEMMA SeedingTypesStep ==
  ASSUME SeedingTypeOK, [SeedingNext]_seedVars
  PROVE  SeedingTypeOK'
<1> USE SeedingAssumption DEF SeedingTypeOK
<1>1. ASSUME NEW r \in Roster, Import(r) PROVE SeedingTypeOK'
  <2>1. r.open \in Nat /\ Newcomers(r) \subseteq Person
    BY DEF Rosters, Newcomers
  <2>2. imports' \in 0..MaxImports /\ vouched' \subseteq Person /\ UNCHANGED decided
    BY <1>1 DEF Import, Rosters
  <2>3. hired' \in [Person -> {"none", "DRAFT", "ACTIVE", "PAUSED", "RETIRED"}]
    BY <1>1 DEF Import
  <2>4. eldest' \subseteq Person /\ rooms' \in [Division -> SUBSET Person]
    BY <1>1, <2>1 DEF Import, Elders
  <2>5. raised' \in [Person -> Nat]
    <3>1. CASE UNCHANGED raised
      BY <3>1
    <3>2. CASE \E p \in Person : raised' = [raised EXCEPT ![p] = @ + r.open]
      BY <2>1, <3>2
    <3>3. \/ UNCHANGED raised
          \/ \E p \in Person : raised' = [raised EXCEPT ![p] = @ + r.open]
      BY <1>1, <2>4 DEF Import
    <3> QED BY <3>1, <3>2, <3>3
  <2> QED BY <2>2, <2>3, <2>4, <2>5
<1>2. CASE ProcessStarts
  BY <1>2 DEF ProcessStarts, Elders
<1>3. ASSUME NEW p \in Person, PlanCreates(p) PROVE SeedingTypeOK'
  BY <1>3 DEF PlanCreates, Elders
<1>4. ASSUME NEW p \in Person, NEW s \in {"ACTIVE", "PAUSED", "RETIRED"}, HumanDecides(p, s)
      PROVE  SeedingTypeOK'
  BY <1>4 DEF HumanDecides
<1>5. CASE UNCHANGED seedVars
  BY <1>5 DEF seedVars
<1> QED BY <1>1, <1>2, <1>3, <1>4, <1>5 DEF SeedingNext

LEMMA SeedingTypes == SeedingSpec => []SeedingTypeOK
<1>1. SeedingInit => SeedingTypeOK
  BY SeedingAssumption DEF SeedingInit, SeedingTypeOK
<1> QED BY <1>1, SeedingTypesStep, PTL DEF SeedingSpec

-----------------------------------------------------------------------------
(* The desk *)

(* A step at the desk is one in a tray, and leaves every other tray alone.   *)
LEMMA Trays ==
  ASSUME [DeskNext]_deskVars
  PROVE  /\ [PlansNext]_planVars /\ [LedgerNext]_ledgerVars /\ [FanInNext]_fanInVars
         /\ [JoinNext]_joinVars /\ [MemoryNext]_memoryVars /\ [VerdictsNext]_verdictVars
         /\ [SeedingNext]_seedVars
<1>1. CASE OnPlans
  BY <1>1 DEF OnPlans
<1>2. CASE OnLedger
  BY <1>2 DEF OnLedger
<1>3. CASE OnFanIns
  BY <1>3 DEF OnFanIns
<1>4. CASE OnGrants
  BY <1>4 DEF OnGrants
<1>5. CASE OnNotes
  BY <1>5 DEF OnNotes
<1>6. CASE OnVerdicts
  BY <1>6 DEF OnVerdicts
<1>7. CASE OnRoster
  BY <1>7 DEF OnRoster
<1>8. CASE UNCHANGED deskVars
  BY <1>8 DEF deskVars
<1> QED BY <1>1, <1>2, <1>3, <1>4, <1>5, <1>6, <1>7, <1>8 DEF DeskNext

LEMMA EveryTray ==
  DeskSpec => /\ PlansSpec /\ LedgerSpec /\ FanInSpec /\ JoinSpec
              /\ MemorySpec /\ VerdictsSpec /\ SeedingSpec
<1>1. DeskInit => /\ PlansInit /\ LedgerInit /\ FanInInit /\ JoinInit
                  /\ MemoryInit /\ VerdictsInit /\ SeedingInit
  BY DEF DeskInit
<1>2. [DeskNext]_deskVars =>
        /\ [PlansNext]_planVars /\ [LedgerNext]_ledgerVars /\ [FanInNext]_fanInVars
        /\ [JoinNext]_joinVars /\ [MemoryNext]_memoryVars /\ [VerdictsNext]_verdictVars
        /\ [SeedingNext]_seedVars
  BY Trays
<1> QED BY <1>1, <1>2, PTL
  DEF DeskSpec, PlansSpec, LedgerSpec, FanInSpec, JoinSpec, MemorySpec, VerdictsSpec, SeedingSpec

(* Every list, account, note and verdict keeps its type, in every instance   *)
(* and with every rarity: a list that is written back over another, or cut  *)
(* off, is still a list of entries in states the code knows.                *)
THEOREM DeskTypes == DeskSpec => []DeskTypeOK
<1> DEFINE Chosen == tray \in {"plans", "ledger", "fanin", "join", "memory", "verdicts", "seeding"}
<1>1. DeskSpec => []Chosen
  <2>1. DeskInit => Chosen
    BY DEF DeskInit
  <2>2. Chosen /\ [DeskNext]_deskVars => Chosen'
    BY DEF DeskNext, OnPlans, OnLedger, OnFanIns, OnGrants, OnNotes, OnVerdicts, OnRoster, deskVars
  <2> QED BY <2>1, <2>2, PTL DEF DeskSpec
<1>2. LedgerInv => LedgerTypeOK
  BY DEF LedgerInv
<1>3. DeskSpec => [](/\ PlansTypeOK /\ LedgerTypeOK /\ FanInTypeOK /\ JoinTypeOK
                    /\ MemoryTypeOK /\ VerdictsTypeOK /\ SeedingTypeOK /\ Chosen)
  BY <1>1, <1>2, EveryTray, PlansTypes, LedgerInvariant, FanInTypes, JoinTypes, MemoryTypes,
     VerdictsTypes, SeedingTypes, PTL
<1>4. (/\ PlansTypeOK /\ LedgerTypeOK /\ FanInTypeOK /\ JoinTypeOK
       /\ MemoryTypeOK /\ VerdictsTypeOK /\ SeedingTypeOK /\ Chosen) => DeskTypeOK
  BY DEF DeskTypeOK
<1> QED BY <1>3, <1>4, PTL
=============================================================================
