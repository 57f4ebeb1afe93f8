---------------------------- MODULE OneShotProofs ----------------------------
(***************************************************************************)
(* Proofs about the two trays where a human decides once: Plans and Join,  *)
(* for every set of requests and grants, every script of turns and every   *)
(* length of the lists.  Each theorem assumes away the one interference    *)
(* that its list does not survive.                                         *)
(***************************************************************************)
EXTENDS Plans, Join, FiniteSetTheorems, TLAPS

-----------------------------------------------------------------------------
(* What slicing a list does to its entries (Lists) *)

(* Slicing leaves an entry as it is or cuts it off.                        *)
LEMMA KeptEntries ==
  ASSUME NEW list, NEW cap
  PROVE  /\ DOMAIN Kept(list, cap) = DOMAIN list
         /\ \A i \in DOMAIN list : Kept(list, cap)[i] \in {list[i], "absent"}
BY DEF Kept

(* A slice has the type of its list.                                       *)
LEMMA Sliced ==
  ASSUME NEW D, NEW V, "absent" \in V, NEW list \in [D -> V], NEW cap
  PROVE  /\ Kept(list, cap) \in [D -> V]
         /\ \A i \in D : Kept(list, cap)[i] \in {list[i], "absent"}
<1> DEFINE kept == Kept(list, cap)
<1>1. DOMAIN kept = D /\ \A i \in D : kept[i] \in {list[i], "absent"}
  BY KeptEntries
<1>2. kept = [i \in D |-> kept[i]]
  BY DEF Kept
<1> HIDE DEF kept
<1>3. kept \in [D -> V] /\ \A i \in D : kept[i] \in {list[i], "absent"}
  BY <1>1, <1>2
<1> QED BY <1>3 DEF kept

(* One element exchanged for another: a set does not grow.                  *)
LEMMA Exchange ==
  ASSUME NEW S, IsFiniteSet(S), NEW x \in S, NEW y, NEW T \in SUBSET ((S \ {x}) \cup {y})
  PROVE  Cardinality(T) \in Nat /\ Cardinality(T) <= Cardinality(S)
<1> DEFINE R == S \ {x}
           U == R \cup {y}
<1>1. Cardinality(S) \in Nat
  BY FS_CardinalityType
<1>2. IsFiniteSet(R) /\ Cardinality(R) = Cardinality(S) - 1
  BY FS_RemoveElement
<1>3. IsFiniteSet(U) /\ Cardinality(U) = IF y \in R THEN Cardinality(R) ELSE Cardinality(R) + 1
  <2> HIDE DEF R
  <2> QED BY <1>2, FS_AddElement
<1>4. Cardinality(U) <= Cardinality(S)
  <2> HIDE DEF U, R
  <2> QED BY <1>1, <1>2, <1>3
<1>5. IsFiniteSet(T) /\ Cardinality(T) <= Cardinality(U)
  <2>1. T \in SUBSET U
    OBVIOUS
  <2> HIDE DEF U
  <2> QED BY <1>3, <2>1, FS_Subset
<1>6. Cardinality(T) \in Nat /\ Cardinality(U) \in Nat
  <2> HIDE DEF U
  <2> QED BY <1>3, <1>5, FS_CardinalityType
<1> QED
  <2> HIDE DEF U
  <2> QED BY <1>1, <1>4, <1>5, <1>6

(* The newest entry is never cut off.                                      *)
LEMMA KeptLast ==
  ASSUME NEW list, NEW cap \in Nat \ {0}, NEW last \in DOMAIN list,
         DOMAIN list \subseteq Nat, \A j \in DOMAIN list : j > last => list[j] = "absent"
  PROVE  Kept(list, cap)[last] = list[last]
<1>1. Newer(list, last) = {}
  BY DEF Newer, Present
<1>2. Cardinality(Newer(list, last)) < cap
  BY <1>1, FS_EmptySet
<1> QED BY <1>2 DEF Kept

(* A list with room for one more entry than it has loses none to a slice    *)
(* when one is appended.                                                    *)
LEMMA KeptAll ==
  ASSUME NEW list, NEW cap \in Nat, NEW i \in DOMAIN list, NEW last \in DOMAIN list, NEW new,
         DOMAIN new = DOMAIN list, \A j \in DOMAIN list \ {last} : new[j] = list[j],
         IsFiniteSet(DOMAIN list), DOMAIN list \subseteq Nat,
         Cardinality(Present(list)) < cap, \A j \in Present(list) : j < last
  PROVE  Kept(new, cap)[i] = new[i]
<1>1. Present(new) \subseteq Present(list) \cup {last}
  BY DEF Present
<1>2. IsFiniteSet(Present(list)) /\ Cardinality(Present(list)) \in Nat
  BY FS_Subset, FS_CardinalityType DEF Present
<1>3. CASE i = last
  <2>1. last \in Nat /\ \A j \in Present(list) \cup {last} : j \in Nat /\ j <= last
    BY DEF Present
  <2>2. Newer(new, i) = {}
    BY <1>1, <1>3, <2>1 DEF Newer
  <2>3. Cardinality(Newer(new, i)) = 0
    BY <2>2, FS_EmptySet
  <2> QED BY <1>2, <2>3 DEF Kept
<1>4. CASE i # last /\ new[i] = "absent"
  BY <1>4 DEF Kept
<1>5. CASE i # last /\ new[i] # "absent"
  <2>1. i \in Nat /\ i \in Present(list) /\ i < last
    BY <1>5 DEF Present
  <2>2. Newer(new, i) \subseteq (Present(list) \ {i}) \cup {last}
    BY <1>1, <2>1 DEF Newer
  <2>3. Cardinality(Newer(new, i)) \in Nat /\ Cardinality(Newer(new, i)) <= Cardinality(Present(list))
    BY <1>2, <2>1, <2>2, Exchange
  <2>4. Cardinality(Newer(new, i)) < cap
    BY <1>2, <2>3
  <2> QED BY <2>4 DEF Kept
<1> QED BY <1>3, <1>4, <1>5

-----------------------------------------------------------------------------
(* Plans: nothing is filed in the middle of a rejection while the list is full *)

(* The part of the type that plans depend on.                               *)
PlanTypes ==
  /\ plans \in PlanList /\ filed \in 0..MaxPlans /\ applied \in [Plan -> Nat]
  /\ held \in [plan : 0..MaxPlans, list : PlanList]

(* What the list says of a plan agrees with how often it was applied.       *)
Agreement ==
  /\ \A p \in Plan : p > filed => plans[p] = "absent" /\ applied[p] = 0
  /\ \A p \in Plan : plans[p] \in {"PENDING", "REJECTED"} => applied[p] = 0
  /\ \A p \in Plan : plans[p] = "APPLIED" => applied[p] = 1
  /\ \A p \in Plan : applied[p] <= 1

(* What rejectPlan is holding is the list but for plans filed since; and the *)
(* plan it rejects is still undecided.                                      *)
HeldList ==
  held # NoHold =>
    /\ held.plan \in Plan /\ held.plan <= filed
    /\ plans[held.plan] = "PENDING" /\ held.list[held.plan] = "PENDING"
    /\ \A p \in Plan : \/ held.list[p] = plans[p]
                       \/ held.list[p] = "absent" /\ plans[p] = "PENDING"

PlansInv == PlanTypes /\ Agreement /\ HeldList

-----------------------------------------------------------------------------
(* Stages *)

PlanStages ==
  \A p \in Plan :
    PlanStage(p) = IF p > filed THEN "none"
                   ELSE IF applied[p] = 1 THEN "done"
                   ELSE IF plans[p] = "PENDING" THEN "open" ELSE "dropped"

LEMMA StageOfPlan == PlansInv => PlanStages
<1> SUFFICES ASSUME PlansInv, NEW p \in Plan
             PROVE  PlanStage(p) = IF p > filed THEN "none"
                                   ELSE IF applied[p] = 1 THEN "done"
                                   ELSE IF plans[p] = "PENDING" THEN "open" ELSE "dropped"
  BY DEF PlanStages
<1>1. filed \in Nat /\ p \in Nat /\ applied[p] \in Nat /\ applied[p] <= 1
  BY PlansAssumption DEF PlansInv, PlanTypes, Agreement, Plan
<1>2. plans[p] \in {"absent", "PENDING", "APPLIED", "REJECTED"}
  BY DEF PlansInv, PlanTypes, PlanList
<1>3. plans[p] = "APPLIED" => applied[p] = 1
  BY DEF PlansInv, Agreement
<1>4. plans[p] \in {"PENDING", "REJECTED"} => applied[p] = 0
  BY DEF PlansInv, Agreement
<1> QED BY <1>1, <1>2, <1>3, <1>4 DEF PlanStage

LEMMA StageOfPlanLater == PlansInv' => PlanStages'
BY StageOfPlan, PTL

-----------------------------------------------------------------------------
(* The list *)

(* What a save leaves of a list of plans.                                   *)
LEMMA PlansSliced ==
  ASSUME NEW list \in PlanList, plans' = Kept(list, PlanCap)
  PROVE  plans' \in PlanList /\ \A q \in Plan : plans'[q] \in {list[q], "absent"}
<1> DEFINE V == {"absent", "PENDING", "APPLIED", "REJECTED"}
<1>1. "absent" \in V /\ list \in [Plan -> V]
  BY DEF PlanList
<1>2. plans' \in [Plan -> V] /\ \A q \in Plan : plans'[q] \in {list[q], "absent"}
  <2> HIDE DEF V
  <2> QED BY <1>1, Sliced
<1> QED BY <1>2 DEF PlanList

(* A plan that is filed is undecided, and no other plan changes but those    *)
(* that are cut off; none is while rejectPlan holds the list.               *)
LEMMA PlansGrown ==
  ASSUME "evict" \notin Rare, PlansInv, NEW t, ProposePlan(t)
  PROVE  /\ filed + 1 \in Plan /\ filed' = filed + 1 /\ plans' \in PlanList
         /\ plans'[filed + 1] = "PENDING"
         /\ \A q \in Plan \ {filed + 1} : plans'[q] \in {plans[q], "absent"}
         /\ held # NoHold => \A q \in Plan \ {filed + 1} : plans'[q] = plans[q]
<1> DEFINE n == filed + 1
           new == [plans EXCEPT ![n] = "PENDING"]
<1>1. n \in Plan /\ filed' = n /\ filed \in Nat
  BY PlansAssumption DEF PlansInv, PlanTypes, ProposePlan, Plan
<1>2. plans \in PlanList /\ new \in PlanList /\ DOMAIN new = Plan
      /\ \A q \in Plan : new[q] = IF q = n THEN "PENDING" ELSE plans[q]
  BY <1>1 DEF PlansInv, PlanTypes, PlanList
<1>3. \A q \in Plan : q > n => new[q] = "absent"
  BY <1>1, <1>2 DEF PlansInv, Agreement, Plan
<1>4. plans' = Kept(new, PlanCap)
  BY <1>1 DEF ProposePlan
<1>5. plans' \in PlanList /\ \A q \in Plan : plans'[q] \in {IF q = n THEN "PENDING" ELSE plans[q], "absent"}
  <2> HIDE DEF new, n
  <2> QED BY <1>2, <1>4, PlansSliced
<1>6. plans'[n] = "PENDING"
  <2> HIDE DEF new, n
  <2> QED BY <1>1, <1>2, <1>3, <1>4, KeptLast, PlansAssumption DEF Plan
<1>7. ASSUME held # NoHold, NEW q \in Plan \ {n} PROVE plans'[q] = plans[q]
  <2>1. Cardinality(Present(plans)) < PlanCap
    BY <1>7 DEF ProposePlan, Safe
  <2>2. IsFiniteSet(Plan) /\ Plan \subseteq Nat /\ DOMAIN plans = Plan
    BY <1>2, FS_Interval, PlansAssumption DEF Plan, PlanList
  <2>3. \A j \in Present(plans) : j < n
    BY <1>1, <1>2 DEF Present, PlansInv, Agreement, Plan, PlanList
  <2>4. Kept(new, PlanCap)[q] = new[q]
    <3>1. PlanCap \in Nat /\ DOMAIN new = DOMAIN plans
          /\ \A j \in DOMAIN plans \ {n} : new[j] = plans[j]
      BY <1>2, <2>2, PlansAssumption
    <3>2. q \in DOMAIN plans /\ n \in DOMAIN plans
      BY <1>1, <2>2
    <3>3. IsFiniteSet(DOMAIN plans) /\ DOMAIN plans \subseteq Nat
      BY <2>2
    <3> HIDE DEF n, new
    <3> QED BY <2>1, <2>3, <3>1, <3>2, <3>3, KeptAll
  <2> QED BY <1>2, <1>4, <1>7, <2>4
<1> HIDE DEF new, n
<1>8. \A q \in Plan \ {n} : plans'[q] \in {plans[q], "absent"}
  BY <1>5
<1> QED BY <1>1, <1>5, <1>6, <1>7, <1>8 DEF n

-----------------------------------------------------------------------------
(* The steps *)

(* Filing a plan, whoever files it.                                        *)
LEMMA Filing ==
  ASSUME "evict" \notin Rare, PlansInv, NEW t, ProposePlan(t), UNCHANGED <<applied, held>>
  PROVE  PlansInv'
<1> DEFINE n == filed + 1
<1>1. /\ n \in Plan /\ filed' = n /\ plans' \in PlanList /\ plans'[n] = "PENDING"
      /\ \A q \in Plan \ {n} : plans'[q] \in {plans[q], "absent"}
      /\ held # NoHold => \A q \in Plan \ {n} : plans'[q] = plans[q]
  BY PlansGrown
<1>2. filed \in Nat /\ n \in Nat /\ filed \in 0..MaxPlans
  BY DEF PlansInv, PlanTypes
<1>3. PlanTypes'
  BY <1>1 DEF PlansInv, PlanTypes, Plan
<1>4. Agreement'
  <2>1. applied[n] = 0
    BY <1>1, <1>2 DEF PlansInv, Agreement
  <2>2. \A p \in Plan : p > filed' => plans'[p] = "absent" /\ applied'[p] = 0
    BY <1>1, <1>2 DEF PlansInv, Agreement, Plan
  <2>3. \A p \in Plan : /\ plans'[p] \in {"PENDING", "REJECTED"} => applied'[p] = 0
                        /\ plans'[p] = "APPLIED" => applied'[p] = 1
                        /\ applied'[p] <= 1
    BY <1>1, <2>1 DEF PlansInv, Agreement
  <2> QED BY <2>2, <2>3 DEF Agreement
<1>5. HeldList'
  <2> SUFFICES ASSUME held # NoHold PROVE HeldList'
    BY DEF HeldList
  <2>1. /\ held.plan \in Plan /\ held.plan <= filed
        /\ plans[held.plan] = "PENDING" /\ held.list[held.plan] = "PENDING"
        /\ \A p \in Plan : \/ held.list[p] = plans[p]
                           \/ held.list[p] = "absent" /\ plans[p] = "PENDING"
    BY DEF PlansInv, HeldList
  <2>2. held.plan # n /\ held.plan <= filed'
    BY <1>1, <1>2, <2>1 DEF Plan
  <2>3. plans[n] = "absent"
    BY <1>1, <1>2 DEF PlansInv, Agreement
  <2>4. plans'[held.plan] = "PENDING"
    BY <1>1, <2>1, <2>2
  <2>5. \A p \in Plan : \/ held.list[p] = plans'[p]
                        \/ held.list[p] = "absent" /\ plans'[p] = "PENDING"
    BY <1>1, <2>1, <2>3
  <2> QED BY <2>1, <2>2, <2>4, <2>5 DEF HeldList
<1> QED BY <1>3, <1>4, <1>5 DEF PlansInv

(* applyPlan                                                               *)
LEMMA Applying ==
  ASSUME PlansInv, NEW p \in Plan, ApplyPlan(p)
  PROVE  /\ PlansInv' /\ UNCHANGED filed
         /\ p <= filed /\ plans[p] = "PENDING" /\ applied[p] = 0 /\ applied'[p] = 1
         /\ \A q \in Plan \ {p} : plans'[q] \in {plans[q], "absent"} /\ applied'[q] = applied[q]
<1>1. /\ held = NoHold /\ plans[p] = "PENDING" /\ UNCHANGED <<filed, held>>
      /\ applied' = [applied EXCEPT ![p] = @ + 1]
      /\ plans' = Kept([plans EXCEPT ![p] = "APPLIED"], PlanCap)
  BY DEF ApplyPlan, ApplyEffects, Pending
<1>2. /\ plans' \in PlanList
      /\ \A q \in Plan : plans'[q] \in {IF q = p THEN "APPLIED" ELSE plans[q], "absent"}
  <2> DEFINE new == [plans EXCEPT ![p] = "APPLIED"]
  <2>1. new \in PlanList /\ \A q \in Plan : new[q] = IF q = p THEN "APPLIED" ELSE plans[q]
    BY DEF PlansInv, PlanTypes, PlanList
  <2>2. plans' = Kept(new, PlanCap)
    BY <1>1
  <2> HIDE DEF new
  <2> QED BY <2>1, <2>2, PlansSliced
<1>3. PlanTypes'
  BY <1>1, <1>2 DEF PlansInv, PlanTypes
<1>4. applied'[p] = 1 /\ \A q \in Plan \ {p} : applied'[q] = applied[q]
  BY <1>1 DEF PlansInv, PlanTypes, Agreement
<1>5. ~(p > filed) /\ p <= filed /\ applied[p] = 0
  BY <1>1 DEF PlansInv, PlanTypes, Agreement, Plan
<1>6. \A q \in Plan : q > filed' => plans'[q] = "absent" /\ applied'[q] = 0
  BY <1>1, <1>2, <1>4, <1>5 DEF PlansInv, Agreement
<1>7. \A q \in Plan : /\ plans'[q] \in {"PENDING", "REJECTED"} => applied'[q] = 0
                      /\ plans'[q] = "APPLIED" => applied'[q] = 1
                      /\ applied'[q] <= 1
  BY <1>2, <1>4 DEF PlansInv, Agreement
<1>8. PlansInv'
  BY <1>1, <1>3, <1>6, <1>7 DEF PlansInv, Agreement, HeldList
<1> QED BY <1>1, <1>2, <1>4, <1>5, <1>8

(* The save of rejectPlan                                                  *)
LEMMA Saving ==
  ASSUME PlansInv, RejectSaves
  PROVE  /\ PlansInv' /\ UNCHANGED <<filed, applied>>
         /\ held.plan \in Plan /\ applied[held.plan] = 0
         /\ plans'[held.plan] \in {"REJECTED", "absent"}
         /\ \A q \in Plan \ {held.plan} : plans'[q] \in {plans[q], "absent"}
<1>1. /\ held # NoHold /\ held' = NoHold /\ UNCHANGED <<filed, applied>>
      /\ plans' = Kept([held.list EXCEPT ![held.plan] = "REJECTED"], PlanCap)
  BY DEF RejectSaves
<1>2. /\ held.plan \in Plan /\ held.plan <= filed /\ plans[held.plan] = "PENDING"
      /\ \A q \in Plan : held.list[q] = plans[q] \/ held.list[q] = "absent"
  BY <1>1 DEF PlansInv, HeldList
<1>3. held.list \in PlanList
  BY DEF PlansInv, PlanTypes
<1>4. /\ plans' \in PlanList
      /\ \A q \in Plan : plans'[q] \in {IF q = held.plan THEN "REJECTED" ELSE held.list[q], "absent"}
  <2> DEFINE new == [held.list EXCEPT ![held.plan] = "REJECTED"]
  <2>1. /\ new \in PlanList
        /\ \A q \in Plan : new[q] = IF q = held.plan THEN "REJECTED" ELSE held.list[q]
    BY <1>3 DEF PlanList
  <2>2. plans' = Kept(new, PlanCap)
    BY <1>1
  <2> HIDE DEF new
  <2> QED BY <2>1, <2>2, PlansSliced
<1>5. \A q \in Plan \ {held.plan} : plans'[q] \in {plans[q], "absent"}
  BY <1>2, <1>4
<1>6. NoHold \in [plan : 0..MaxPlans, list : PlanList]
  BY PlansAssumption DEF NoHold, PlanList
<1>7. PlanTypes'
  BY <1>1, <1>4, <1>6 DEF PlansInv, PlanTypes
<1>8. applied[held.plan] = 0 /\ ~(held.plan > filed)
  BY <1>2 DEF PlansInv, Agreement
<1>9. Agreement'
  <2>1. \A q \in Plan : q > filed' => plans'[q] = "absent" /\ applied'[q] = 0
    BY <1>1, <1>5, <1>8 DEF PlansInv, Agreement
  <2>2. \A q \in Plan : /\ plans'[q] \in {"PENDING", "REJECTED"} => applied'[q] = 0
                        /\ plans'[q] = "APPLIED" => applied'[q] = 1
                        /\ applied'[q] <= 1
    BY <1>1, <1>4, <1>5, <1>8 DEF PlansInv, Agreement
  <2> QED BY <2>1, <2>2 DEF Agreement
<1> QED BY <1>1, <1>2, <1>4, <1>5, <1>7, <1>8, <1>9 DEF PlansInv, HeldList

(* Steps that leave the list, and what rejectPlan holds, alone.             *)
LEMMA Elsewhere ==
  ASSUME PlansInv, UNCHANGED <<plans, filed, applied, held>>
  PROVE  PlansInv'
BY DEF PlansInv, PlanTypes, Agreement, HeldList

(* A plan is filed by the owner's request or by a turn's line; every other   *)
(* step but three leaves the plans alone.                                   *)
LEMMA PlanSteps ==
  ASSUME [PlansNext]_planVars
  PROVE  \/ \E t \in Text : ProposePlan(t) /\ UNCHANGED <<applied, held>>
         \/ ProposePlan(lines[at]) /\ UNCHANGED <<applied, held>>
         \/ \E p \in Plan : ApplyPlan(p)
         \/ \E p \in Plan : RejectLoads(p)
         \/ RejectSaves
         \/ UNCHANGED <<plans, filed, applied, held>>
<1>1. ASSUME NEW t \in Text, OwnerAsks(t) PROVE ProposePlan(t) /\ UNCHANGED <<applied, held>>
  BY <1>1 DEF OwnerAsks
<1>2. CASE IngestPropose
  BY <1>2 DEF IngestPropose, listVars
<1>3. ASSUME NEW a, NEW s, TurnEnds(a, s) PROVE UNCHANGED <<plans, filed, applied, held>>
  BY <1>3 DEF TurnEnds, listVars
<1>4. CASE TurnSettled \/ SupervisorDies
  BY <1>4 DEF TurnSettled, SupervisorDies, listVars
<1>5. ASSUME NEW a, ActivateAgent(a) PROVE UNCHANGED <<plans, filed, applied, held>>
  BY <1>5 DEF ActivateAgent, listVars
<1>6. ASSUME NEW i, AddItem(i) \/ PromoteItem(i) PROVE UNCHANGED <<plans, filed, applied, held>>
  BY <1>6 DEF AddItem, PromoteItem, listVars
<1>7. CASE UNCHANGED planVars
  BY <1>7 DEF planVars, listVars
<1> QED BY <1>1, <1>2, <1>3, <1>4, <1>5, <1>6, <1>7 DEF PlansNext

LEMMA PlansStep ==
  ASSUME "evict" \notin Rare, PlansInv, [PlansNext]_planVars
  PROVE  PlansInv'
<1>1. ASSUME NEW t, ProposePlan(t), UNCHANGED <<applied, held>> PROVE PlansInv'
  BY <1>1, Filing
<1>2. ASSUME NEW p \in Plan, ApplyPlan(p) PROVE PlansInv'
  BY <1>2, Applying
<1>3. ASSUME NEW p \in Plan, RejectLoads(p) PROVE PlansInv'
  <2>1. /\ plans[p] = "PENDING" /\ held' = [plan |-> p, list |-> plans]
        /\ UNCHANGED <<plans, filed, applied>>
    BY <1>3 DEF RejectLoads, Pending, listVars
  <2>2. p <= filed
    BY <2>1 DEF PlansInv, PlanTypes, Agreement, Plan
  <2>3. PlanTypes'
    BY <2>1 DEF PlansInv, PlanTypes, Plan
  <2> QED BY <2>1, <2>2, <2>3 DEF PlansInv, Agreement, HeldList
<1>4. CASE RejectSaves
  BY <1>4, Saving
<1>5. CASE UNCHANGED <<plans, filed, applied, held>>
  BY <1>5, Elsewhere
<1> QED BY <1>1, <1>2, <1>3, <1>4, <1>5, PlanSteps

(* A step moves every plan as OneShot does.                                 *)
LEMMA PlanMoves ==
  ASSUME "evict" \notin Rare, PlansInv, PlansInv', [PlansNext]_planVars, NEW p \in Plan
  PROVE  \/ PlanStage(p)' = PlanStage(p)
         \/ PlanStage(p)' \in PlanDecisions!Moves[PlanStage(p)]
<1> DEFINE Moved == \/ PlanStage(p)' = PlanStage(p)
                    \/ PlanStage(p)' \in PlanDecisions!Moves[PlanStage(p)]
<1>1. PlanStage(p) = IF p > filed THEN "none" ELSE IF applied[p] = 1 THEN "done"
                     ELSE IF plans[p] = "PENDING" THEN "open" ELSE "dropped"
  BY StageOfPlan DEF PlanStages
<1>2. PlanStages'
  BY StageOfPlanLater
<1>3. PlanStage(p)' = IF p > filed' THEN "none" ELSE IF applied'[p] = 1 THEN "done"
                      ELSE IF plans'[p] = "PENDING" THEN "open" ELSE "dropped"
  BY <1>2 DEF PlanStages, Plan
<1>4. /\ "open" \in PlanDecisions!Moves["none"]
      /\ {"done", "dropped"} \subseteq PlanDecisions!Moves["open"]
  BY DEF PlanDecisions!Moves
<1>5. filed \in Nat /\ p \in Nat /\ applied \in [Plan -> Nat] /\ applied[p] \in {0, 1}
  BY DEF PlansInv, PlanTypes, Agreement, Plan
<1>6. ASSUME NEW t, ProposePlan(t), UNCHANGED <<applied, held>> PROVE Moved
  <2>1. /\ filed' = filed + 1 /\ plans'[filed + 1] = "PENDING"
        /\ \A q \in Plan \ {filed + 1} : plans'[q] \in {plans[q], "absent"}
    BY <1>6, PlansGrown
  <2>2. CASE p = filed + 1
    <3>1. applied[p] = 0
      BY <1>5, <2>2 DEF PlansInv, Agreement
    <3>2. PlanStage(p) = "none" /\ PlanStage(p)' = "open"
      BY <1>1, <1>3, <1>5, <1>6, <2>1, <2>2, <3>1
    <3> QED BY <1>4, <3>2
  <2>3. CASE p # filed + 1
    <3>1. plans'[p] \in {plans[p], "absent"} /\ (p > filed' <=> p > filed)
      BY <1>5, <2>1, <2>3
    <3> QED BY <1>1, <1>3, <1>4, <1>6, <3>1
  <2> QED BY <2>2, <2>3
<1>7. ASSUME NEW q \in Plan, ApplyPlan(q) PROVE Moved
  <2>1. /\ UNCHANGED filed /\ q <= filed
        /\ plans[q] = "PENDING" /\ applied[q] = 0 /\ applied'[q] = 1
        /\ p # q => plans'[p] \in {plans[p], "absent"} /\ applied'[p] = applied[p]
    BY <1>7, Applying
  <2>2. CASE p = q
    <3>1. PlanStage(p) = "open" /\ PlanStage(p)' = "done"
      BY <1>1, <1>3, <1>5, <2>1, <2>2
    <3> QED BY <1>4, <3>1
  <2>3. CASE p # q
    BY <1>1, <1>3, <1>4, <2>1, <2>3
  <2> QED BY <2>2, <2>3
<1>8. CASE RejectSaves
  <2>1. /\ UNCHANGED <<filed, applied>> /\ held.plan \in Plan /\ applied[held.plan] = 0
        /\ plans'[held.plan] \in {"REJECTED", "absent"}
        /\ \A q \in Plan \ {held.plan} : plans'[q] \in {plans[q], "absent"}
    BY <1>8, Saving
  <2>2. CASE p = held.plan
    BY <1>1, <1>3, <1>4, <2>1, <2>2
  <2>3. CASE p # held.plan
    BY <1>1, <1>3, <1>4, <2>1, <2>3
  <2> QED BY <2>2, <2>3
<1>9. ASSUME UNCHANGED <<plans, filed, applied>> PROVE Moved
  BY <1>1, <1>3, <1>9
<1>10. ASSUME NEW q \in Plan, RejectLoads(q) PROVE Moved
  BY <1>9, <1>10 DEF RejectLoads, listVars
<1> QED BY <1>6, <1>7, <1>8, <1>9, <1>10, PlanSteps

-----------------------------------------------------------------------------
(* The theorems *)

(* plan.ts:15-17, 193-195, 363-374, for every set of requests and every      *)
(* length of the list: a plan is applied once at most and only while it is   *)
(* undecided, and what was decided stays decided, with the supervisor filing *)
(* plans in the middle of a rejection, unless the list is full then.        *)
THEOREM PlansAreAppliedOnce == "evict" \notin Rare => (PlansSpec => PlansOnce)
<1> SUFFICES ASSUME "evict" \notin Rare PROVE PlansSpec => PlansOnce
  OBVIOUS
<1>1. PlansInit => PlansInv /\ PlanDecisions!Init
  <2> SUFFICES ASSUME PlansInit PROVE PlansInv /\ PlanDecisions!Init
    OBVIOUS
  <2>1. PlansInv
    BY PlansAssumption
    DEF PlansInit, PlansInv, PlanTypes, Agreement, HeldList, PlanList, NoHold
  <2>2. \A p \in Plan : PlanStage(p) = "none"
    BY <2>1, StageOfPlan DEF PlansInit, PlanStages, Plan
  <2> QED BY <2>1, <2>2 DEF PlanDecisions!Init
<1>2. PlansInv /\ [PlansNext]_planVars => PlansInv'
  BY PlansStep
<1>3. PlansInv /\ PlansInv' /\ [PlansNext]_planVars
        => [PlanDecisions!Next]_([p \in Plan |-> PlanStage(p)])
  <2> SUFFICES ASSUME PlansInv, PlansInv', [PlansNext]_planVars
               PROVE  PlanDecisions!Next
    OBVIOUS
  <2>1. \A p \in Plan : PlanStage(p)' \in {"none", "open", "done", "dropped"}
    BY StageOfPlanLater DEF PlanStages, Plan
  <2>2. \A p \in Plan : \/ PlanStage(p)' = PlanStage(p)
                        \/ PlanStage(p)' \in PlanDecisions!Moves[PlanStage(p)]
    BY PlanMoves
  <2> QED BY <2>1, <2>2 DEF PlanDecisions!Next, PlanDecisions!Step, PlanDecisions!Stage, Plan
<1> QED BY <1>1, <1>2, <1>3, PTL DEF PlansSpec, PlansOnce, PlanDecisions!Spec

(* A line that filed a plan is in the thread, where it is looked for before  *)
(* another is filed.                                                        *)
Posted ==
  /\ heard \in [Line -> Nat]
  /\ \A l \in Line : heard[l] <= 1 /\ (heard[l] = 1 => l \in thread)

LEMMA PostedStep ==
  ASSUME Posted, [PlansNext]_planVars
  PROVE  Posted'
<1>1. CASE UNCHANGED <<thread, heard>>
  BY <1>1 DEF Posted
<1>2. CASE IngestPropose
  <2> DEFINE l == <<turn, lines[at]>>
  <2>1. CASE UNCHANGED <<thread, heard>>
    BY <2>1 DEF Posted
  <2>2. CASE ~UNCHANGED <<thread, heard>>
    <3>1. /\ l \notin thread /\ thread' = thread \cup {l}
          /\ heard' = [heard EXCEPT ![l] = @ + 1]
      BY <1>2, <2>2 DEF IngestPropose, Already
    <3> HIDE DEF l
    <3>2. heard' \in [Line -> Nat]
      <4>1. heard' = [k \in Line |-> heard'[k]]
        BY <3>1 DEF Posted
      <4>2. \A k \in Line : heard'[k] = IF k = l THEN heard[k] + 1 ELSE heard[k]
        BY <3>1 DEF Posted
      <4>3. \A k \in Line : heard'[k] \in Nat
        BY <4>2 DEF Posted
      <4> QED BY <4>1, <4>3
    <3>3. ASSUME NEW k \in Line PROVE heard'[k] <= 1 /\ (heard'[k] = 1 => k \in thread')
      <4>1. heard[k] \in {0, 1} /\ (heard[k] = 1 => k \in thread)
        BY DEF Posted
      <4>2. heard'[k] = IF k = l THEN heard[k] + 1 ELSE heard[k]
        BY <3>1 DEF Posted
      <4> QED BY <3>1, <4>1, <4>2
    <3> QED BY <3>2, <3>3 DEF Posted
  <2> QED BY <2>1, <2>2
<1>3. ASSUME NEW t, OwnerAsks(t) PROVE Posted'
  BY <1>1, <1>3 DEF OwnerAsks, turnVars
<1>4. ASSUME NEW a, NEW s, TurnEnds(a, s) PROVE Posted'
  BY <1>1, <1>4 DEF TurnEnds
<1>5. CASE TurnSettled \/ SupervisorDies
  BY <1>1, <1>5 DEF TurnSettled, SupervisorDies
<1>6. ASSUME NEW p, ApplyPlan(p) \/ RejectLoads(p) PROVE Posted'
  BY <1>1, <1>6 DEF ApplyPlan, RejectLoads, turnVars
<1>7. CASE RejectSaves
  BY <1>1, <1>7 DEF RejectSaves, turnVars
<1>8. ASSUME NEW a, ActivateAgent(a) PROVE Posted'
  BY <1>1, <1>8 DEF ActivateAgent, turnVars
<1>9. ASSUME NEW i, AddItem(i) \/ PromoteItem(i) PROVE Posted'
  BY <1>1, <1>9 DEF AddItem, PromoteItem, turnVars
<1>10. CASE UNCHANGED planVars
  BY <1>1, <1>10 DEF planVars, turnVars
<1> QED BY <1>2, <1>3, <1>4, <1>5, <1>6, <1>7, <1>8, <1>9, <1>10 DEF PlansNext

(* report.ts:124-139, for every script of turns: a line files one plan at    *)
(* most, however often supervisors die and read it again.                   *)
THEOREM LinesAreProposedOnce == PlansSpec => []ProposedOnce
<1>1. PlansInit => Posted
  BY DEF PlansInit, Posted
<1>2. Posted /\ [PlansNext]_planVars => Posted'
  BY PostedStep
<1>3. Posted => ProposedOnce
  BY DEF Posted, ProposedOnce
<1> QED BY <1>1, <1>2, <1>3, PTL DEF PlansSpec

-----------------------------------------------------------------------------
(* Join grants: no process dies between a result and the grant it used *)

(* A grant with a result is on the list as used, cut off, or the one whose  *)
(* use is still to be saved; no other has been used.                        *)
JoinInv ==
  /\ JoinTypeOK
  /\ \A g \in Grant : g > granted => grants[g] = "absent" /\ delivered[g] = 0
  /\ \A g \in expired : g <= granted
  /\ \A g \in Grant : delivered[g] <= 1
  /\ \A g \in Grant : delivered[g] = 1 => grants[g] # "fresh" \/ answering = g
  /\ \A g \in Grant : grants[g] = "used" => delivered[g] = 1
  /\ answering # 0 => answering <= granted /\ delivered[answering] = 1

(* Every grant's stage, when the invariant holds.                           *)
Stages ==
  \A g \in Grant :
    GrantStage(g) = IF g > granted THEN "none"
                    ELSE IF delivered[g] = 1 THEN "done"
                    ELSE IF Lapsed(g) THEN "dropped" ELSE "open"

LEMMA StageOfGrant == JoinInv => Stages
<1> SUFFICES ASSUME JoinInv, NEW g \in Grant
             PROVE  GrantStage(g) = IF g > granted THEN "none"
                                    ELSE IF delivered[g] = 1 THEN "done"
                                    ELSE IF Lapsed(g) THEN "dropped" ELSE "open"
  BY DEF Stages
<1>1. granted \in Nat /\ g \in Nat /\ delivered[g] \in Nat /\ delivered[g] <= 1
  BY JoinAssumption DEF JoinInv, JoinTypeOK, Grant
<1>2. delivered[g] = 0 => grants[g] \in {"absent", "fresh"}
  BY DEF JoinInv, JoinTypeOK
<1>3. grants[g] = "absent" => Lapsed(g)
  BY DEF Lapsed
<1> QED BY <1>1, <1>2, <1>3 DEF GrantStage

LEMMA StageOfGrantLater == JoinInv' => Stages'
BY StageOfGrant, PTL

(* A slice of the list after one entry was given the state s.               *)
LEMMA GrantsSliced ==
  ASSUME JoinTypeOK, NEW g \in Grant, NEW s \in {"fresh", "used"},
         grants' = Kept([grants EXCEPT ![g] = s], GrantCap)
  PROVE  /\ grants' \in [Grant -> {"absent", "fresh", "used"}]
         /\ \A h \in Grant : grants'[h] \in {IF h = g THEN s ELSE grants[h], "absent"}
<1> DEFINE new == [grants EXCEPT ![g] = s]
           kept == Kept(new, GrantCap)
           V == {"absent", "fresh", "used"}
<1>1. "absent" \in V /\ new \in [Grant -> V] /\ grants' = kept
  BY DEF JoinTypeOK
<1>2. \A h \in Grant : new[h] = IF h = g THEN s ELSE grants[h]
  BY DEF JoinTypeOK
<1>3. kept \in [Grant -> V] /\ \A h \in Grant : kept[h] \in {new[h], "absent"}
  <2> HIDE DEF new, V
  <2> QED BY <1>1, Sliced
<1> HIDE DEF new, kept
<1> QED BY <1>1, <1>2, <1>3

(* The invariant is inductive.                                              *)
LEMMA JoinStep ==
  ASSUME "crash" \notin Rare, JoinInv, [JoinNext]_joinVars
  PROVE  JoinInv'
<1> USE JoinAssumption DEF Grant
<1>1. CASE GrantJoin
  <2>1. granted + 1 \in Grant /\ delivered[granted + 1] = 0
    BY <1>1 DEF GrantJoin, JoinInv, JoinTypeOK
  <2>2. /\ grants' \in [Grant -> {"absent", "fresh", "used"}]
        /\ \A h \in Grant : grants'[h] \in {IF h = granted + 1 THEN "fresh" ELSE grants[h], "absent"}
    BY <1>1, <2>1, GrantsSliced DEF GrantJoin, JoinInv
  <2>3. granted' = granted + 1 /\ UNCHANGED <<expired, delivered, answering>> /\ answering = 0
    BY <1>1 DEF GrantJoin
  <2>4. JoinTypeOK'
    BY <2>1, <2>2, <2>3 DEF JoinInv, JoinTypeOK
  <2>5. \A g \in Grant : g > granted' => grants'[g] = "absent" /\ delivered'[g] = 0
    BY <2>1, <2>2, <2>3 DEF JoinInv, JoinTypeOK
  <2>6. \A g \in Grant : delivered'[g] = 1 => grants'[g] # "fresh" \/ answering' = g
    BY <2>1, <2>2, <2>3 DEF JoinInv, JoinTypeOK
  <2>7. \A g \in Grant : grants'[g] = "used" => delivered'[g] = 1
    BY <2>1, <2>2, <2>3 DEF JoinInv, JoinTypeOK
  <2>8. \A g \in expired' : g <= granted'
    BY <2>3 DEF JoinInv, JoinTypeOK
  <2> QED BY <2>3, <2>4, <2>5, <2>6, <2>7, <2>8 DEF JoinInv
<1>2. ASSUME NEW g \in Grant, GrantExpires(g) PROVE JoinInv'
  BY <1>2 DEF GrantExpires, JoinInv, JoinTypeOK
<1>3. ASSUME NEW g \in Grant, SubmitDelivers(g) PROVE JoinInv'
  BY <1>3 DEF SubmitDelivers, Good, JoinInv, JoinTypeOK
<1>4. CASE SubmitSaves
  <2>1. answering \in Grant /\ delivered[answering] = 1
    BY <1>4 DEF SubmitSaves, JoinInv, JoinTypeOK
  <2>2. /\ grants' \in [Grant -> {"absent", "fresh", "used"}]
        /\ \A h \in Grant : grants'[h] \in {IF h = answering THEN "used" ELSE grants[h], "absent"}
    BY <1>4, <2>1, GrantsSliced DEF SubmitSaves, Spend, JoinInv
  <2> QED BY <1>4, <2>1, <2>2 DEF SubmitSaves, JoinInv, JoinTypeOK
<1>5. CASE UNCHANGED joinVars
  BY <1>5 DEF joinVars, JoinInv, JoinTypeOK
<1> QED BY <1>1, <1>2, <1>3, <1>4, <1>5 DEF JoinNext

(* What GrantJoin leaves of the list: the new grant, and the older ones as  *)
(* they were or cut off.                                                    *)
LEMMA GrantsGrown ==
  ASSUME JoinInv, GrantJoin
  PROVE  /\ granted + 1 \in Grant /\ grants'[granted + 1] = "fresh"
         /\ \A h \in Grant \ {granted + 1} : grants'[h] \in {grants[h], "absent"}
<1> DEFINE n == granted + 1
           new == [grants EXCEPT ![n] = "fresh"]
<1>1. n \in Grant
  BY JoinAssumption DEF JoinInv, JoinTypeOK, GrantJoin, Grant
<1>2. new \in [Grant -> {"absent", "fresh", "used"}] /\ new[n] = "fresh"
  BY <1>1 DEF JoinInv, JoinTypeOK
<1>3. \A h \in Grant : h > n => new[h] = "absent"
  BY <1>1 DEF JoinInv, JoinTypeOK, Grant
<1>4. grants' = Kept(new, GrantCap)
  BY DEF GrantJoin
<1>5. \A h \in Grant : grants'[h] \in {IF h = n THEN "fresh" ELSE grants[h], "absent"}
  BY <1>1, <1>4, GrantsSliced DEF JoinInv
<1> HIDE DEF new, n
<1>6. grants'[n] = "fresh"
  BY <1>1, <1>2, <1>3, <1>4, KeptLast, JoinAssumption DEF Grant
<1>7. \A h \in Grant \ {n} : grants'[h] \in {grants[h], "absent"}
  BY <1>5
<1> QED BY <1>1, <1>6, <1>7 DEF n

(* A step moves every grant as OneShot does.                                *)
LEMMA GrantMoves ==
  ASSUME "crash" \notin Rare, JoinInv, JoinInv', [JoinNext]_joinVars, NEW g \in Grant
  PROVE  \/ GrantStage(g)' = GrantStage(g)
         \/ GrantStage(g)' \in GrantDecisions!Moves[GrantStage(g)]
<1> USE JoinAssumption
<1>1. GrantStage(g) = IF g > granted THEN "none" ELSE IF delivered[g] = 1 THEN "done"
                      ELSE IF Lapsed(g) THEN "dropped" ELSE "open"
  BY StageOfGrant DEF Stages
<1>2. Stages'
  BY StageOfGrantLater
<1>3. GrantStage(g)' = IF g > granted' THEN "none" ELSE IF delivered'[g] = 1 THEN "done"
                       ELSE IF Lapsed(g)' THEN "dropped" ELSE "open"
  BY <1>2 DEF Stages, Grant
<1>4. /\ "open" \in GrantDecisions!Moves["none"]
      /\ {"done", "dropped"} \subseteq GrantDecisions!Moves["open"]
  BY DEF GrantDecisions!Moves
<1>5. /\ granted \in Nat /\ g \in Nat
      /\ delivered \in [Grant -> Nat] /\ delivered[g] \in {0, 1}
      /\ grants \in [Grant -> {"absent", "fresh", "used"}]
  <2>1. granted \in 0..MaxGrants /\ delivered \in [Grant -> Nat]
        /\ grants \in [Grant -> {"absent", "fresh", "used"}]
    BY DEF JoinInv, JoinTypeOK
  <2>2. delivered[g] <= 1
    BY DEF JoinInv
  <2>3. delivered[g] \in Nat
    BY <2>1
  <2>4. delivered[g] \in {0, 1}
    BY <2>2, <2>3
  <2>5. granted \in Nat /\ g \in Nat
    BY <2>1 DEF Grant
  <2> QED BY <2>1, <2>4, <2>5
<1>6. CASE GrantJoin
  <2>1. granted' = granted + 1 /\ UNCHANGED <<expired, delivered>>
    BY <1>6 DEF GrantJoin
  <2>2. g > granted => grants[g] = "absent" /\ delivered[g] = 0
    BY DEF JoinInv
  <2>3. CASE g = granted + 1
    <3>1. grants'[g] = "fresh"
      BY <1>6, <2>3, GrantsGrown
    <3>2. g \notin expired /\ delivered[g] = 0 /\ ~(g > granted') /\ g > granted
      BY <1>5, <2>1, <2>2, <2>3 DEF JoinInv
    <3>3. ~Lapsed(g)'
      BY <2>1, <3>1, <3>2 DEF Lapsed
    <3>4. GrantStage(g) = "none" /\ GrantStage(g)' = "open"
      BY <1>1, <1>3, <2>1, <3>2, <3>3
    <3> QED BY <1>4, <3>4
  <2>4. CASE g # granted + 1
    <3>1. grants'[g] \in {grants[g], "absent"} /\ (g > granted' <=> g > granted)
      BY <1>5, <1>6, <2>1, <2>4, GrantsGrown
    <3>2. Lapsed(g) => Lapsed(g)'
      BY <2>1, <3>1 DEF Lapsed
    <3> QED BY <1>1, <1>3, <1>4, <2>1, <3>1, <3>2
  <2> QED BY <2>3, <2>4
<1>7. ASSUME NEW h \in Grant, GrantExpires(h)
      PROVE  GrantStage(g)' \in {GrantStage(g), "dropped"} /\ (GrantStage(g)' # GrantStage(g) => GrantStage(g) = "open")
  <2>1. UNCHANGED <<grants, granted, delivered>> /\ expired \subseteq expired'
    BY <1>7 DEF GrantExpires
  <2>2. Lapsed(g) => Lapsed(g)'
    BY <2>1 DEF Lapsed
  <2> QED BY <1>1, <1>3, <2>1, <2>2
<1>8. ASSUME NEW h \in Grant, SubmitDelivers(h)
      PROVE  GrantStage(g)' = GrantStage(g) \/ (GrantStage(g) = "open" /\ GrantStage(g)' = "done")
  <2>1. UNCHANGED <<grants, granted, expired>> /\ delivered' = [delivered EXCEPT ![h] = @ + 1] /\ Good(h)
    BY <1>8 DEF SubmitDelivers
  <2>2. Lapsed(g)' = Lapsed(g)
    BY <2>1 DEF Lapsed
  <2>3. CASE g = h
    <3>1. ~Lapsed(g) /\ ~(g > granted)
      BY <2>1, <2>3 DEF Good, Lapsed, JoinInv
    <3>2. delivered'[g] = delivered[g] + 1 /\ delivered'[g] <= 1
      BY <1>5, <2>1, <2>3 DEF JoinInv
    <3> QED BY <1>1, <1>3, <1>5, <2>1, <3>1, <3>2
  <2>4. CASE g # h
    BY <1>1, <1>3, <2>1, <2>2, <2>4
  <2> QED BY <2>3, <2>4
<1>9. CASE SubmitSaves
  <2>1. UNCHANGED <<granted, expired, delivered>> /\ answering \in Grant /\ delivered[answering] = 1
    BY <1>9 DEF SubmitSaves, JoinInv, JoinTypeOK, Grant
  <2>2. grants'[g] \in {IF g = answering THEN "used" ELSE grants[g], "absent"}
    BY <1>9, <2>1, GrantsSliced DEF SubmitSaves, Spend, JoinInv
  <2>3. g # answering /\ Lapsed(g) => Lapsed(g)'
    BY <2>1, <2>2 DEF Lapsed
  <2> QED BY <1>1, <1>3, <1>4, <2>1, <2>3
<1>10. CASE UNCHANGED joinVars
  BY <1>1, <1>3, <1>10 DEF joinVars, Lapsed
<1> QED BY <1>4, <1>6, <1>7, <1>8, <1>9, <1>10 DEF JoinNext

(* join.ts:144-146, for every list and every number of grants: a join grant *)
(* yields one result at most, none once its time is over or newer grants    *)
(* pushed it off the list, unless the process dies between the result and   *)
(* the mark.                                                                *)
THEOREM GrantsAreSpentOnce == "crash" \notin Rare => (JoinSpec => JoinedOnce)
<1> SUFFICES ASSUME "crash" \notin Rare PROVE JoinSpec => JoinedOnce
  OBVIOUS
<1>1. JoinInit => JoinInv /\ GrantDecisions!Init
  <2> SUFFICES ASSUME JoinInit PROVE JoinInv /\ GrantDecisions!Init
    OBVIOUS
  <2>1. JoinInv
    BY JoinAssumption DEF JoinInit, JoinInv, JoinTypeOK
  <2>2. \A g \in Grant : GrantStage(g) = "none"
    BY <2>1, StageOfGrant DEF JoinInit, Stages, Grant
  <2> QED BY <2>1, <2>2 DEF GrantDecisions!Init
<1>2. JoinInv /\ [JoinNext]_joinVars => JoinInv'
  BY JoinStep
<1>3. JoinInv /\ JoinInv' /\ [JoinNext]_joinVars => [GrantDecisions!Next]_([g \in Grant |-> GrantStage(g)])
  <2> SUFFICES ASSUME JoinInv, JoinInv', [JoinNext]_joinVars
               PROVE  GrantDecisions!Next
    OBVIOUS
  <2>1. \A g \in Grant : GrantStage(g)' \in {"none", "open", "done", "dropped"}
    BY StageOfGrantLater DEF Stages, Grant
  <2>2. \A g \in Grant : \/ GrantStage(g)' = GrantStage(g)
                         \/ GrantStage(g)' \in GrantDecisions!Moves[GrantStage(g)]
    BY GrantMoves
  <2> QED BY <2>1, <2>2 DEF GrantDecisions!Next, GrantDecisions!Step, GrantDecisions!Stage, Grant
<1> QED BY <1>1, <1>2, <1>3, PTL DEF JoinSpec, JoinedOnce, GrantDecisions!Spec
=============================================================================
