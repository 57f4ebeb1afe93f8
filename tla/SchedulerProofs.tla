-------------------------- MODULE SchedulerProofs --------------------------
(***************************************************************************)
(* Proofs about Scheduler, for every fleet, inbox and choice of hazards.   *)
(* Selection is the inductive strengthening: between the tick's            *)
(* consideration of an agent and its dispatch, that agent is the one in    *)
(* hand and its run is in the state the code expects.                      *)
(***************************************************************************)
EXTENDS Scheduler, FiniteSetTheorems, TLAPS

(* The tick never loses track of the agent it is handling, whatever the    *)
(* server commits between its statements (tick.ts, the loop body).         *)
Selection ==
  /\ pc \in {"backoff", "open", "reserve", "pause"} => cur \in Agent
  /\ pc \in {"open", "reserve"} => started < MaxDispatch
  /\ pc = "open" => turn[cur] = "none"
  /\ pc = "reserve" => turn[cur] = "opened"

WakeRow == [due : Due, reason : Reason]

-----------------------------------------------------------------------------
(* What the helpers return *)

(* Every rule of computeNextWake yields a wake (wake.ts).                  *)
LEMMA NextWakeType ==
  ASSUME NEW kind \in Kind, NEW outcome \in Outcome
  PROVE  NextWake(kind, outcome) \in WakeRow
<1>1. CASE outcome \in {"BLOCKED", "RATE_LIMITED", "RETRYABLE_ERROR"}
  BY <1>1 DEF NextWake, Wake, WakeRow, Due, Reason
<1>2. CASE outcome \in {"WORK_DONE", "NO_WORK"}
  <2>1. NextWake(kind, outcome) =
          CASE kind = "manual"     -> Wake("never", "manual")
            [] kind = "on_message" -> Wake("never", "event")
            [] kind = "schedule"   -> Wake("later", "schedule")
            [] kind = "continuous" ->
                 Wake("later", IF outcome = "WORK_DONE" THEN "schedule" ELSE "backoff")
    BY <1>2 DEF NextWake
  <2>2. CASE kind \in {"manual", "on_message"}
    BY <2>1, <2>2 DEF Wake, WakeRow, Due, Reason
  <2>3. CASE kind = "schedule"
    BY <2>1, <2>3 DEF Wake, WakeRow, Due, Reason
  <2>4. CASE kind = "continuous"
    BY <2>1, <2>4 DEF Wake, WakeRow, Due, Reason
  <2> QED BY <2>2, <2>3, <2>4 DEF Kind
<1> QED BY <1>1, <1>2 DEF Outcome

(* The wake that succeed writes is one, whichever rule wins (repo.ts).     *)
LEMMA SuccessorWakeType ==
  ASSUME TypeOK, NEW a \in Agent, NEW outcome \in Outcome
  PROVE  SuccessorWake(a, outcome) \in WakeRow
<1> DEFINE computed == IF outcome = "RATE_LIMITED" THEN LaneWake(a)
                                                   ELSE NextWake(Policy[a], outcome)
<1>1. LaneWake(a) \in WakeRow
  BY DEF LaneWake, Wake, WakeRow, Due, Reason
<1>2. NextWake(Policy[a], outcome) \in WakeRow
  BY NextWakeType, ConstantsAssumption
<1>3. computed \in WakeRow
  BY <1>1, <1>2
<1>4. \A d \in Due, r \in Reason : Wake(d, r) \in WakeRow
  BY DEF Wake, WakeRow
<1>5. (IF due[a] = "never" THEN "now" ELSE due[a]) \in Due
  BY DEF TypeOK, Due
<1>6. {"human", "event"} \subseteq Reason /\ "now" \in Due
  BY DEF Reason, Due
<1> HIDE DEF computed
<1> QED BY <1>3, <1>4, <1>5, <1>6 DEF SuccessorWake, computed

(* Writing a wake keeps the agents table well formed.                      *)
LEMMA SetAgentType ==
  ASSUME TypeOK, NEW a \in Agent, NEW s \in Status, NEW wake \in WakeRow, SetAgent(a, s, wake)
  PROVE  /\ status' \in [Agent -> Status]
         /\ due' \in [Agent -> Due]
         /\ reason' \in [Agent -> Reason]
BY DEF SetAgent, TypeOK, WakeRow

(* So does a bump.                                                         *)
LEMMA BumpType ==
  ASSUME TypeOK, NEW a \in Agent, NEW why \in Reason, BumpWake(a, why)
  PROVE  /\ status' \in [Agent -> Status]
         /\ due' \in [Agent -> Due]
         /\ reason' \in [Agent -> Reason]
<1>1. Wake("now", why) \in WakeRow /\ status[a] \in Status
  BY DEF Wake, WakeRow, Due, TypeOK
<1> QED BY <1>1, SetAgentType DEF BumpWake

(* Writing one column of a filed row keeps it a row, of the same agent.    *)
LEMMA RowUpdates ==
  /\ \A row \in AskRow : row.of \in Agent =>
       /\ [row EXCEPT !.consumed = TRUE] \in AskRow
       /\ \A t \in {"no", "packed", "yes"} : [row EXCEPT !.told = t] \in AskRow
       /\ \A t \in {"unanswered", "before", "during"} : [row EXCEPT !.when = t] \in AskRow
  /\ \A row \in MailRow : row.to \in Agent =>
       /\ \A t \in {"QUEUED", "LEASED", "ACKED", "DEAD"} : [row EXCEPT !.state = t] \in MailRow
       /\ [row EXCEPT !.read = TRUE] \in MailRow
<1> USE ConstantsAssumption
<1>1. ASSUME NEW row \in AskRow, row.of \in Agent
      PROVE  /\ [row EXCEPT !.consumed = TRUE] \in AskRow
             /\ \A t \in {"no", "packed", "yes"} : [row EXCEPT !.told = t] \in AskRow
             /\ \A t \in {"unanswered", "before", "during"} : [row EXCEPT !.when = t] \in AskRow
  BY <1>1 DEF AskRow
<1>2. ASSUME NEW row \in MailRow, row.to \in Agent
      PROVE  /\ \A t \in {"QUEUED", "LEASED", "ACKED", "DEAD"} : [row EXCEPT !.state = t] \in MailRow
             /\ [row EXCEPT !.read = TRUE] \in MailRow
  BY <1>2 DEF MailRow
<1> QED BY <1>1, <1>2

(* An agent's own rows are filed rows.                                     *)
LEMMA OwnRows ==
  ASSUME TypeOK
  PROVE  /\ \A k \in Ask : ask[k] \in AskRow /\ (ask[k].state # "unfiled" => ask[k].of \in Agent)
         /\ \A m \in Mail : mail[m] \in MailRow /\ (mail[m].state # "unsent" => mail[m].to \in Agent)
BY DEF TypeOK, AskRow, MailRow

(* A fresh row, once addressed, is a filed row.                            *)
LEMMA FreshRows ==
  ASSUME NEW a \in Agent
  PROVE  /\ \A row \in MailRow, kind \in {"human", "agent_to_agent"} : row.state = "unsent" =>
              [row EXCEPT !.state = "QUEUED", !.to = a, !.kind = kind] \in MailRow
         /\ \A row \in AskRow : row.state = "unfiled" =>
              [row EXCEPT !.state = "PENDING", !.of = a] \in AskRow
<1> USE ConstantsAssumption
<1>1. ASSUME NEW row \in MailRow, NEW kind \in {"human", "agent_to_agent"}, row.state = "unsent"
      PROVE  [row EXCEPT !.state = "QUEUED", !.to = a, !.kind = kind] \in MailRow
  <2>1. row \in [state: {"unsent"}, to: {Unassigned}, kind: {"human"}, attempts: {0}, read: {FALSE}]
    BY <1>1 DEF MailRow
  <2>2. [row EXCEPT !.state = "QUEUED", !.to = a, !.kind = kind]
          \in [state: {"QUEUED"}, to: Agent, kind: {"human", "agent_to_agent"},
              attempts: {0}, read: {FALSE}]
    BY <2>1
  <2>3. 0 \in 0..MaxAttempts
    BY DEF MaxAttempts
  <2>4. [state: {"QUEUED"}, to: Agent, kind: {"human", "agent_to_agent"}, attempts: {0}, read: {FALSE}]
          \subseteq MailRow
    BY <2>3 DEF MailRow
  <2> QED BY <2>2, <2>4
<1>2. ASSUME NEW row \in AskRow, row.state = "unfiled"
      PROVE  [row EXCEPT !.state = "PENDING", !.of = a] \in AskRow
  <2>1. row \in [state: {"unfiled"}, of: {Unassigned}, when: {"unanswered"},
                 consumed: {FALSE}, told: {"no"}]
    BY <1>2 DEF AskRow
  <2>2. [row EXCEPT !.state = "PENDING", !.of = a]
          \in [state: {"PENDING"}, of: Agent, when: {"unanswered"}, consumed: {FALSE}, told: {"no"}]
    BY <2>1
  <2> QED BY <2>2 DEF AskRow
<1> QED BY <1>1, <1>2

(* A question that was asked may be settled, and its letter tried again.   *)
LEMMA FiledRows ==
  /\ \A row \in AskRow, t \in {"APPROVED", "CANCELLED"} : row.of \in Agent =>
       [row EXCEPT !.state = t, !.when = "during"] \in AskRow
  /\ \A row \in MailRow : row.to \in Agent =>
       [row EXCEPT !.state = "LEASED",
                   !.attempts = IF @ < MaxAttempts THEN @ + 1 ELSE @] \in MailRow
<1> USE ConstantsAssumption
<1>1. ASSUME NEW row \in AskRow, NEW t \in {"APPROVED", "CANCELLED"}, row.of \in Agent
      PROVE  [row EXCEPT !.state = t, !.when = "during"] \in AskRow
  <2>1. row \in [state: {"PENDING", "APPROVED", "CANCELLED"}, of: Agent,
                 when: {"unanswered", "before", "during"}, consumed: BOOLEAN,
                 told: {"no", "packed", "yes"}]
    BY <1>1 DEF AskRow
  <2>2. [row EXCEPT !.state = t, !.when = "during"]
          \in [state: {"PENDING", "APPROVED", "CANCELLED"}, of: Agent,
              when: {"unanswered", "before", "during"}, consumed: BOOLEAN,
              told: {"no", "packed", "yes"}]
    BY <2>1
  <2> QED BY <2>2 DEF AskRow
<1>2. ASSUME NEW row \in MailRow, row.to \in Agent
      PROVE  [row EXCEPT !.state = "LEASED",
                         !.attempts = IF @ < MaxAttempts THEN @ + 1 ELSE @] \in MailRow
  <2>1. row \in [state: {"QUEUED", "LEASED", "ACKED", "DEAD"}, to: Agent,
                 kind: {"human", "agent_to_agent"}, attempts: 0..MaxAttempts, read: BOOLEAN]
    BY <1>2 DEF MailRow
  <2>2. (IF row.attempts < MaxAttempts THEN row.attempts + 1 ELSE row.attempts) \in 0..MaxAttempts
    BY <2>1 DEF MaxAttempts
  <2>3. [row EXCEPT !.state = "LEASED",
                    !.attempts = IF @ < MaxAttempts THEN @ + 1 ELSE @]
          \in [state: {"QUEUED", "LEASED", "ACKED", "DEAD"}, to: Agent,
              kind: {"human", "agent_to_agent"}, attempts: 0..MaxAttempts, read: BOOLEAN]
    BY <2>1, <2>2
  <2> QED BY <2>3 DEF MailRow
<1> QED BY <1>1, <1>2

(* Delivering and filing write well-formed rows.                           *)
LEMMA DeliverType ==
  ASSUME TypeOK, NEW m \in Mail, NEW a \in Agent, NEW kind \in {"human", "agent_to_agent"},
         NEW why \in Reason, DeliverAndWake(m, a, kind, why)
  PROVE  /\ status' \in [Agent -> Status]
         /\ due' \in [Agent -> Due]
         /\ reason' \in [Agent -> Reason]
         /\ mail' \in [Mail -> MailRow]
<1>1. mail' \in [Mail -> MailRow]
  BY FreshRows, OwnRows DEF DeliverAndWake, TypeOK
<1>2. CASE status[a] = "ACTIVE"
  BY <1>1, <1>2, BumpType DEF DeliverAndWake
<1>3. CASE status[a] # "ACTIVE"
  BY <1>1, <1>3 DEF DeliverAndWake, agentVars, TypeOK
<1> QED BY <1>2, <1>3

LEMMA QuestionType ==
  ASSUME TypeOK, NEW k \in Ask, NEW a \in Agent, FileQuestion(k, a)
  PROVE  ask' \in [Ask -> AskRow]
BY FreshRows, OwnRows DEF FileQuestion, TypeOK

(* A settle keeps every table well formed.                                 *)
LEMMA SucceedType ==
  ASSUME TypeOK, NEW a \in Agent, NEW outcome \in Outcome, NEW to \in Phase,
         Succeed(a, outcome, to)
  PROVE  /\ status' \in [Agent -> Status]
         /\ due' \in [Agent -> Due]
         /\ reason' \in [Agent -> Reason]
         /\ turn' \in [Agent -> Phase]
         /\ watched' \in SUBSET Agent
         /\ result' \in [Agent -> Result \cup {"none"}]
         /\ mail' \in [Mail -> MailRow]
         /\ ask' \in [Ask -> AskRow]
         /\ gate' \in [Lane -> {"none", "open", "shut"}]
<1>1. SuccessorWake(a, outcome) \in WakeRow
  BY SuccessorWakeType
<1>2. /\ status' \in [Agent -> Status]
      /\ due' \in [Agent -> Due]
      /\ reason' \in [Agent -> Reason]
  BY <1>1, SetAgentType DEF Succeed, TypeOK
<1>3. mail' \in [Mail -> MailRow]
  BY OwnRows, RowUpdates DEF Succeed, SettledMail, Mine, Inbox
<1>4. ask' \in [Ask -> AskRow]
  BY OwnRows, RowUpdates DEF Succeed, SettledAsks, Carried, Owed
<1> QED BY <1>2, <1>3, <1>4 DEF Succeed, TypeOK

-----------------------------------------------------------------------------
(* Type correctness and the agent in hand *)

(* The settle of an agent that is not in hand leaves the one in hand alone.*)
LEMMA SettleKeepsSelection ==
  ASSUME TypeOK, Selection, NEW a \in Agent, NEW outcome \in Outcome, NEW to \in Phase,
         Succeed(a, outcome, to), UNCHANGED <<pc, cur, started>>,
         pc \in {"open", "reserve"} => a # cur
  PROVE  Selection'
BY DEF Succeed, Selection, TypeOK

(* One step of the system keeps the tables well formed and the tick        *)
(* knowing whom it handles.                                                *)
LEMMA TypeStep ==
  ASSUME TypeOK, Selection, [Next]_vars
  PROVE  TypeOK' /\ Selection'
<1> USE ConstantsAssumption
<1>1. CASE Reconciling
  <2>1. CASE Start
    BY <2>1 DEF Start, Unfinished, TypeOK, Selection, agentVars, runVars
  <2>2. CASE ReconcileDone
    BY <2>2 DEF ReconcileDone, TypeOK, Selection, agentVars, runVars
  <2>3. ASSUME NEW a \in Agent, SettleLost(a) PROVE TypeOK' /\ Selection'
    <3>1. Succeed(a, "RETRYABLE_ERROR", "none") /\ "RETRYABLE_ERROR" \in Outcome /\ "none" \in Phase
      BY <2>3 DEF SettleLost, Outcome, Phase
    <3>2. TypeOK'
      BY <2>3, <3>1, SucceedType DEF SettleLost, TypeOK
    <3> QED BY <2>3, <3>1, <3>2, SettleKeepsSelection DEF SettleLost
  <2>4. ASSUME NEW a \in Agent, Adopt(a) PROVE TypeOK' /\ Selection'
    BY <2>4 DEF Adopt, TypeOK, Selection, agentVars, runVars
  <2> QED BY <1>1, <2>1, <2>2, <2>3, <2>4 DEF Reconciling
<1>2. CASE Ticking
  <2>1. CASE Select
    <3>1. Cardinality(LiveWorkers) \in Nat
      BY FS_Subset, FS_CardinalityType DEF LiveWorkers, Workers
    <3> QED BY <2>1, <3>1 DEF Select, TypeOK, Selection, agentVars, runVars
  <2>2. ASSUME NEW a \in Agent, Skip(a) PROVE TypeOK' /\ Selection'
    BY <2>2 DEF Skip, Considered, Head, TypeOK, Selection, agentVars, runVars
  <2>3. ASSUME NEW a \in Agent, Precondition(a) PROVE TypeOK' /\ Selection'
    BY <2>3 DEF Precondition, Considered, Head, Live, TypeOK, Selection, agentVars, runVars
  <2>4. CASE BackoffWithoutRun
    <3>1. cur \in Agent
      BY <2>4 DEF BackoffWithoutRun, Selection
    <3>2. NextWake(Policy[cur], "NO_WORK") \in WakeRow
      BY <3>1, NextWakeType DEF Outcome
    <3>3. status[cur] \in Status
      BY <3>1 DEF TypeOK
    <3> QED BY <2>4, <3>1, <3>2, <3>3, SetAgentType
            DEF BackoffWithoutRun, TypeOK, Selection, runVars
  <2>5. CASE OpenRun
    <3>1. ask' \in [Ask -> AskRow]
      BY <2>5, OwnRows, RowUpdates DEF OpenRun, Selection
    <3> QED BY <2>5, <3>1 DEF OpenRun, TypeOK, Selection, Phase, agentVars
  <2>6. CASE BudgetExhausted
    <3>1. cur \in Agent /\ "NO_WORK" \in Outcome /\ "none" \in Phase
      BY <2>6 DEF BudgetExhausted, Selection, Outcome, Phase
    <3> QED BY <2>6, <3>1, SucceedType DEF BudgetExhausted, TypeOK, Selection
  <2>7. CASE PauseExhausted
    <3>1. cur \in Agent
      BY <2>7 DEF PauseExhausted, Selection
    <3>2. Wake("never", reason[cur]) \in WakeRow /\ "PAUSED" \in Status
      BY <3>1 DEF Wake, WakeRow, TypeOK, Due, Status
    <3> QED BY <2>7, <3>1, <3>2, SetAgentType DEF PauseExhausted, TypeOK, Selection, runVars
  <2>8. CASE Dispatch
    <3>1. cur \in Agent /\ started < MaxDispatch
      BY <2>8 DEF Dispatch, Selection
    <3>2. mail' \in [Mail -> MailRow]
      BY <2>8, <3>1, FiledRows, OwnRows DEF Dispatch, Pending, Inbox
    <3>3. ask' \in [Ask -> AskRow]
      BY <2>8, <3>1, OwnRows, RowUpdates DEF Dispatch, Owed
    <3>4. started' \in 0..MaxDispatch /\ inFlight' \in Nat
      <4>1. started' = started + 1 /\ (inFlight' = inFlight \/ inFlight' = inFlight + 1)
        BY <2>8 DEF Dispatch
      <4>2. started \in Nat /\ inFlight \in Nat /\ MaxDispatch \in Nat
        BY DEF TypeOK
      <4> QED BY <3>1, <4>1, <4>2
    <3>5. turn' \in [Agent -> Phase]
      BY <2>8, <3>1 DEF Dispatch, TypeOK, Phase
    <3>6. pc' = "loop" /\ cur' = NoOne /\ UNCHANGED <<agentVars, watched, result, gate, todo>>
      BY <2>8 DEF Dispatch
    <3> QED BY <3>2, <3>3, <3>4, <3>5, <3>6 DEF TypeOK, Selection, agentVars
  <2>9. CASE LoopEnds
    BY <2>9 DEF LoopEnds, TypeOK, Selection, agentVars, runVars
  <2>10. CASE TickEnds
    BY <2>10 DEF TickEnds, Unfinished, TypeOK, Selection, agentVars, runVars
  <2> QED BY <1>2, <2>1, <2>2, <2>3, <2>4, <2>5, <2>6, <2>7, <2>8, <2>9, <2>10 DEF Ticking
<1>3. CASE Crash
  <2>1. turn' \in [Agent -> Phase]
    BY <1>3 DEF Crash
  <2>2. result' \in [Agent -> Result \cup {"none"}]
    BY <1>3 DEF Crash, TypeOK
  <2> QED BY <1>3, <2>1, <2>2 DEF Crash, TypeOK, Selection, agentVars
<1>4. CASE Server
  <2>1. \A a \in Agent, d \in Due, r \in Reason : Wake(d, r) \in WakeRow /\ reason[a] \in Reason
    BY DEF Wake, WakeRow, TypeOK
  <2>2. /\ {"ACTIVE", "PAUSED", "RETIRED"} \subseteq Status
        /\ {"now", "never"} \subseteq Due /\ {"human", "event"} \subseteq Reason
    BY DEF Status, Due, Reason
  <2>3. ASSUME NEW a \in Agent, Activate(a) PROVE TypeOK' /\ Selection'
    BY <2>1, <2>2, <2>3, SetAgentType DEF Activate, TypeOK, Selection, runVars, supVars
  <2>4. ASSUME NEW a \in Agent, PauseAgent(a) PROVE TypeOK' /\ Selection'
    BY <2>1, <2>2, <2>4, SetAgentType DEF PauseAgent, TypeOK, Selection, runVars, supVars
  <2>5. ASSUME NEW a \in Agent, RetireAgent(a) PROVE TypeOK' /\ Selection'
    BY <2>5 DEF RetireAgent, TypeOK, Selection, Status, Due, runVars, supVars
  <2>6. ASSUME NEW a \in Agent, NEW m \in Mail, HumanMessage(a, m) PROVE TypeOK' /\ Selection'
    BY <2>2, <2>6, DeliverType DEF HumanMessage, TypeOK, Selection, runVars, supVars
  <2>7. ASSUME NEW a \in Agent, NEW k \in Ask, Promote(a, k) PROVE TypeOK' /\ Selection'
    BY <2>7, QuestionType DEF Promote, TypeOK, Selection, agentVars, runVars, supVars
  <2>8. ASSUME NEW k \in Ask, Answer(k) PROVE TypeOK' /\ Selection'
    <3>1. ask[k].of \in Agent
      BY <2>8, OwnRows DEF Answer, Answerable
    <3>2. ask' \in [Ask -> AskRow]
      BY <2>8, <3>1, FiledRows, OwnRows DEF Answer, TypeOK
    <3>3. turn' \in [Agent -> Phase]
      BY <2>8, <3>1 DEF Answer, ReleaseWaitingRun, TypeOK, Phase
    <3>4. pc \in {"open", "reserve"} => turn'[cur] = turn[cur]
      BY <2>8, <3>1 DEF Answer, ReleaseWaitingRun, Selection, TypeOK
    <3> QED BY <2>2, <2>8, <3>1, <3>2, <3>3, <3>4, BumpType DEF Answer, TypeOK, Selection, supVars
  <2>9. ASSUME NEW k \in Ask, CancelAsk(k) PROVE TypeOK' /\ Selection'
    <3>1. ask[k].of \in Agent
      BY <2>9, OwnRows DEF CancelAsk, Answerable
    <3>2. ask' \in [Ask -> AskRow]
      BY <2>9, <3>1, FiledRows, OwnRows DEF CancelAsk, TypeOK
    <3>3. turn' \in [Agent -> Phase]
      BY <2>9, <3>1 DEF CancelAsk, ReleaseWaitingRun, TypeOK, Phase
    <3>4. pc \in {"open", "reserve"} => turn'[cur] = turn[cur]
      BY <2>9, <3>1 DEF CancelAsk, ReleaseWaitingRun, Selection, TypeOK
    <3>5. status' \in [Agent -> Status] /\ due' \in [Agent -> Due] /\ reason' \in [Agent -> Reason]
      BY <2>2, <2>9, <3>1, BumpType DEF CancelAsk, agentVars, TypeOK
    <3> QED BY <2>9, <3>2, <3>3, <3>4, <3>5 DEF CancelAsk, TypeOK, Selection, supVars
  <2> QED BY <1>4, <2>3, <2>4, <2>5, <2>6, <2>7, <2>8, <2>9 DEF Server
<1>5. CASE Clock
  <2>1. ASSUME NEW a \in Agent, ComesDue(a) PROVE TypeOK' /\ Selection'
    BY <2>1 DEF ComesDue, TypeOK, Selection, Due, runVars, supVars
  <2>2. ASSUME NEW l \in Lane, LaneReopens(l) PROVE TypeOK' /\ Selection'
    BY <2>2 DEF LaneReopens, TypeOK, Selection, agentVars, runVars, supVars
  <2> QED BY <1>5, <2>1, <2>2 DEF Clock
<1>6. ASSUME NEW a \in Agent, Settling(a) PROVE TypeOK' /\ Selection'
  <2>1. CASE SessionReady(a)
    <3>1. mail' \in [Mail -> MailRow]
      BY <2>1, OwnRows, RowUpdates DEF SessionReady, Mine, Inbox
    <3>2. ask' \in [Ask -> AskRow]
      BY <2>1, OwnRows, RowUpdates DEF SessionReady
    <3> QED BY <2>1, <3>1, <3>2 DEF SessionReady, Polling, TypeOK, Selection, Phase, agentVars, supVars
  <2>2. CASE SessionFails(a)
    <3>1. Succeed(a, "RETRYABLE_ERROR", "none") /\ "RETRYABLE_ERROR" \in Outcome /\ "none" \in Phase
      BY <2>2 DEF SessionFails, Outcome, Phase
    <3>2. TypeOK'
      BY <2>2, <3>1, SucceedType DEF SessionFails, supVars, TypeOK
    <3> QED BY <2>2, <3>1, <3>2, SettleKeepsSelection DEF SessionFails, Polling, supVars
  <2>3. CASE ReadExit(a)
    BY <2>3 DEF ReadExit, Polling, TypeOK, Selection, Phase, agentVars, supVars
  <2>4. ASSUME NEW outcome \in Outcome, Settle(a, outcome) PROVE TypeOK' /\ Selection'
    <3> DEFINE to == IF outcome = "BLOCKED" THEN "waiting" ELSE "none"
    <3>1. Succeed(a, outcome, to) /\ to \in Phase
      BY <2>4 DEF Settle, Phase
    <3>2. TypeOK'
      <4> HIDE DEF to
      <4> QED BY <2>4, <3>1, SucceedType DEF Settle, TypeOK
    <3>3. pc \in {"open", "reserve"} => a # cur
      BY <2>4 DEF Settle, Selection
    <3> HIDE DEF to
    <3> QED BY <2>4, <3>1, <3>2, <3>3, SettleKeepsSelection DEF Settle
  <2> QED BY <1>6, <2>1, <2>2, <2>3, <2>4 DEF Settling
<1>7. ASSUME NEW a \in Agent, Filing(a) PROVE TypeOK' /\ Selection'
  <2>1. ASSUME NEW m \in Mail, NEW b \in Agent, FileSend(a, m, b) PROVE TypeOK' /\ Selection'
    BY <2>1, DeliverType DEF FileSend, Reason, TypeOK, Selection, runVars, supVars
  <2>2. ASSUME NEW k \in Ask, FileAsk(a, k) PROVE TypeOK' /\ Selection'
    BY <2>2, QuestionType DEF FileAsk, TypeOK, Selection, agentVars, runVars, supVars
  <2> QED BY <1>7, <2>1, <2>2 DEF Filing
<1>8. ASSUME NEW a \in Agent, Pane(a) PROVE TypeOK' /\ Selection'
  <2>1. CASE PaneDies(a)
    BY <2>1 DEF PaneDies, TypeOK, Selection, Phase, agentVars, supVars
  <2>2. CASE PollFails(a)
    BY <2>2 DEF PollFails, Polling, TypeOK, Selection, Phase, Result, agentVars, supVars
  <2>3. ASSUME NEW r \in Result, PaneExits(a, r) PROVE TypeOK' /\ Selection'
    BY <2>3 DEF PaneExits, TypeOK, Selection, Phase, agentVars, supVars
  <2> QED BY <1>8, <2>1, <2>2, <2>3 DEF Pane
<1>9. CASE UNCHANGED vars
  BY <1>9 DEF vars, agentVars, runVars, supVars, TypeOK, Selection
<1> QED BY <1>1, <1>2, <1>3, <1>4, <1>5, <1>6, <1>7, <1>8, <1>9 DEF Next

(* The store of a fresh install is well formed and no agent is in hand.    *)
LEMMA TypeInit ==
  ASSUME Init
  PROVE  TypeOK /\ Selection
<1> USE ConstantsAssumption
<1>1. status \in [Agent -> Status] /\ due \in [Agent -> Due] /\ reason \in [Agent -> Reason]
  BY DEF Init, Status, Due, Reason
<1>2. mail \in [Mail -> MailRow]
  <2>1. 0 \in {0} /\ FALSE \in {FALSE}
    OBVIOUS
  <2>2. [state |-> "unsent", to |-> Unassigned, kind |-> "human", attempts |-> 0, read |-> FALSE]
          \in MailRow
    BY <2>1 DEF MailRow
  <2> QED BY <2>2 DEF Init
<1>3. ask \in [Ask -> AskRow]
  <2>1. [state |-> "unfiled", of |-> Unassigned, when |-> "unanswered", consumed |-> FALSE,
         told |-> "no"] \in AskRow
    BY DEF AskRow
  <2> QED BY <2>1 DEF Init
<1>4. turn \in [Agent -> Phase] /\ watched \in SUBSET Agent /\ result \in [Agent -> Result \cup {"none"}]
  BY DEF Init, Phase
<1>5. gate \in [Lane -> {"none", "open", "shut"}]
  BY DEF Init
<1>6. started \in 0..MaxDispatch /\ inFlight \in Nat
  BY DEF Init
<1>7. pc = "down" /\ todo \in SUBSET Agent /\ cur \in Agent \cup {NoOne}
  BY DEF Init
<1> QED BY <1>1, <1>2, <1>3, <1>4, <1>5, <1>6, <1>7 DEF TypeOK, Selection

(* Every table keeps its type, and the tick knows whom it handles, for     *)
(* every fleet.                                                            *)
THEOREM TypeCorrect == Spec => [](TypeOK /\ Selection)
<1>1. Init => TypeOK /\ Selection
  BY TypeInit
<1>2. (TypeOK /\ Selection) /\ [Next]_vars => (TypeOK /\ Selection)'
  BY TypeStep
<1> QED BY <1>1, <1>2, PTL DEF Spec

-----------------------------------------------------------------------------
(* Leases *)

(* The phases in which a run may hold leased mail: its lease was taken, and*)
(* its settle, which gives the mail back or retires it, is still to come.  *)
Holding == {"session", "running", "exited", "dead", "applying", "orphan"}

(* A step that takes no lease and ends no run that may hold one keeps every*)
(* lease with a live run.                                                  *)
LEMMA LeasesKept ==
  ASSUME TypeOK, LeasedHasLiveRun,
         \A a \in Agent : turn[a] \in Holding => turn'[a] \in Holding,
         \A m \in Mail : mail'[m].state = "LEASED" =>
            mail[m].state = "LEASED" /\ mail'[m].to = mail[m].to
  PROVE  LeasedHasLiveRun'
<1>1. ASSUME NEW m \in Mail, mail'[m].state = "LEASED"
      PROVE  mail'[m].to \in Agent /\ turn'[mail'[m].to] \notin {"none", "opened", "waiting"}
  <2>1. mail[m].to \in Agent /\ turn[mail[m].to] \in Holding
    BY <1>1 DEF LeasedHasLiveRun, TypeOK, Phase, Holding
  <2> QED BY <1>1, <2>1 DEF Holding
<1> QED BY <1>1 DEF LeasedHasLiveRun

(* A settle retires or requeues every lease of the run it ends (repo.ts    *)
(* succeed), and touches the lease of no other agent.                      *)
LEMMA SettleEndsLeases ==
  ASSUME TypeOK, LeasedHasLiveRun, NEW a \in Agent, NEW outcome, NEW to,
         Succeed(a, outcome, to)
  PROVE  LeasedHasLiveRun'
<1>1. ASSUME NEW m \in Mail, mail'[m].state = "LEASED"
      PROVE  mail'[m].to \in Agent /\ turn'[mail'[m].to] \notin {"none", "opened", "waiting"}
  <2>1. m \notin Mine(a)
    <3>1. mail[m] \in MailRow
      BY DEF TypeOK
    <3>2. [mail[m] EXCEPT !.state = "ACKED"].state # "LEASED"
          /\ [mail[m] EXCEPT !.state = "DEAD"].state # "LEASED"
          /\ [mail[m] EXCEPT !.state = "QUEUED"].state # "LEASED"
      BY <3>1 DEF MailRow
    <3> QED BY <1>1, <3>2 DEF Succeed, SettledMail
  <2>2. mail'[m] = mail[m]
    BY <2>1 DEF Succeed, SettledMail
  <2>3. mail[m].to # a
    BY <1>1, <2>1, <2>2 DEF Mine, Inbox
  <2>4. mail[m].to \in Agent /\ turn[mail[m].to] \notin {"none", "opened", "waiting"}
    BY <1>1, <2>2 DEF LeasedHasLiveRun
  <2>5. turn'[mail[m].to] = turn[mail[m].to]
    BY <2>3, <2>4 DEF Succeed, TypeOK
  <2> QED BY <2>2, <2>4, <2>5
<1> QED BY <1>1 DEF LeasedHasLiveRun

(* A delivery writes one QUEUED row and leases nothing.                    *)
LEMMA DeliveryLeasesNothing ==
  ASSUME TypeOK, NEW m \in Mail, NEW a \in Agent, NEW kind, NEW why, DeliverAndWake(m, a, kind, why)
  PROVE  \A n \in Mail : mail'[n].state = "LEASED" =>
            mail[n].state = "LEASED" /\ mail'[n].to = mail[n].to
<1>1. mail[m] \in MailRow
  BY DEF TypeOK
<1>2. [mail[m] EXCEPT !.state = "QUEUED", !.to = a, !.kind = kind].state # "LEASED"
  BY <1>1 DEF MailRow
<1> QED BY <1>2 DEF DeliverAndWake, TypeOK

(* One step of the system strands no lease.                                *)
LEMMA LeaseStep ==
  ASSUME TypeOK, Selection, LeasedHasLiveRun, [Next]_vars
  PROVE  LeasedHasLiveRun'
<1> USE ConstantsAssumption
<1> DEFINE Quiet == UNCHANGED <<turn, mail>>
<1>1. Quiet => LeasedHasLiveRun'
  BY DEF LeasedHasLiveRun
<1>2. CASE Reconciling
  <2>1. CASE Start \/ ReconcileDone
    BY <1>1, <2>1 DEF Start, ReconcileDone, runVars
  <2>2. ASSUME NEW a \in Agent, SettleLost(a) PROVE LeasedHasLiveRun'
    BY <2>2, SettleEndsLeases DEF SettleLost
  <2>3. ASSUME NEW a \in Agent, Adopt(a) PROVE LeasedHasLiveRun'
    BY <1>1, <2>3 DEF Adopt, runVars
  <2> QED BY <1>2, <2>1, <2>2, <2>3 DEF Reconciling
<1>3. CASE Ticking
  <2>1. CASE Select \/ BackoffWithoutRun \/ PauseExhausted \/ LoopEnds \/ TickEnds
    BY <1>1, <2>1 DEF Select, BackoffWithoutRun, PauseExhausted, LoopEnds, TickEnds, runVars
  <2>2. ASSUME NEW a \in Agent, Skip(a) \/ Precondition(a) PROVE LeasedHasLiveRun'
    BY <1>1, <2>2 DEF Skip, Precondition, runVars
  <2>3. CASE OpenRun
    <3>1. cur \in Agent /\ turn[cur] = "none"
      BY <2>3 DEF OpenRun, Selection
    <3>2. \A a \in Agent : turn[a] \in Holding => turn'[a] \in Holding
      BY <2>3, <3>1 DEF OpenRun, TypeOK, Holding
    <3> QED BY <2>3, <3>2, LeasesKept DEF OpenRun
  <2>4. CASE BudgetExhausted
    BY <2>4, SettleEndsLeases DEF BudgetExhausted, Selection
  <2>5. CASE Dispatch
    <3>1. cur \in Agent /\ turn' = [turn EXCEPT ![cur] = "session"]
      BY <2>5 DEF Dispatch, Selection
    <3>2. ASSUME NEW m \in Mail, mail'[m].state = "LEASED"
          PROVE  mail'[m].to \in Agent /\ turn'[mail'[m].to] \notin {"none", "opened", "waiting"}
      <4>1. CASE m \in Pending(cur)
        <5>1. mail'[m].to = mail[m].to
          BY <2>5, <4>1, OwnRows DEF Dispatch, MailRow
        <5> QED BY <3>1, <4>1, <5>1 DEF Pending, Inbox, TypeOK
      <4>2. CASE m \notin Pending(cur)
        <5>1. mail'[m] = mail[m]
          BY <2>5, <4>2 DEF Dispatch
        <5>2. mail[m].to \in Agent /\ turn[mail[m].to] \notin {"none", "opened", "waiting"}
          BY <3>2, <5>1 DEF LeasedHasLiveRun
        <5> QED BY <3>1, <5>1, <5>2 DEF TypeOK
      <4> QED BY <4>1, <4>2
    <3> QED BY <3>2 DEF LeasedHasLiveRun
  <2> QED BY <1>3, <2>1, <2>2, <2>3, <2>4, <2>5 DEF Ticking
<1>4. CASE Crash
  <2>1. ASSUME NEW a \in Agent, turn[a] \in Holding PROVE turn'[a] \in Holding
    <3>1. turn'[a] \in AfterCrash(a)
      BY <1>4 DEF Crash
    <3> QED BY <2>1, <3>1 DEF AfterCrash, Holding
  <2> QED BY <1>4, <2>1, LeasesKept DEF Crash
<1>5. CASE Server
  <2>1. ASSUME NEW a \in Agent, Activate(a) \/ PauseAgent(a) \/ RetireAgent(a) PROVE LeasedHasLiveRun'
    BY <1>1, <2>1 DEF Activate, PauseAgent, RetireAgent, runVars
  <2>2. ASSUME NEW a \in Agent, NEW m \in Mail, HumanMessage(a, m) PROVE LeasedHasLiveRun'
    BY <2>2, LeasesKept, DeliveryLeasesNothing DEF HumanMessage, runVars
  <2>3. ASSUME NEW a \in Agent, NEW k \in Ask, Promote(a, k) PROVE LeasedHasLiveRun'
    BY <1>1, <2>3 DEF Promote, runVars
  <2>4. ASSUME NEW k \in Ask, Answer(k) \/ CancelAsk(k) PROVE LeasedHasLiveRun'
    <3>1. ReleaseWaitingRun(ask[k].of) /\ UNCHANGED mail
      BY <2>4 DEF Answer, CancelAsk
    <3>2. \A a \in Agent : turn[a] \in Holding => turn'[a] \in Holding
      BY <3>1 DEF ReleaseWaitingRun, TypeOK, Holding
    <3> QED BY <3>1, <3>2, LeasesKept
  <2> QED BY <1>5, <2>1, <2>2, <2>3, <2>4 DEF Server
<1>6. CASE Clock
  BY <1>1, <1>6 DEF Clock, ComesDue, LaneReopens, runVars
<1>7. ASSUME NEW a \in Agent, Settling(a) PROVE LeasedHasLiveRun'
  <2>1. CASE SessionReady(a)
    <3>1. \A b \in Agent : turn[b] \in Holding => turn'[b] \in Holding
      BY <2>1 DEF SessionReady, TypeOK, Holding
    <3>2. ASSUME NEW m \in Mail
          PROVE  mail'[m].state = mail[m].state /\ mail'[m].to = mail[m].to
      BY <2>1, OwnRows DEF SessionReady, MailRow
    <3> QED BY <3>1, <3>2, LeasesKept
  <2>2. CASE SessionFails(a)
    BY <2>2, SettleEndsLeases DEF SessionFails
  <2>3. CASE ReadExit(a)
    <3>1. \A b \in Agent : turn[b] \in Holding => turn'[b] \in Holding
      BY <2>3 DEF ReadExit, TypeOK, Holding
    <3> QED BY <2>3, <3>1, LeasesKept DEF ReadExit
  <2>4. ASSUME NEW outcome \in Outcome, Settle(a, outcome) PROVE LeasedHasLiveRun'
    BY <2>4, SettleEndsLeases DEF Settle
  <2> QED BY <1>7, <2>1, <2>2, <2>3, <2>4 DEF Settling
<1>8. ASSUME NEW a \in Agent, Filing(a) PROVE LeasedHasLiveRun'
  <2>1. ASSUME NEW m \in Mail, NEW b \in Agent, FileSend(a, m, b) PROVE LeasedHasLiveRun'
    BY <2>1, LeasesKept, DeliveryLeasesNothing DEF FileSend, runVars
  <2>2. ASSUME NEW k \in Ask, FileAsk(a, k) PROVE LeasedHasLiveRun'
    BY <1>1, <2>2 DEF FileAsk, runVars
  <2> QED BY <1>8, <2>1, <2>2 DEF Filing
<1>9. ASSUME NEW a \in Agent, Pane(a) PROVE LeasedHasLiveRun'
  <2>1. \A b \in Agent : turn[b] \in Holding => turn'[b] \in Holding
    BY <1>9 DEF Pane, PaneDies, PollFails, PaneExits, TypeOK, Holding
  <2>2. UNCHANGED mail
    BY <1>9 DEF Pane, PaneDies, PollFails, PaneExits
  <2> QED BY <2>1, <2>2, LeasesKept
<1>10. CASE UNCHANGED vars
  BY <1>1, <1>10 DEF vars, runVars
<1> QED BY <1>2, <1>3, <1>4, <1>5, <1>6, <1>7, <1>8, <1>9, <1>10 DEF Next

(* No crash, verdict, pause or retirement ever strands a lease: mail is    *)
(* LEASED only while its recipient has a run whose settle is to come.      *)
THEOREM LeasesNeverStranded == Spec => []LeasedHasLiveRun
<1>1. Init => LeasedHasLiveRun
  BY DEF Init, LeasedHasLiveRun
<1>2. TypeOK /\ Selection /\ LeasedHasLiveRun /\ [Next]_vars => LeasedHasLiveRun'
  BY LeaseStep
<1> QED BY <1>1, <1>2, TypeCorrect, PTL DEF Spec
-----------------------------------------------------------------------------
(* Runs implement Executor *)

SeenAs(t) == IF t \in {"dead", "orphan"} THEN "lost" ELSE t

(* What a run in phase t may turn into in one step.                        *)
May(t, u) == SeenAs(u) = SeenAs(t) \/ SeenAs(u) \in E!Moves[SeenAs(t)]

(* The moves that the code's steps make are moves of Executor.             *)
LEMMA LegalMoves ==
  /\ \A t \in Phase : May(t, t)
  /\ May("none", "opened")
  /\ \A t \in {"opened", "session", "dead", "orphan", "applying", "waiting"} : May(t, "none")
  /\ \A u \in {"running", "exited", "dead", "orphan"} : May("session", u)
  /\ May("opened", "session")
  /\ \A u \in {"exited", "dead", "applying"} : May("running", u)
  /\ May("exited", "applying")
  /\ \A u \in {"waiting", "exited", "orphan"} : May("applying", u)
BY DEF May, SeenAs, E!Moves, Phase

(* If every agent's run makes such a move, the fleet takes a step of it.   *)
LEMMA FleetMoves ==
  ASSUME TypeOK, TypeOK', \A a \in Agent : May(turn[a], turn'[a])
  PROVE  [E!Next]_Seen
<1>1. \A a \in Agent : Seen[a] = SeenAs(turn[a]) /\ Seen'[a] = SeenAs(turn'[a])
  BY DEF Seen, SeenAs
<1>2. \A a \in Agent : E!Step(a)
  BY <1>1 DEF E!Step, May
<1>3. \A t \in Phase : SeenAs(t) \in DOMAIN E!Moves
  BY DEF SeenAs, Phase, E!Moves
<1>4. Seen' \in [Agent -> DOMAIN E!Moves]
  BY <1>3 DEF Seen, SeenAs, TypeOK
<1> QED BY <1>2, <1>4 DEF E!Next

(* Most steps move one agent's run.                                        *)
LEMMA OneMoves ==
  ASSUME TypeOK, NEW a \in Agent, NEW u, May(turn[a], u), turn' = [turn EXCEPT ![a] = u]
  PROVE  \A b \in Agent : May(turn[b], turn'[b])
BY LegalMoves DEF TypeOK

(* A step moves every run as Executor does.                                *)
LEMMA RunStep ==
  ASSUME TypeOK, Selection, [Next]_vars
  PROVE  \A b \in Agent : May(turn[b], turn'[b])
<1> DEFINE Fleet == \A b \in Agent : May(turn[b], turn'[b])
<1>1. UNCHANGED turn => Fleet
  BY LegalMoves DEF TypeOK
<1>2. CASE Reconciling
  <2>1. CASE Start \/ ReconcileDone
    BY <1>1, <2>1 DEF Start, ReconcileDone, runVars
  <2>2. ASSUME NEW a \in Agent, SettleLost(a) PROVE Fleet
    BY <2>2, LegalMoves, OneMoves DEF SettleLost, Lost, Succeed
  <2>3. ASSUME NEW a \in Agent, Adopt(a) PROVE Fleet
    BY <1>1, <2>3 DEF Adopt, runVars
  <2> QED BY <1>2, <2>1, <2>2, <2>3 DEF Reconciling
<1>3. CASE Ticking
  <2>1. CASE Select \/ BackoffWithoutRun \/ PauseExhausted \/ LoopEnds \/ TickEnds
    BY <1>1, <2>1 DEF Select, BackoffWithoutRun, PauseExhausted, LoopEnds, TickEnds, runVars
  <2>2. ASSUME NEW a \in Agent, Skip(a) \/ Precondition(a) PROVE Fleet
    BY <1>1, <2>2 DEF Skip, Precondition, runVars
  <2>3. CASE OpenRun
    BY <2>3, LegalMoves, OneMoves DEF OpenRun, Selection
  <2>4. CASE BudgetExhausted
    BY <2>4, LegalMoves, OneMoves DEF BudgetExhausted, Succeed, Selection
  <2>5. CASE Dispatch
    BY <2>5, LegalMoves, OneMoves DEF Dispatch, Selection
  <2> QED BY <1>3, <2>1, <2>2, <2>3, <2>4, <2>5 DEF Ticking
<1>4. CASE Crash
  <2>1. ASSUME NEW a \in Agent PROVE May(turn[a], turn'[a])
    <3>1. turn'[a] \in AfterCrash(a)
      BY <1>4 DEF Crash
    <3>2. turn[a] \in Phase
      BY DEF TypeOK
    <3> QED BY <3>1, <3>2, LegalMoves DEF AfterCrash
  <2> QED BY <2>1
<1>5. CASE Server
  <2>1. ASSUME NEW a \in Agent, Activate(a) \/ PauseAgent(a) \/ RetireAgent(a) PROVE Fleet
    BY <1>1, <2>1 DEF Activate, PauseAgent, RetireAgent, runVars
  <2>2. ASSUME NEW a \in Agent, NEW m \in Mail, HumanMessage(a, m) PROVE Fleet
    BY <1>1, <2>2 DEF HumanMessage, runVars
  <2>3. ASSUME NEW a \in Agent, NEW k \in Ask, Promote(a, k) PROVE Fleet
    BY <1>1, <2>3 DEF Promote, runVars
  <2>4. ASSUME NEW k \in Ask, Answer(k) \/ CancelAsk(k) PROVE Fleet
    <3>1. ReleaseWaitingRun(ask[k].of)
      BY <2>4 DEF Answer, CancelAsk
    <3>2. \A b \in Agent : turn'[b] = turn[b] \/ (turn[b] = "waiting" /\ turn'[b] = "none")
      BY <3>1 DEF ReleaseWaitingRun, TypeOK
    <3> QED BY <3>2, LegalMoves DEF TypeOK
  <2> QED BY <1>5, <2>1, <2>2, <2>3, <2>4 DEF Server
<1>6. CASE Clock
  BY <1>1, <1>6 DEF Clock, ComesDue, LaneReopens, runVars
<1>7. ASSUME NEW a \in Agent, Settling(a) PROVE Fleet
  <2>1. CASE SessionReady(a)
    BY <2>1, LegalMoves, OneMoves DEF SessionReady
  <2>2. CASE SessionFails(a)
    BY <2>2, LegalMoves, OneMoves DEF SessionFails, Succeed
  <2>3. CASE ReadExit(a)
    BY <2>3, LegalMoves, OneMoves DEF ReadExit
  <2>4. ASSUME NEW outcome \in Outcome, Settle(a, outcome) PROVE Fleet
    <3> DEFINE end == IF outcome = "BLOCKED" THEN "waiting" ELSE "none"
    <3>1. turn[a] = "applying" /\ turn' = [turn EXCEPT ![a] = end]
      BY <2>4 DEF Settle, Succeed
    <3>2. May("applying", end)
      BY LegalMoves
    <3> HIDE DEF end
    <3> QED BY <3>1, <3>2, OneMoves
  <2> QED BY <1>7, <2>1, <2>2, <2>3, <2>4 DEF Settling
<1>8. ASSUME NEW a \in Agent, Filing(a) PROVE Fleet
  BY <1>1, <1>8 DEF Filing, FileSend, FileAsk, runVars
<1>9. ASSUME NEW a \in Agent, Pane(a) PROVE Fleet
  <2>1. CASE PaneDies(a)
    BY <2>1, LegalMoves, OneMoves DEF PaneDies
  <2>2. CASE PollFails(a)
    BY <2>2, LegalMoves, OneMoves DEF PollFails
  <2>3. ASSUME NEW r \in Result, PaneExits(a, r) PROVE Fleet
    BY <2>3, LegalMoves, OneMoves DEF PaneExits
  <2> QED BY <1>9, <2>1, <2>2, <2>3 DEF Pane
<1>10. CASE UNCHANGED vars
  BY <1>1, <1>10 DEF vars, runVars
<1> QED BY <1>2, <1>3, <1>4, <1>5, <1>6, <1>7, <1>8, <1>9, <1>10 DEF Next

(* In every fleet each run goes through the phases of Executor, whatever   *)
(* crashes, adoptions, verdicts and refusals interfere.                    *)
THEOREM RunsAreExecuted == Spec => PhasesInOrder
<1>1. Init => E!Init
  BY DEF Init, E!Init, Seen
<1>2. TypeOK /\ Selection /\ TypeOK' /\ [Next]_vars => [E!Next]_Seen
  BY RunStep, FleetMoves
<1> QED BY <1>1, <1>2, TypeCorrect, PTL DEF Spec, PhasesInOrder, E!Spec

-----------------------------------------------------------------------------
(* The alarm for a lost wake *)

(* What the scan takes for a reason to sleep without a wake.               *)
Excuse == {"human", "manual", "event"}

(* The alarm looks at agents without a run only, which no step preserves by *)
(* itself: a run ends.  An excuse is there all the time the agent has one.  *)
Explained == \A a \in Agent : status[a] = "ACTIVE" /\ due[a] = "never" => reason[a] \in Excuse

(* wake.ts never withholds a wake without an excuse.                       *)
LEMMA WithheldWakes ==
  ASSUME NEW kind \in Kind, NEW outcome \in Outcome
  PROVE  NextWake(kind, outcome).due = "never" => NextWake(kind, outcome).reason \in Excuse
<1>1. CASE outcome \in {"BLOCKED", "RATE_LIMITED", "RETRYABLE_ERROR"}
  BY <1>1 DEF NextWake, Wake, Excuse
<1>2. CASE outcome \in {"WORK_DONE", "NO_WORK"}
  <2>1. CASE kind \in {"manual", "on_message"}
    BY <1>2, <2>1 DEF NextWake, Wake, Excuse
  <2>2. CASE kind \in {"schedule", "continuous"}
    BY <1>2, <2>2 DEF NextWake, Wake, Excuse
  <2> QED BY <2>1, <2>2 DEF Kind
<1> QED BY <1>1, <1>2 DEF Outcome

LEMMA SetExplained ==
  ASSUME TypeOK, Explained, NEW a \in Agent, NEW s, NEW wake, SetAgent(a, s, wake),
         s = "ACTIVE" /\ wake.due = "never" => wake.reason \in Excuse
  PROVE  Explained'
BY DEF SetAgent, Explained, TypeOK

LEMMA BumpExplained ==
  ASSUME TypeOK, Explained, NEW a \in Agent, NEW why, BumpWake(a, why)
  PROVE  Explained'
BY SetExplained DEF BumpWake, Wake

LEMMA SettleExplained ==
  ASSUME TypeOK, Explained, NEW a \in Agent, NEW outcome \in Outcome, NEW to,
         Succeed(a, outcome, to)
  PROVE  Explained'
<1> DEFINE computed == IF outcome = "RATE_LIMITED" THEN LaneWake(a)
                                                   ELSE NextWake(Policy[a], outcome)
<1>1. computed.due = "never" => computed.reason \in Excuse
  <2>1. LaneWake(a).due # "never"
    BY DEF LaneWake, Wake
  <2>2. Policy[a] \in Kind
    BY ConstantsAssumption
  <2> QED BY <2>1, <2>2, WithheldWakes
<1>2. SuccessorWake(a, outcome) \in
        {computed, Wake("now", "event"), Wake(IF due[a] = "never" THEN "now" ELSE due[a], "human")}
  BY DEF SuccessorWake
<1>3. \A wake \in {Wake("now", "event"), Wake(IF due[a] = "never" THEN "now" ELSE due[a], "human")} :
        wake.due # "never"
  BY DEF Wake
<1> HIDE DEF computed
<1>4. SuccessorWake(a, outcome).due = "never" => SuccessorWake(a, outcome).reason \in Excuse
  BY <1>1, <1>2, <1>3
<1> QED BY <1>4, SetExplained DEF Succeed

LEMMA ExplainedStep ==
  ASSUME TypeOK, Selection, Explained, [Next]_vars
  PROVE  Explained'
<1>1. UNCHANGED agentVars => Explained'
  BY DEF Explained, agentVars
<1>2. CASE Reconciling
  <2>1. CASE Start \/ ReconcileDone
    BY <1>1, <2>1 DEF Start, ReconcileDone
  <2>2. ASSUME NEW a \in Agent, SettleLost(a) PROVE Explained'
    BY <2>2, SettleExplained DEF SettleLost, Outcome
  <2>3. ASSUME NEW a \in Agent, Adopt(a) PROVE Explained'
    BY <1>1, <2>3 DEF Adopt
  <2> QED BY <1>2, <2>1, <2>2, <2>3 DEF Reconciling
<1>3. CASE Ticking
  <2>1. CASE Select \/ OpenRun \/ Dispatch \/ LoopEnds \/ TickEnds
    <3>1. Select => UNCHANGED agentVars    BY Zenon DEF Select
    <3>2. OpenRun => UNCHANGED agentVars   BY Zenon DEF OpenRun
    <3>3. Dispatch => UNCHANGED agentVars  BY Zenon DEF Dispatch
    <3>4. LoopEnds => UNCHANGED agentVars  BY Zenon DEF LoopEnds
    <3>5. TickEnds => UNCHANGED agentVars  BY Zenon DEF TickEnds
    <3> QED BY <1>1, <2>1, <3>1, <3>2, <3>3, <3>4, <3>5
  <2>2. ASSUME NEW a \in Agent, Skip(a) \/ Precondition(a) PROVE Explained'
    BY <1>1, <2>2 DEF Skip, Precondition
  <2>3. CASE BackoffWithoutRun
    <3>1. cur \in Agent /\ Policy[cur] \in Kind /\ "NO_WORK" \in Outcome
      BY <2>3, ConstantsAssumption DEF BackoffWithoutRun, Selection, Outcome
    <3> QED BY <2>3, <3>1, WithheldWakes, SetExplained DEF BackoffWithoutRun
  <2>4. CASE BudgetExhausted
    BY <2>4, SettleExplained DEF BudgetExhausted, Selection, Outcome
  <2>5. CASE PauseExhausted
    BY <2>5, SetExplained DEF PauseExhausted, Selection
  <2> QED BY <1>3, <2>1, <2>2, <2>3, <2>4, <2>5 DEF Ticking
<1>4. CASE Crash
  BY <1>1, <1>4 DEF Crash
<1>5. CASE Server
  <2>1. ASSUME NEW a \in Agent, Activate(a) \/ PauseAgent(a) PROVE Explained'
    BY <2>1, SetExplained DEF Activate, PauseAgent, Wake
  <2>2. ASSUME NEW a \in Agent, RetireAgent(a) PROVE Explained'
    BY <2>2 DEF RetireAgent, Explained, TypeOK
  <2>3. ASSUME NEW a \in Agent, NEW m \in Mail, HumanMessage(a, m) PROVE Explained'
    BY <1>1, <2>3, BumpExplained DEF HumanMessage, DeliverAndWake
  <2>4. ASSUME NEW a \in Agent, NEW k \in Ask, Promote(a, k) PROVE Explained'
    BY <1>1, <2>4 DEF Promote
  <2>5. ASSUME NEW k \in Ask, Answer(k) \/ CancelAsk(k) PROVE Explained'
    <3>1. ask[k].of \in Agent
      BY <2>5, OwnRows DEF Answer, CancelAsk, Answerable
    <3> QED BY <1>1, <2>5, <3>1, BumpExplained DEF Answer, CancelAsk
  <2> QED BY <1>5, <2>1, <2>2, <2>3, <2>4, <2>5 DEF Server
<1>6. CASE Clock
  <2>1. ASSUME NEW a \in Agent, ComesDue(a) PROVE Explained'
    BY <2>1 DEF ComesDue, Explained, TypeOK
  <2>2. ASSUME NEW l \in Lane, LaneReopens(l) PROVE Explained'
    BY <1>1, <2>2 DEF LaneReopens
  <2> QED BY <1>6, <2>1, <2>2 DEF Clock
<1>7. ASSUME NEW a \in Agent, Settling(a) PROVE Explained'
  <2>1. CASE SessionReady(a) \/ ReadExit(a)
    BY <1>1, <2>1 DEF SessionReady, ReadExit
  <2>2. CASE SessionFails(a)
    BY <2>2, SettleExplained DEF SessionFails, Outcome
  <2>3. ASSUME NEW outcome \in Outcome, Settle(a, outcome) PROVE Explained'
    BY <2>3, SettleExplained DEF Settle
  <2> QED BY <1>7, <2>1, <2>2, <2>3 DEF Settling
<1>8. ASSUME NEW a \in Agent, Filing(a) PROVE Explained'
  <2>1. ASSUME NEW m \in Mail, NEW b \in Agent, FileSend(a, m, b) PROVE Explained'
    BY <1>1, <2>1, BumpExplained DEF FileSend, DeliverAndWake
  <2>2. ASSUME NEW k \in Ask, FileAsk(a, k) PROVE Explained'
    BY <1>1, <2>2 DEF FileAsk
  <2> QED BY <1>8, <2>1, <2>2 DEF Filing
<1>9. ASSUME NEW a \in Agent, Pane(a) PROVE Explained'
  BY <1>1, <1>9 DEF Pane, PaneDies, PollFails, PaneExits
<1>10. CASE UNCHANGED vars
  BY <1>1, <1>10 DEF vars
<1> QED BY <1>2, <1>3, <1>4, <1>5, <1>6, <1>7, <1>8, <1>9, <1>10 DEF Next

(* The alarm of tick.ts never goes off: in no fleet does an ACTIVE agent    *)
(* have neither a run nor a wake without an excuse.                        *)
THEOREM TheAlarmIsSilent == Spec => []LostWakeAlarmSilent
<1>1. Init => Explained
  BY ConstantsAssumption DEF Init, Explained, Excuse
<1>2. TypeOK /\ Selection /\ Explained /\ [Next]_vars => Explained'
  BY ExplainedStep
<1>3. Explained => LostWakeAlarmSilent
  BY DEF Explained, LostWakeAlarmSilent, LostWakeScan, Excuse
<1> QED BY <1>1, <1>2, <1>3, TypeCorrect, PTL DEF Spec

-----------------------------------------------------------------------------
(* The in-flight cap *)

(* The live turns the tick's counter stands for: all but the one that was  *)
(* opened and is not dispatched yet.                                       *)
Counted == LiveWorkers \ (IF pc = "reserve" THEN {cur} ELSE {})

InTheLoop == pc \in {"loop", "backoff", "open", "reserve", "pause"}

(* The counter is read once a tick and only raised; turns end meanwhile.   *)
Slots ==
  /\ InFlightBounded
  /\ InTheLoop => Cardinality(Counted) <= inFlight
  /\ pc \in {"open", "reserve"} => FreeSlot(cur)

LEMMA FiniteTurns ==
  /\ IsFiniteSet(Workers)
  /\ \A S \in SUBSET Workers : IsFiniteSet(S) /\ Cardinality(S) \in Nat
<1>1. IsFiniteSet(Workers)
  BY ConstantsAssumption, FS_Subset, Workers \in SUBSET Agent DEF Workers
<1> QED BY <1>1, FS_Subset, FS_CardinalityType

LEMMA LiveAreWorkers == LiveWorkers \in SUBSET Workers /\ Counted \in SUBSET Workers
BY DEF LiveWorkers, Counted

(* A step that opens no run and leaves the counter to its loop.            *)
LEMMA TurnsEnd ==
  ASSUME Slots, LiveWorkers' \subseteq LiveWorkers,
         InTheLoop' => /\ InTheLoop /\ inFlight' = inFlight
                       /\ pc = "reserve" => pc' = "reserve" /\ cur' = cur,
         (pc \in {"open", "reserve"} => FreeSlot(cur))', inFlight \in Nat
  PROVE  Slots'
<1>1. \A S, T \in SUBSET Workers : S \subseteq T => Cardinality(S) <= Cardinality(T)
  BY FiniteTurns, FS_Subset
<1>2. LiveWorkers' \in SUBSET Workers /\ Counted' \in SUBSET Workers
  BY DEF LiveWorkers, Counted
<1>3. Cardinality(LiveWorkers') <= Cardinality(LiveWorkers)
  BY <1>1, <1>2, LiveAreWorkers
<1>4. InFlightBounded'
  BY <1>2, <1>3, LiveAreWorkers, FiniteTurns, ConstantsAssumption DEF Slots, InFlightBounded
<1>5. ASSUME InTheLoop' PROVE Cardinality(Counted') <= inFlight'
  <2>1. Counted' \subseteq Counted
    BY <1>5 DEF Counted
  <2>2. Cardinality(Counted') <= Cardinality(Counted)
    BY <1>1, <1>2, <2>1, LiveAreWorkers
  <2>3. Cardinality(Counted) <= inFlight /\ inFlight' = inFlight
    BY <1>5 DEF Slots
  <2> QED BY <1>2, <2>2, <2>3, LiveAreWorkers, FiniteTurns
<1> QED BY <1>4, <1>5 DEF Slots

(* Only OpenRun makes a turn live.                                         *)
LEMMA NothingElseOpens ==
  ASSUME TypeOK, Selection, [Next]_vars, ~OpenRun
  PROVE  LiveWorkers' \subseteq LiveWorkers
<1> DEFINE Idle == \A b \in Agent : turn[b] = "none" => turn'[b] = "none"
<1> SUFFICES Idle
  BY DEF LiveWorkers, Live, Workers
<1>1. UNCHANGED turn => Idle
  OBVIOUS
<1>2. ASSUME NEW a \in Agent, NEW u, turn[a] # "none" \/ u = "none",
             turn' = [turn EXCEPT ![a] = u]
      PROVE  Idle
  BY <1>2 DEF TypeOK
<1> HIDE DEF Idle
<1>3. CASE Reconciling
  <2>1. CASE Start \/ ReconcileDone
    BY <1>1, <2>1 DEF Start, ReconcileDone, runVars
  <2>2. ASSUME NEW a \in Agent, SettleLost(a) PROVE Idle
    <3>1. turn[a] # "none" /\ turn' = [turn EXCEPT ![a] = "none"]
      BY <2>2 DEF SettleLost, Succeed, Lost
    <3> QED BY <1>2, <3>1
  <2>3. ASSUME NEW a \in Agent, Adopt(a) PROVE Idle
    BY <1>1, <2>3 DEF Adopt, runVars
  <2> QED BY <1>3, <2>1, <2>2, <2>3 DEF Reconciling
<1>4. CASE Ticking
  <2>1. CASE Select \/ BackoffWithoutRun \/ PauseExhausted \/ LoopEnds \/ TickEnds
    BY <1>1, <2>1 DEF Select, BackoffWithoutRun, PauseExhausted, LoopEnds, TickEnds, runVars
  <2>2. ASSUME NEW a \in Agent, Skip(a) \/ Precondition(a) PROVE Idle
    BY <1>1, <2>2 DEF Skip, Precondition, runVars
  <2>3. CASE BudgetExhausted
    <3>1. cur \in Agent /\ turn' = [turn EXCEPT ![cur] = "none"]
      BY <2>3 DEF BudgetExhausted, Succeed, Selection
    <3> QED BY <1>2, <3>1
  <2>4. CASE Dispatch
    <3>1. cur \in Agent /\ turn[cur] # "none" /\ turn' = [turn EXCEPT ![cur] = "session"]
      BY <2>4 DEF Dispatch, Selection
    <3> QED BY <1>2, <3>1
  <2> QED BY <1>4, <2>1, <2>2, <2>3, <2>4 DEF Ticking
<1>5. CASE Crash
  <2>1. ASSUME NEW a \in Agent, turn[a] = "none" PROVE turn'[a] = "none"
    <3>1. turn'[a] \in AfterCrash(a)
      BY <1>5 DEF Crash
    <3> QED BY <2>1, <3>1 DEF AfterCrash
  <2> QED BY <2>1 DEF Idle
<1>6. CASE Server
  <2>1. ASSUME NEW a \in Agent, Activate(a) \/ PauseAgent(a) \/ RetireAgent(a) PROVE Idle
    BY <1>1, <2>1 DEF Activate, PauseAgent, RetireAgent, runVars
  <2>2. ASSUME NEW a \in Agent, NEW m \in Mail, HumanMessage(a, m) PROVE Idle
    BY <1>1, <2>2 DEF HumanMessage, runVars
  <2>3. ASSUME NEW a \in Agent, NEW k \in Ask, Promote(a, k) PROVE Idle
    BY <1>1, <2>3 DEF Promote, runVars
  <2>4. ASSUME NEW k \in Ask, Answer(k) \/ CancelAsk(k) PROVE Idle
    <3>1. ReleaseWaitingRun(ask[k].of)
      BY <2>4 DEF Answer, CancelAsk
    <3> QED BY <3>1 DEF ReleaseWaitingRun, TypeOK, Idle
  <2> QED BY <1>6, <2>1, <2>2, <2>3, <2>4 DEF Server
<1>7. CASE Clock
  BY <1>1, <1>7 DEF Clock, ComesDue, LaneReopens, runVars
<1>8. ASSUME NEW a \in Agent, Settling(a) PROVE Idle
  <2>1. CASE SessionReady(a)
    BY <1>2, <2>1 DEF SessionReady
  <2>2. CASE SessionFails(a)
    BY <1>2, <2>2 DEF SessionFails, Succeed
  <2>3. CASE ReadExit(a)
    BY <1>2, <2>3 DEF ReadExit
  <2>4. ASSUME NEW outcome \in Outcome, Settle(a, outcome) PROVE Idle
    <3> DEFINE end == IF outcome = "BLOCKED" THEN "waiting" ELSE "none"
    <3>1. turn[a] = "applying" /\ turn' = [turn EXCEPT ![a] = end]
      BY <2>4 DEF Settle, Succeed
    <3> HIDE DEF end
    <3> QED BY <1>2, <3>1
  <2> QED BY <1>8, <2>1, <2>2, <2>3, <2>4 DEF Settling
<1>9. ASSUME NEW a \in Agent, Filing(a) PROVE Idle
  BY <1>1, <1>9 DEF Filing, FileSend, FileAsk, runVars
<1>10. ASSUME NEW a \in Agent, Pane(a) PROVE Idle
  <2>1. CASE PaneDies(a) \/ PollFails(a)
    BY <1>2, <2>1 DEF PaneDies, PollFails
  <2>2. ASSUME NEW r \in Result, PaneExits(a, r) PROVE Idle
    BY <1>2, <2>2 DEF PaneExits
  <2> QED BY <1>10, <2>1, <2>2 DEF Pane
<1>11. CASE UNCHANGED vars
  BY <1>1, <1>11 DEF vars, runVars
<1> QED BY <1>3, <1>4, <1>5, <1>6, <1>7, <1>8, <1>9, <1>10, <1>11 DEF Next

(* What the remaining steps do to the loop.                                *)
Keeps ==
  \/ UNCHANGED <<pc, cur, inFlight>>
  \/ pc' \in {"down", "reconcile", "tick", "await"}
  \/ pc \in {"backoff", "pause"} /\ pc' = "loop" /\ inFlight' = inFlight

LEMMA OthersKeep ==
  ASSUME [Next]_vars, ~Select, ~OpenRun, ~BudgetExhausted, ~Dispatch,
         \A a \in Agent : ~Precondition(a)
  PROVE  Keeps
<1> HIDE DEF Keeps
<1>1. UNCHANGED supVars => Keeps
  BY DEF supVars, Keeps
<1>2. UNCHANGED <<pc, cur, started, inFlight>> => Keeps
  BY DEF Keeps
<1>3. pc' \in {"down", "reconcile", "tick", "await"} => Keeps
  BY DEF Keeps
<1>4. CASE Reconciling
  <2>1. CASE Start \/ ReconcileDone
    BY <1>3, <2>1 DEF Start, ReconcileDone
  <2>2. ASSUME NEW a \in Agent, SettleLost(a) \/ Adopt(a) PROVE Keeps
    BY <1>2, <2>2 DEF SettleLost, Adopt
  <2> QED BY <1>4, <2>1, <2>2 DEF Reconciling
<1>5. CASE Ticking
  <2>1. CASE LoopEnds \/ TickEnds
    BY <1>3, <2>1 DEF LoopEnds, TickEnds
  <2>2. CASE BackoffWithoutRun \/ PauseExhausted
    BY <2>2 DEF BackoffWithoutRun, PauseExhausted, Keeps
  <2>3. ASSUME NEW a \in Agent, Skip(a) PROVE Keeps
    BY <1>2, <2>3 DEF Skip
  <2> QED BY <1>5, <2>1, <2>2, <2>3 DEF Ticking
<1>6. CASE Crash
  BY <1>3, <1>6 DEF Crash
<1>7. CASE Server
  <2>1. ASSUME NEW a \in Agent, Activate(a) \/ PauseAgent(a) \/ RetireAgent(a) PROVE Keeps
    BY <1>1, <2>1 DEF Activate, PauseAgent, RetireAgent
  <2>2. ASSUME NEW a \in Agent, NEW m \in Mail, HumanMessage(a, m) PROVE Keeps
    BY <1>1, <2>2 DEF HumanMessage
  <2>3. ASSUME NEW a \in Agent, NEW k \in Ask, Promote(a, k) PROVE Keeps
    BY <1>1, <2>3 DEF Promote
  <2>4. ASSUME NEW k \in Ask, Answer(k) \/ CancelAsk(k) PROVE Keeps
    BY <1>1, <2>4 DEF Answer, CancelAsk
  <2> QED BY <1>7, <2>1, <2>2, <2>3, <2>4 DEF Server
<1>8. CASE Clock
  BY <1>1, <1>8 DEF Clock, ComesDue, LaneReopens
<1>9. ASSUME NEW a \in Agent, Settling(a) PROVE Keeps
  <2>1. CASE SessionReady(a) \/ SessionFails(a) \/ ReadExit(a)
    BY <1>1, <2>1 DEF SessionReady, SessionFails, ReadExit
  <2>2. ASSUME NEW outcome \in Outcome, Settle(a, outcome) PROVE Keeps
    BY <1>2, <2>2 DEF Settle
  <2> QED BY <1>9, <2>1, <2>2 DEF Settling
<1>10. ASSUME NEW a \in Agent, Filing(a) PROVE Keeps
  BY <1>1, <1>10 DEF Filing, FileSend, FileAsk
<1>11. ASSUME NEW a \in Agent, Pane(a) PROVE Keeps
  BY <1>1, <1>11 DEF Pane, PaneDies, PollFails, PaneExits
<1>12. CASE UNCHANGED vars
  BY <1>1, <1>12 DEF vars
<1> QED BY <1>4, <1>5, <1>6, <1>7, <1>8, <1>9, <1>10, <1>11, <1>12 DEF Next

(* Only these steps touch the counter or open a run.                       *)
LEMMA SlotStep ==
  ASSUME TypeOK, Selection, Slots, [Next]_vars
  PROVE  Slots'
<1> inFlight \in Nat /\ LiveWorkers \in SUBSET Workers /\ Counted \in SUBSET Workers
  BY LiveAreWorkers DEF TypeOK
<1>1. \A S, T \in SUBSET Workers : S \subseteq T => Cardinality(S) <= Cardinality(T)
  BY FiniteTurns, FS_Subset
<1>2. LiveWorkers' \in SUBSET Workers /\ Counted' \in SUBSET Workers
  BY DEF LiveWorkers, Counted
<1>3. Cardinality(LiveWorkers') \in Nat /\ Cardinality(Counted') \in Nat
      /\ Cardinality(LiveWorkers) \in Nat /\ Cardinality(Counted) \in Nat
  BY <1>2, FiniteTurns
<1>4. ~OpenRun => LiveWorkers' \subseteq LiveWorkers
  BY NothingElseOpens
<1>5. ~OpenRun => InFlightBounded'
  BY <1>1, <1>2, <1>3, <1>4, ConstantsAssumption DEF Slots, InFlightBounded
<1>6. CASE Select
  <2>1. UNCHANGED turn /\ inFlight' = Cardinality(LiveWorkers) /\ pc' = "loop" /\ ~OpenRun
    BY <1>6 DEF Select, OpenRun, runVars
  <2>2. Counted' = LiveWorkers
    BY <2>1 DEF Counted, LiveWorkers, Live
  <2> QED BY <1>3, <1>5, <2>1, <2>2 DEF Slots
<1>7. CASE OpenRun
  <2>1. /\ pc = "open" /\ pc' = "reserve" /\ cur' = cur /\ inFlight' = inFlight
        /\ cur \in Agent /\ turn' = [turn EXCEPT ![cur] = "opened"]
    BY <1>7 DEF OpenRun, Selection
  <2>2. Counted = LiveWorkers /\ Counted' \subseteq LiveWorkers
    BY <2>1 DEF Counted, LiveWorkers, Live, TypeOK
  <2>3. Cardinality(LiveWorkers) <= inFlight /\ FreeSlot(cur)
    BY <2>1, <2>2 DEF Slots, InTheLoop
  <2>4. Cardinality(Counted') <= inFlight'
    BY <1>1, <1>2, <1>3, <2>1, <2>2, <2>3
  <2>5. FreeSlot(cur)'
    BY <2>1, <2>3 DEF FreeSlot
  <2>6. InFlightBounded'
    <3>1. CASE cur = Orchestrator
      <4>1. LiveWorkers' \subseteq LiveWorkers
        BY <2>1, <3>1 DEF LiveWorkers, Live, TypeOK, Workers
      <4> QED BY <1>1, <1>2, <1>3, <4>1, ConstantsAssumption DEF Slots, InFlightBounded
    <3>2. CASE cur # Orchestrator
      <4>1. LiveWorkers' \subseteq LiveWorkers \cup {cur} /\ LiveWorkers \cup {cur} \in SUBSET Workers
        BY <2>1, <3>2 DEF LiveWorkers, Live, TypeOK, Workers
      <4>2. Cardinality(LiveWorkers \cup {cur}) <= Cardinality(LiveWorkers) + 1
        BY <1>3, FiniteTurns, FS_AddElement
      <4>3. Cardinality(LiveWorkers \cup {cur}) \in Nat
        BY <4>1, FiniteTurns
      <4>4. Cardinality(LiveWorkers') <= Cardinality(LiveWorkers \cup {cur})
        BY <1>1, <1>2, <4>1
      <4>5. inFlight < MaxInFlight
        BY <2>3, <3>2 DEF FreeSlot
      <4> QED BY <1>3, <2>3, <4>2, <4>3, <4>4, <4>5, ConstantsAssumption DEF InFlightBounded
    <3> QED BY <3>1, <3>2
  <2> QED BY <2>4, <2>5, <2>6 DEF Slots
<1>8. ASSUME NEW a \in Agent, Precondition(a) PROVE Slots'
  <2>1. /\ pc = "loop" /\ pc' \in {"open", "backoff"} /\ UNCHANGED <<turn, inFlight>>
        /\ FreeSlot(a) /\ cur' = a /\ ~OpenRun
    BY <1>8 DEF Precondition, Considered, OpenRun, runVars
  <2>2. Counted' = Counted
    BY <2>1 DEF Counted, LiveWorkers, Live
  <2>3. FreeSlot(cur)'
    BY <2>1 DEF FreeSlot
  <2> QED BY <1>5, <2>1, <2>2, <2>3 DEF Slots, InTheLoop
<1>9. CASE BudgetExhausted
  <2>1. /\ pc = "reserve" /\ pc' = "pause" /\ inFlight' = inFlight /\ ~OpenRun
        /\ cur \in Agent /\ turn' = [turn EXCEPT ![cur] = "none"]
    BY <1>9 DEF BudgetExhausted, Succeed, Selection, OpenRun
  <2>2. Counted' \subseteq Counted
    BY <2>1 DEF Counted, LiveWorkers, Live, TypeOK
  <2> QED BY <1>1, <1>2, <1>3, <1>5, <2>1, <2>2 DEF Slots, InTheLoop
<1>10. CASE Dispatch
  <2>1. /\ pc = "reserve" /\ pc' = "loop" /\ ~OpenRun /\ cur \in Agent
        /\ inFlight' = IF cur = Orchestrator THEN inFlight ELSE inFlight + 1
    BY <1>10 DEF Dispatch, Selection, OpenRun
  <2>2. Counted' = LiveWorkers' /\ LiveWorkers' \subseteq LiveWorkers
    BY <1>4, <2>1 DEF Counted
  <2>3. Cardinality(Counted) <= inFlight
    BY <2>1 DEF Slots, InTheLoop
  <2>4. CASE cur = Orchestrator
    <3>1. Counted' \subseteq Counted
      BY <2>1, <2>2, <2>4 DEF Counted, LiveWorkers, Workers
    <3> QED BY <1>1, <1>2, <1>3, <1>5, <2>1, <2>3, <2>4, <3>1 DEF Slots
  <2>5. CASE cur # Orchestrator
    <3>1. Counted' \subseteq Counted \cup {cur} /\ Counted \cup {cur} \in SUBSET Workers
      BY <2>1, <2>2, <2>5 DEF Counted, Workers
    <3>2. Cardinality(Counted \cup {cur}) <= Cardinality(Counted) + 1
      BY <1>3, FiniteTurns, FS_AddElement
    <3>3. Cardinality(Counted \cup {cur}) \in Nat
      BY <3>1, FiniteTurns
    <3>4. Cardinality(Counted') <= Cardinality(Counted \cup {cur})
      BY <1>1, <1>2, <3>1
    <3> QED BY <1>3, <1>5, <2>1, <2>3, <2>5, <3>2, <3>3, <3>4 DEF Slots
  <2> QED BY <2>4, <2>5
<1>11. CASE Keeps /\ ~OpenRun
  <2>1. InTheLoop' => /\ InTheLoop /\ inFlight' = inFlight
                      /\ pc = "reserve" => pc' = "reserve" /\ cur' = cur
    BY <1>11 DEF Keeps, InTheLoop
  <2>2. (pc \in {"open", "reserve"} => FreeSlot(cur))'
    BY <1>11 DEF Keeps, Slots, FreeSlot
  <2> QED BY <1>4, <1>11, <2>1, <2>2, TurnsEnd
<1> QED BY <1>6, <1>7, <1>8, <1>9, <1>10, <1>11, OthersKeep

(* Adopted, orphaned and waiting turns of ordinary workers together never  *)
(* exceed the cap, in any fleet, over any number of ticks and restarts.    *)
THEOREM CapHolds == Spec => []InFlightBounded
<1>1. Init => Slots
  <2> SUFFICES ASSUME Init PROVE Slots
    OBVIOUS
  <2>1. LiveWorkers = {}
    BY DEF Init, LiveWorkers, Live, Workers
  <2>2. Cardinality(LiveWorkers) = 0
    BY <2>1, FS_EmptySet
  <2>3. pc = "down"
    BY DEF Init
  <2> QED BY <2>2, <2>3, ConstantsAssumption DEF Slots, InFlightBounded, InTheLoop
<1>2. TypeOK /\ Selection /\ Slots /\ [Next]_vars => Slots'
  BY SlotStep
<1>3. Slots => InFlightBounded
  BY DEF Slots
<1> QED BY <1>1, <1>2, <1>3, TypeCorrect, PTL DEF Spec
=============================================================================
