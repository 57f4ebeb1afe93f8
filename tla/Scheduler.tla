----------------------------- MODULE Scheduler -----------------------------
(***************************************************************************)
(* The scheduling core of the fleet: two processes over one SQLite file.   *)
(* The supervisor (supervisor/main.ts) reconciles orphaned runs, ticks,    *)
(* dispatches turns and settles them; the server (server/main.ts) delivers *)
(* human messages, records verdicts and changes agents at any moment.      *)
(*                                                                         *)
(* One action is one SQLite transaction, or a stretch of supervisor code   *)
(* whose reads no other process can invalidate.  Clock values are          *)
(* abstracted to what the tick compares: a wake is "never" (NULL),         *)
(* "later" or "now"; a verdict was answered "before" or "during" the       *)
(* agent's latest run.                                                     *)
(*                                                                         *)
(* A definition named Slip... is no part of the system: it is a plausible  *)
(* mistake in the definition below it, which the checks must notice.       *)
(***************************************************************************)
EXTENDS Naturals, FiniteSets, Wakes

CONSTANTS
  Agent,        (* rows of agents                                          *)
  Orchestrator, (* the reserved slug                                       *)
  Policy,       (* wake policy kind of each agent                          *)
  Parent,       (* parent_agent_id of each agent, or NoOne                 *)
  Lane, NoLane, (* vendors, and "no harness"                               *)
  LaneOf,       (* harness of each agent                                   *)
  Mail, Ask,    (* identities of messages and of approval requests         *)
  MaxInFlight,  (* AOA_MAX_IN_FLIGHT                                       *)
  MaxDispatch,  (* turns started in one tick                               *)
  Hazards       (* rare interferences this instance admits, see Hazard     *)

(* What an instance may let happen.  "session": the supervisor dies while  *)
(* ensureSession's job runs.  "verdict": a turn settles BLOCKED on a       *)
(* question that was answered while it ran.  "backoff": the server commits *)
(* between the precondition's read and backoffWithoutRun's write.          *)
(* "unasked": an agent says BLOCKED with no question open.  "budget": the  *)
(* daily budget refuses a run.                                             *)
Hazard == {"session", "verdict", "backoff", "unasked", "budget"}
NoOne == "nobody"
Unassigned == "unassigned"
MaxAttempts == 3

ASSUME ConstantsAssumption ==
  /\ IsFiniteSet(Agent)
  /\ NoOne \notin Agent /\ Unassigned \notin Agent
  /\ Policy \in [Agent -> Kind]
  /\ Parent \in [Agent -> Agent \cup {NoOne}]
  /\ NoLane \notin Lane
  /\ LaneOf \in [Agent -> Lane \cup {NoLane}]
  /\ MaxInFlight \in Nat
  /\ MaxDispatch \in Nat \ {0}
  /\ Hazards \subseteq Hazard

VARIABLES
  status, due, reason,     (* agents: status, next_due_at, wake_reason     *)
  turn, watched, result,   (* the live run of each agent and its executor  *)
  mail, ask,               (* message_deliveries and approval_requests     *)
  gate,                    (* provider_gates                               *)
  pc, todo, cur,           (* where the supervisor loop is                 *)
  started, inFlight        (* the tick's two counters                      *)

agentVars == <<status, due, reason>>
runVars   == <<turn, watched, result>>
supVars   == <<pc, todo, cur, started, inFlight>>
vars      == <<agentVars, runVars, mail, ask, gate, supVars>>

-----------------------------------------------------------------------------
(* Types *)

Status  == {"DRAFT", "ACTIVE", "PAUSED", "RETIRED"}

(* What a finished executor left behind: a turn whose agent declared some  *)
(* outcome, a vendor refusal, a turn that exited non-zero or broke the     *)
(* vendor guard, or the capture of a session-ensure job, which has no turn.*)
Result  == {"declared", "refused", "broken", "empty"}

(* The live run of an agent.  "opened": row inserted, no job.  "session":  *)
(* the inbox is leased and the ensureSession job is starting or in the     *)
(* pane.  "running": the prompt is.                                        *)
(* "exited": the exit sentinel is there.  "dead": the heartbeat is stale.  *)
(* "applying": applyResult is reading the capture.  "orphan": a crash left *)
(* the row without a job dir.  "waiting": waiting_human.                   *)
Phase   == {"none", "opened", "session", "running", "exited", "dead",
            "applying", "orphan", "waiting"}

(* A row has a recipient, or an asker, from the moment it is written.       *)
MailRow ==
  [state: {"unsent"}, to: {Unassigned}, kind: {"human"}, attempts: {0}, read: {FALSE}]
  \cup [state: {"QUEUED", "LEASED", "ACKED", "DEAD"}, to: Agent,
        kind: {"human", "agent_to_agent"}, attempts: 0..MaxAttempts, read: BOOLEAN]
AskRow ==
  [state: {"unfiled"}, of: {Unassigned}, when: {"unanswered"}, consumed: {FALSE}, told: {"no"}]
  \cup [state: {"PENDING", "APPROVED", "CANCELLED"}, of: Agent,
        when: {"unanswered", "before", "during"}, consumed: BOOLEAN,
        told: {"no", "packed", "yes"}]

TypeOK ==
  /\ status \in [Agent -> Status]
  /\ due \in [Agent -> Due]
  /\ reason \in [Agent -> Reason]
  /\ turn \in [Agent -> Phase]
  /\ watched \in SUBSET Agent
  /\ result \in [Agent -> Result \cup {"none"}]
  /\ mail \in [Mail -> MailRow]
  /\ ask \in [Ask -> AskRow]
  /\ gate \in [Lane -> {"none", "open", "shut"}]
  /\ pc \in {"down", "reconcile", "tick", "loop", "backoff", "open", "reserve",
             "pause", "await"}
  /\ todo \in SUBSET Agent
  /\ cur \in Agent \cup {NoOne}
  /\ started \in 0..MaxDispatch
  /\ inFlight \in Nat

-----------------------------------------------------------------------------
(* What the store answers *)

Live(a)       == turn[a] # "none"
SlipUnfinished == {a \in Agent : turn[a] \notin {"none", "waiting", "opened"}}
Unfinished    == {a \in Agent : turn[a] \notin {"none", "waiting"}}
Workers       == Agent \ {Orchestrator}
LiveWorkers   == {a \in Workers : Live(a)}
LaneShut(a)   == LaneOf[a] \in Lane /\ gate[LaneOf[a]] = "shut"

Inbox(a, states) == {m \in Mail : mail[m].to = a /\ mail[m].state \in states}
Pending(a) == Inbox(a, {"QUEUED", "LEASED"})
Mine(a)    == Inbox(a, {"LEASED"})
Owed(a) == {k \in Ask : ask[k].of = a /\ ask[k].state = "APPROVED" /\ ~ask[k].consumed}


SlipHasWork(a) == Pending(a) # {} \/ Policy[a] # "on_message"
HasWork(a)     == Pending(a) # {} \/ Owed(a) # {} \/ Policy[a] # "on_message"

SlipLaneWake(a) == Wake("never", "schedule")

(* laneBlockedUntil ?? now + 1h, once the outcome is RATE_LIMITED.          *)
LaneWake(a) ==
  Wake(IF LaneOf[a] \in Lane /\ gate[LaneOf[a]] = "open" THEN "now" ELSE "later",
       "schedule")

-----------------------------------------------------------------------------
(* Writes shared by several handlers *)

SetAgent(a, s, w) ==
  /\ status' = [status EXCEPT ![a] = s]
  /\ due' = [due EXCEPT ![a] = w.due]
  /\ reason' = [reason EXCEPT ![a] = w.reason]

BumpWake(a, why) == SetAgent(a, status[a], Wake("now", why))

SlipReleaseNone(a)== turn' = turn
SlipReleaseAny(a) == turn' = [turn EXCEPT ![a] = "none"]

ReleaseWaitingRun(a) ==
  turn' = [turn EXCEPT ![a] = IF @ = "waiting" THEN "none" ELSE @]

SlipDeliverAndWake(m, a, kind, why) ==
  /\ mail[m].state = "unsent"
  /\ mail' = [mail EXCEPT ![m] = [@ EXCEPT !.state = "QUEUED", !.to = a, !.kind = kind]]
  /\ UNCHANGED agentVars

DeliverAndWake(m, a, kind, why) ==
  /\ mail[m].state = "unsent"
  /\ mail' = [mail EXCEPT ![m] = [@ EXCEPT !.state = "QUEUED", !.to = a, !.kind = kind]]
  /\ IF status[a] = "ACTIVE" THEN BumpWake(a, why) ELSE UNCHANGED agentVars

SlipFileQuestion(k, a) ==
  /\ ask[k].state = "unfiled"
  /\ ask' = [ask EXCEPT ![k] = [@ EXCEPT !.state = "PENDING"]]

FileQuestion(k, a) ==
  /\ ask[k].state = "unfiled"
  /\ ask' = [ask EXCEPT ![k] = [@ EXCEPT !.state = "PENDING", !.of = a]]

(* The settle: the run's end and its successor's wake, in one transaction. *)
SlipConsumes(outcome) == outcome # "RATE_LIMITED"
Consumes(outcome)     == outcome \in {"WORK_DONE", "NO_WORK", "BLOCKED"}

SlipSpent(row) == row.attempts >= MaxAttempts - 1 /\ row.kind # "human"
Spent(row)     == row.attempts >= MaxAttempts /\ row.kind # "human"

SettledMail(a, outcome) ==
  [m \in Mail |->
     IF m \notin Mine(a) THEN mail[m]
     ELSE [mail[m] EXCEPT !.state = IF Consumes(outcome)  THEN "ACKED"
                                    ELSE IF Spent(mail[m]) THEN "DEAD"
                                    ELSE "QUEUED"]]

(* The verdicts the run is taken to have acted on: answered before it began.*)
Carried(a) == {k \in Owed(a) : ask[k].when = "before"}

SettledAsks(a, outcome) ==
  [k \in Ask |-> IF Consumes(outcome) /\ k \in Carried(a)
                 THEN [ask[k] EXCEPT !.consumed = TRUE] ELSE ask[k]]

SlipHumanBumped(a) ==
  /\ reason[a] = "human"
  /\ \E k \in Ask : /\ ask[k].of = a /\ ask[k].state = "APPROVED"
                    /\ ask[k].when = "before"

HumanBumped(a) ==
  /\ reason[a] = "human"
  /\ \E k \in Ask : /\ ask[k].of = a /\ ask[k].state = "APPROVED"
                    /\ ask[k].when = "during"

MailCame(a, outcome) == Consumes(outcome) /\ Inbox(a, {"QUEUED"}) # {}

SuccessorWake(a, outcome) ==
  LET computed == IF outcome = "RATE_LIMITED" THEN LaneWake(a)
                                              ELSE NextWake(Policy[a], outcome)
  IN  IF HumanBumped(a)
      THEN Wake(IF due[a] = "never" THEN "now" ELSE due[a], "human")
      ELSE IF MailCame(a, outcome) /\ computed.due # "now" THEN Wake("now", "event")
      ELSE computed

Succeed(a, outcome, to) ==
  /\ turn' = [turn EXCEPT ![a] = to]
  /\ result' = [result EXCEPT ![a] = "none"]
  /\ watched' = watched \ {a}
  /\ mail' = SettledMail(a, outcome)
  /\ ask' = SettledAsks(a, outcome)
  /\ SetAgent(a, status[a], SuccessorWake(a, outcome))
  /\ UNCHANGED gate

-----------------------------------------------------------------------------
(* The supervisor: reconcile, then one tick, forever *)

(* Only a turn that is settling moves; the code has no await in between.    *)
NothingApplying == \A b \in Agent : turn[b] # "applying"

Start ==
  /\ pc = "down"
  /\ pc' = "reconcile" /\ todo' = Unfinished
  /\ UNCHANGED <<agentVars, runVars, mail, ask, gate, cur, started, inFlight>>

SlipLost(a) == turn[a] \in {"opened", "orphan", "dead", "running"}
Lost(a)     == turn[a] \in {"opened", "orphan", "dead"}

SettleLost(a) ==
  /\ pc = "reconcile" /\ a \in todo /\ Lost(a) /\ NothingApplying
  /\ Succeed(a, "RETRYABLE_ERROR", "none")
  /\ todo' = todo \ {a}
  /\ UNCHANGED <<pc, cur, started, inFlight>>

Adopt(a) ==
  /\ pc = "reconcile" /\ a \in todo /\ NothingApplying
  /\ turn[a] \in {"session", "running"}
  /\ todo' = todo \ {a}
  /\ UNCHANGED <<agentVars, runVars, mail, ask, gate, pc, cur, started, inFlight>>

ReconcileDone ==
  /\ pc = "reconcile" /\ todo = {}
  /\ pc' = "tick"
  /\ UNCHANGED <<agentVars, runVars, mail, ask, gate, todo, cur, started, inFlight>>

Select ==
  /\ pc = "tick"
  /\ todo' = {a \in Agent : status[a] = "ACTIVE" /\ due[a] = "now"}
  /\ inFlight' = Cardinality(LiveWorkers)
  /\ started' = 0
  /\ pc' = "loop"
  /\ UNCHANGED <<agentVars, runVars, mail, ask, gate, cur>>

(* The reserved slug is considered first and has no in-flight cap.          *)
SlipHead == todo
Head     == IF Orchestrator \in todo THEN {Orchestrator} ELSE todo

SlipFreeSlot(a) == a = Orchestrator \/ inFlight <= MaxInFlight
FreeSlot(a)     == a = Orchestrator \/ inFlight < MaxInFlight

Considered(a) == pc = "loop" /\ a \in Head /\ started < MaxDispatch /\ FreeSlot(a)

Skip(a) ==
  /\ Considered(a) /\ (Live(a) \/ LaneShut(a))
  /\ todo' = todo \ {a}
  /\ UNCHANGED <<agentVars, runVars, mail, ask, gate, pc, cur, started, inFlight>>

Precondition(a) ==
  /\ Considered(a) /\ ~Live(a) /\ ~LaneShut(a)
  /\ todo' = todo \ {a} /\ cur' = a
  /\ pc' = IF HasWork(a) THEN "open" ELSE "backoff"
  /\ UNCHANGED <<agentVars, runVars, mail, ask, gate, started, inFlight>>

BackoffWithoutRun ==
  /\ pc = "backoff"
  /\ SetAgent(cur, status[cur], NextWake(Policy[cur], "NO_WORK"))
  /\ pc' = "loop" /\ cur' = NoOne
  /\ UNCHANGED <<runVars, mail, ask, gate, todo, started, inFlight>>

(* With one supervisor the unique index never refuses: nothing else opens.  *)
OpenRun ==
  /\ pc = "open"
  /\ turn' = [turn EXCEPT ![cur] = "opened"]
  /\ watched' = watched \cup {cur}
  /\ ask' = [k \in Ask |-> IF ask[k].of = cur /\ ask[k].when = "during"
                           THEN [ask[k] EXCEPT !.when = "before"] ELSE ask[k]]
  /\ pc' = "reserve"
  /\ UNCHANGED <<agentVars, result, mail, gate, todo, cur, started, inFlight>>

BudgetExhausted ==
  /\ pc = "reserve" /\ "budget" \in Hazards
  /\ Succeed(cur, "NO_WORK", "none")
  /\ pc' = "pause"
  /\ UNCHANGED <<todo, cur, started, inFlight>>

PauseExhausted ==
  /\ pc = "pause"
  /\ SetAgent(cur, "PAUSED", Wake("never", reason[cur]))
  /\ pc' = "loop" /\ cur' = NoOne
  /\ UNCHANGED <<runVars, mail, ask, gate, todo, started, inFlight>>

(* leaseFor, then assembleCapsule, then the ensureSession job.  A lease     *)
(* never outlives its run, so every row taken here is QUEUED or lapsed.     *)
Dispatch ==
  /\ pc = "reserve"
  /\ turn' = [turn EXCEPT ![cur] = "session"]
  /\ mail' = [m \in Mail |->
       IF m \in Pending(cur)
       THEN [mail[m] EXCEPT !.state = "LEASED",
                            !.attempts = IF @ < MaxAttempts THEN @ + 1 ELSE @]
       ELSE mail[m]]
  /\ ask' = [k \in Ask |->
       IF k \in Owed(cur) /\ ask[k].told = "no"
       THEN [ask[k] EXCEPT !.told = "packed"] ELSE ask[k]]
  /\ started' = started + 1
  /\ inFlight' = IF cur = Orchestrator THEN inFlight ELSE inFlight + 1
  /\ pc' = "loop" /\ cur' = NoOne
  /\ UNCHANGED <<agentVars, watched, result, gate, todo>>

LoopEnds ==
  /\ pc = "loop"
  /\ started >= MaxDispatch \/ \A a \in Head : ~FreeSlot(a)
  /\ pc' = "await" /\ todo' = {}
  /\ UNCHANGED <<agentVars, runVars, mail, ask, gate, cur, started, inFlight>>

(* Promise.all(dispatches): the tick is over when every turn it watches is. *)
TickEnds ==
  /\ pc = "await" /\ watched = {}
  /\ pc' = "reconcile" /\ todo' = Unfinished
  /\ UNCHANGED <<agentVars, runVars, mail, ask, gate, cur, started, inFlight>>

-----------------------------------------------------------------------------
(* A turn, from the session-ensure job to its settle *)

Polling(a) == pc = "await" /\ a \in watched /\ NothingApplying

SessionReady(a) ==
  /\ Polling(a) /\ turn[a] = "session"
  /\ turn' = [turn EXCEPT ![a] = "running"]
  /\ mail' = [m \in Mail |-> IF m \in Mine(a)
                             THEN [mail[m] EXCEPT !.read = TRUE] ELSE mail[m]]
  /\ ask' = [k \in Ask |-> IF ask[k].of = a /\ ask[k].told = "packed"
                           THEN [ask[k] EXCEPT !.told = "yes"] ELSE ask[k]]
  /\ UNCHANGED <<agentVars, watched, result, gate, supVars>>

SessionFails(a) ==
  /\ Polling(a) /\ turn[a] = "session"
  /\ Succeed(a, "RETRYABLE_ERROR", "none")
  /\ UNCHANGED supVars

(* The pane's own progress, whether or not a supervisor is watching.  A     *)
(* watched session job is waited for in SessionReady and SessionFails.      *)
PaneExits(a, r) ==
  /\ turn[a] = "running" \/ (turn[a] = "session" /\ a \notin watched)
  /\ r \in IF turn[a] = "running" THEN Result \ {"empty"} ELSE {"empty", "broken"}
  /\ turn' = [turn EXCEPT ![a] = "exited"]
  /\ result' = [result EXCEPT ![a] = r]
  /\ UNCHANGED <<agentVars, watched, mail, ask, gate, supVars>>

PaneDies(a) ==
  /\ turn[a] \in {"session", "running"} /\ a \notin watched
  /\ turn' = [turn EXCEPT ![a] = "dead"]
  /\ UNCHANGED <<agentVars, watched, result, mail, ask, gate, supVars>>

(* 'pane timed out', 'queued behind an orphaned prompt', 'wrapper died'.    *)
PollFails(a) ==
  /\ Polling(a) /\ turn[a] = "running"
  /\ turn' = [turn EXCEPT ![a] = "applying"]
  /\ result' = [result EXCEPT ![a] = "broken"]
  /\ UNCHANGED <<agentVars, watched, mail, ask, gate, supVars>>

(* The exit sentinel is read: by the poll, or by reconcile for a turn that  *)
(* finished unwatched.  A vendor refusal gates the lane here.               *)
ReadExit(a) ==
  /\ turn[a] = "exited"
  /\ Polling(a) \/ (pc = "reconcile" /\ a \in todo /\ NothingApplying)
  /\ turn' = [turn EXCEPT ![a] = "applying"]
  /\ gate' = IF result[a] = "refused" /\ LaneOf[a] \in Lane
             THEN [gate EXCEPT ![LaneOf[a]] = "shut"] ELSE gate
  /\ UNCHANGED <<agentVars, watched, result, mail, ask, supVars>>

FileSend(a, m, b) ==
  /\ turn[a] = "applying" /\ result[a] = "declared" /\ a # b
  /\ DeliverAndWake(m, b, "agent_to_agent", "event")
  /\ UNCHANGED <<runVars, ask, gate, supVars>>

FileAsk(a, k) ==
  /\ turn[a] = "applying" /\ result[a] = "declared"
  /\ FileQuestion(k, a)
  /\ UNCHANGED <<agentVars, runVars, mail, gate, supVars>>

AskedBy(a)      == {k \in Ask : ask[k].of = a}
MaySayBlocked(a) ==
  \/ \E k \in AskedBy(a) : ask[k].state = "PENDING"
  \/ "verdict" \in Hazards /\ \E k \in AskedBy(a) : ask[k].when = "during"
  \/ "unasked" \in Hazards

OutcomesOf(a) ==
  CASE result[a] = "refused"  -> {"RATE_LIMITED"}
    [] result[a] = "broken"   -> {"RETRYABLE_ERROR"}
    [] result[a] = "empty"    -> {"NO_WORK"}
    [] result[a] = "declared" -> IF MaySayBlocked(a) THEN Outcome ELSE Outcome \ {"BLOCKED"}

Settle(a, outcome) ==
  /\ turn[a] = "applying"
  /\ outcome \in OutcomesOf(a)
  /\ Succeed(a, outcome, IF outcome = "BLOCKED" THEN "waiting" ELSE "none")
  /\ todo' = todo \ {a}
  /\ UNCHANGED <<pc, cur, started, inFlight>>

(* What a run becomes when the supervisor watching it dies.  The job dir is *)
(* recorded after the lease and removed before the result is applied; an    *)
(* unwatched finalise removes it only after the settle.                     *)
AfterCrash(a) ==
  CASE turn[a] = "session" /\ a \in watched ->
         {"orphan"} \cup (IF "session" \in Hazards THEN {"session"} ELSE {})
    [] turn[a] = "applying" -> IF a \in watched THEN {"orphan"} ELSE {"exited"}
    [] OTHER -> {turn[a]}

Crash ==
  /\ pc # "down"
  /\ pc' = "down" /\ todo' = {} /\ cur' = NoOne
  /\ watched' = {}
  /\ turn' \in {t \in [Agent -> Phase] : \A a \in Agent : t[a] \in AfterCrash(a)}
  /\ result' = [a \in Agent |-> IF turn'[a] = "orphan" THEN "none" ELSE result[a]]
  /\ UNCHANGED <<agentVars, mail, ask, gate, started, inFlight>>

-----------------------------------------------------------------------------
(* The server, and the clock *)

(* Whether the server may write agent a's wake just now.                    *)
Reachable(a) == "backoff" \in Hazards \/ ~(pc = "backoff" /\ cur = a)

HumanMessage(a, m) ==
  /\ Reachable(a)
  /\ DeliverAndWake(m, a, "human", "human")
  /\ UNCHANGED <<runVars, ask, gate, supVars>>

Promote(a, k) ==
  /\ FileQuestion(k, a)
  /\ UNCHANGED <<agentVars, runVars, mail, gate, supVars>>

Answerable(k) ==
  /\ ask[k].state = "PENDING"
  /\ Reachable(ask[k].of)

Answer(k) ==
  /\ Answerable(k)
  /\ ask' = [ask EXCEPT ![k] = [@ EXCEPT !.state = "APPROVED", !.when = "during"]]
  /\ ReleaseWaitingRun(ask[k].of)
  /\ BumpWake(ask[k].of, "human")
  /\ UNCHANGED <<watched, result, mail, gate, supVars>>

CancelAsk(k) ==
  /\ Answerable(k)
  /\ ask' = [ask EXCEPT ![k] = [@ EXCEPT !.state = "CANCELLED", !.when = "during"]]
  /\ ReleaseWaitingRun(ask[k].of)
  /\ IF status[ask[k].of] = "ACTIVE" THEN BumpWake(ask[k].of, "human")
                                     ELSE UNCHANGED agentVars
  /\ UNCHANGED <<watched, result, mail, gate, supVars>>

(* The activate route and the resume_agent effect write the same columns.   *)
Activate(a) ==
  /\ Reachable(a)
  /\ SetAgent(a, "ACTIVE", Wake("now", "human"))
  /\ UNCHANGED <<runVars, mail, ask, gate, supVars>>

PauseAgent(a) ==
  /\ SetAgent(a, "PAUSED", Wake("never", reason[a]))
  /\ UNCHANGED <<runVars, mail, ask, gate, supVars>>

(* A retired parent takes its children with it.                             *)
Family(a) == {a} \cup {b \in Agent : Parent[b] = a}

RetireAgent(a) ==
  /\ a # Orchestrator
  /\ status' = [b \in Agent |-> IF b \in Family(a) THEN "RETIRED" ELSE status[b]]
  /\ due' = [b \in Agent |-> IF b \in Family(a) THEN "never" ELSE due[b]]
  /\ UNCHANGED <<reason, runVars, mail, ask, gate, supVars>>

ComesDue(a) ==
  /\ due[a] = "later"
  /\ due' = [due EXCEPT ![a] = "now"]
  /\ UNCHANGED <<status, reason, runVars, mail, ask, gate, supVars>>

LaneReopens(l) ==
  /\ gate[l] = "shut"
  /\ gate' = [gate EXCEPT ![l] = "open"]
  /\ UNCHANGED <<agentVars, runVars, mail, ask, supVars>>

-----------------------------------------------------------------------------
(* The specification *)

Init ==
  /\ status \in [Agent -> {"ACTIVE", "DRAFT"}]
  /\ Orchestrator \in Agent => status[Orchestrator] = "ACTIVE"
  /\ due = [a \in Agent |-> IF status[a] = "ACTIVE" /\ a # Orchestrator
                            THEN "now" ELSE "never"]
  /\ reason = [a \in Agent |-> IF a = Orchestrator THEN "event"
                               ELSE IF status[a] = "ACTIVE" THEN "schedule" ELSE "none"]
  /\ turn = [a \in Agent |-> "none"]
  /\ watched = {}
  /\ result = [a \in Agent |-> "none"]
  /\ mail = [m \in Mail |-> [state |-> "unsent", to |-> Unassigned, kind |-> "human",
                             attempts |-> 0, read |-> FALSE]]
  /\ ask = [k \in Ask |-> [state |-> "unfiled", of |-> Unassigned, when |-> "unanswered",
                           consumed |-> FALSE, told |-> "no"]]
  /\ gate = [l \in Lane |-> "none"]
  /\ pc = "down" /\ todo = {} /\ cur = NoOne
  /\ started = 0 /\ inFlight = 0

Reconciling == Start \/ ReconcileDone \/ \E a \in Agent : SettleLost(a) \/ Adopt(a)

Ticking ==
  \/ Select \/ BackoffWithoutRun \/ OpenRun \/ BudgetExhausted \/ PauseExhausted
  \/ Dispatch \/ LoopEnds \/ TickEnds
  \/ \E a \in Agent : Skip(a) \/ Precondition(a)

Settling(a) == SessionReady(a) \/ SessionFails(a) \/ ReadExit(a)
               \/ \E outcome \in Outcome : Settle(a, outcome)

Filing(a) == \/ \E m \in Mail, b \in Agent : FileSend(a, m, b)
             \/ \E k \in Ask : FileAsk(a, k)

Pane(a) == PaneDies(a) \/ PollFails(a) \/ \E r \in Result : PaneExits(a, r)

Server ==
  \/ \E a \in Agent : Activate(a) \/ PauseAgent(a) \/ RetireAgent(a)
  \/ \E a \in Agent, m \in Mail : HumanMessage(a, m)
  \/ \E a \in Agent, k \in Ask : Promote(a, k)
  \/ \E k \in Ask : Answer(k) \/ CancelAsk(k)

Clock == (\E a \in Agent : ComesDue(a)) \/ (\E l \in Lane : LaneReopens(l))

Next ==
  \/ Reconciling \/ Ticking \/ Crash \/ Server \/ Clock
  \/ \E a \in Agent : Settling(a) \/ Filing(a) \/ Pane(a)

Spec == Init /\ [][Next]_vars

(* The loop never stops by itself and is restarted when it dies; from some  *)
(* moment it stays up.  Time passes.  Humans promise nothing.               *)
LoopFairness ==
  /\ WF_vars(Reconciling \/ Ticking \/ \E a \in Agent : Settling(a))
  /\ \A a \in Agent : WF_vars(ComesDue(a))
  /\ \A l \in Lane : WF_vars(LaneReopens(l))
  /\ <>[](pc # "down")

(* acpx is started with --timeout, and the poll has a hard deadline.        *)
TurnFairness == \A a \in Agent : WF_vars(Pane(a))

FairSpec == Spec /\ LoopFairness /\ TurnFairness

(* The same, but an ordinary worker may hold its turn for as long as it     *)
(* likes (the deadline is half an hour).                                    *)
LongTurnsSpec ==
  Spec /\ LoopFairness /\ \A a \in Agent \ Workers : WF_vars(Pane(a))

-----------------------------------------------------------------------------
(* Safety, whatever interferes *)

(* Mail is LEASED only while its recipient has a run that will settle it:   *)
(* no crash, verdict, pause or retirement strands a lease nobody settles    *)
(* (messages.ts leaseFor, repo.ts succeed).                                 *)
LeasedHasLiveRun ==
  \A m \in Mail : mail[m].state = "LEASED" =>
    mail[m].to \in Agent /\ turn[mail[m].to] \notin {"none", "opened", "waiting"}

(* lostWakeScan, after every tick and at every read of the fleet.           *)
LostWakeScan ==
  {a \in Agent : /\ status[a] = "ACTIVE" /\ due[a] = "never" /\ ~Live(a)
                 /\ reason[a] \notin {"human", "manual", "event"}}

(* An ACTIVE agent with neither a live run nor a next wake sleeps for a     *)
(* reason the scan excuses: the alarm of tick.ts never goes off.            *)
LostWakeAlarmSilent == LostWakeScan = {}

(* Adopted, orphaned, waiting and freshly opened turns of ordinary agents   *)
(* together never exceed AOA_MAX_IN_FLIGHT, across ticks and restarts.      *)
InFlightBounded == Cardinality(LiveWorkers) <= MaxInFlight

-----------------------------------------------------------------------------
(* Safety, in the instances that admit none of the interferences *)

(* A run waits for a human only while a question of its agent is open, so   *)
(* a verdict or a withdrawal always sets the agent free.                    *)
WaitingHasQuestion ==
  \A a \in Agent : turn[a] = "waiting" => \E k \in AskedBy(a) : ask[k].state = "PENDING"

(* A verdict marked consumed was in the capsule of a prompt that ran.       *)
ConsumedWasRead == \A k \in Ask : ask[k].consumed => ask[k].told = "yes"

(* Mail acknowledged was in the capsule of a prompt that ran.               *)
AckedWasRead == \A m \in Mail : mail[m].state = "ACKED" => mail[m].read

-----------------------------------------------------------------------------
(* The mailboxes implement Delivery: at least once, retired only by a turn  *)
(* that was handed the letter, parked only after three tries and never when *)
(* a human wrote it.                                                        *)

Stage(row) ==
  CASE row.state = "unsent" -> "unsent"
    [] row.state = "ACKED"  -> "done"
    [] row.state = "DEAD"   -> "parked"
    [] row.state \in {"QUEUED", "LEASED"} -> IF row.read THEN "handed" ELSE "owed"

Box == [m \in Mail |-> [stage |-> Stage(mail[m]), human |-> mail[m].kind = "human",
                        tries |-> mail[m].attempts]]

D == INSTANCE Delivery WITH box <- Box, MaxTries <- MaxAttempts

AtLeastOnce == D!Spec

-----------------------------------------------------------------------------
(* Every agent's run implements Executor, as Turn does from the side of the *)
(* job directories and processes.                                           *)

Seen == [a \in Agent |-> IF turn[a] \in {"dead", "orphan"} THEN "lost" ELSE turn[a]]

E == INSTANCE Executor WITH phase <- Seen

(* A run goes through its phases in the order that Turn provides, whatever  *)
(* crashes, adoptions and verdicts interfere.                               *)
PhasesInOrder == E!Spec

-----------------------------------------------------------------------------
(* Liveness *)

(* A human took the agent off ACTIVE, or owes it an answer.                 *)
Excused(a) == a \in Agent => status[a] # "ACTIVE" \/ turn[a] = "waiting"

Queued(m)  == mail[m].state = "QUEUED"

(* Mail queued for an agent is leased by a turn, or the agent is excused.   *)
MailIsCarried == \A m \in Mail : Queued(m) ~> ~Queued(m) \/ Excused(mail[m].to)

(* The orchestrator's mail alone.                                           *)
OrchestratorIsReachable ==
  \A m \in Mail : Queued(m) /\ mail[m].to = Orchestrator
                   ~> ~Queued(m) \/ Excused(Orchestrator)

(* A verdict is put into the capsule of a turn, or the agent is excused.    *)
VerdictIsCarried ==
  \A k \in Ask : ask[k].state = "APPROVED" ~> ask[k].told # "no" \/ Excused(ask[k].of)

(* Every run ends or waits for a human: neither a crash nor an adoption     *)
(* leaves one that wedges its agent behind the one-live-run index.          *)
RunsEnd ==
  \A a \in Agent : turn[a] \notin {"none", "waiting"} ~> turn[a] \in {"none", "waiting"}
=============================================================================
