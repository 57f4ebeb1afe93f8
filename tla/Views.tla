-------------------------------- MODULE Views --------------------------------
(***************************************************************************)
(* What the workspace shows of the store and the human acts on: the status *)
(* derived from the rows at every read (supervisor/derived.ts), the list   *)
(* of questions that need an answer and the unread count                   *)
(* (server/api.ts), and the alarm for a lost wake (supervisor/repo.ts).    *)
(*                                                                         *)
(* A definition named Slip... is no part of the system: it is a plausible  *)
(* mistake in the definition below it, which the checks must notice.       *)
(***************************************************************************)
EXTENDS Scheduler

(* derive: the first that applies.  Whether an agent that is due later is   *)
(* SCHEDULED or BACKING_OFF is its idle streak, which Backoff has.          *)
Derive(a) ==
  CASE status[a] # "ACTIVE"                                  -> status[a]
    [] status[a] = "ACTIVE" /\ turn[a] = "waiting"           -> "WAITING_HUMAN"
    [] status[a] = "ACTIVE" /\ turn[a] \notin {"none", "waiting"} -> "RUNNING"
    [] OTHER ->
         CASE LaneShut(a)                                     -> "WAITING_RESOURCE"
           [] ~LaneShut(a) /\ due[a] = "now"                  -> "DUE"
           [] ~LaneShut(a) /\ due[a] = "later"                -> "SCHEDULED"
           [] ~LaneShut(a) /\ due[a] = "never"                ->
                IF reason[a] = "human" THEN "BLOCKED"
                ELSE IF Policy[a] = "manual" THEN "MANUAL" ELSE "WAITING_EVENT"

(* BLOCKER_STATUSES, the only ones that may badge.                         *)
BlocksHuman(a) == Derive(a) \in {"WAITING_HUMAN", "BLOCKED"}

(* The questions listed for the owner, and the letters an agent has unread.  *)
NeedsYou  == {k \in Ask : ask[k].state = "PENDING"}
Unread(a) == Pending(a)

-----------------------------------------------------------------------------
(* Properties, in the instances that admit none of the interferences *)

(* derived.ts:7-9, "everything else -> nothing is wrong", and api.ts:102-104, *)
(* unread mail "on an agent that never wakes is the visible form of a        *)
(* delivery that lost its bump": an agent that is shown to wait for an event, *)
(* for somebody to start it or for a human has no unread mail, and no        *)
(* verdict that it has not been told.                                       *)
QuietHasNothing ==
  \A a \in Agent : Derive(a) \in {"WAITING_EVENT", "MANUAL", "BLOCKED"}
                     => Unread(a) = {} /\ Owed(a) = {}

(* derived.ts:7-8, "you are the blocker": the badge of an agent always has a *)
(* question of that agent behind it which the owner can answer; when a       *)
(* verdict or a withdrawal leaves none, the badge is gone.                  *)
BadgeHasQuestion ==
  \A a \in Agent : BlocksHuman(a) => \E k \in NeedsYou : ask[k].of = a
=============================================================================
