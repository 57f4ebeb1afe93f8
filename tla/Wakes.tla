------------------------------- MODULE Wakes -------------------------------
(***************************************************************************)
(* The wake rules of supervisor/wake.ts with the clock abstracted away: a  *)
(* wake is "never" (next_due_at NULL), "later" or "now".  Scheduler uses   *)
(* them; Backoff checks them against the arithmetic of computeNextWake.    *)
(***************************************************************************)

Outcome == {"WORK_DONE", "NO_WORK", "RATE_LIMITED", "BLOCKED", "RETRYABLE_ERROR"}
Kind    == {"continuous", "schedule", "on_message", "manual"}
Due     == {"never", "later", "now"}

(* "none" is a wake_reason that was never written.                         *)
Reason  == {"none", "schedule", "backoff", "event", "manual", "human"}

Wake(d, r) == [due |-> d, reason |-> r]

NextWake(kind, outcome) ==
  CASE outcome = "BLOCKED"         -> Wake("never", "human")
    [] outcome = "RATE_LIMITED"    -> Wake("never", "event")
    [] outcome = "RETRYABLE_ERROR" -> Wake("later", "backoff")
    [] outcome \in {"WORK_DONE", "NO_WORK"} ->
         CASE kind = "manual"     -> Wake("never", "manual")
           [] kind = "on_message" -> Wake("never", "event")
           [] kind = "schedule"   -> Wake("later", "schedule")
           [] kind = "continuous" ->
                Wake("later", IF outcome = "WORK_DONE" THEN "schedule" ELSE "backoff")
=============================================================================
