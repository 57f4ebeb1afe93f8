------------------------------ MODULE Backoff ------------------------------
(***************************************************************************)
(* The arithmetic of the wake rules: computeNextWake and isDue of          *)
(* supervisor/wake.ts, as used by succeed (a turn settled), by             *)
(* backoffWithoutRun (a cheap check said no) and by bumpWake, for one      *)
(* agent and one lane.  Times are seconds relative to now, so the clock    *)
(* itself is no state: "wait" is next_due_at - now.                        *)
(*                                                                         *)
(* A definition named Slip... is no part of the system: it is a plausible  *)
(* mistake in the definition below it, which the checks must notice.       *)
(***************************************************************************)
EXTENDS Integers, Wakes

CONSTANTS
  Never,      (* next_due_at NULL, or a lane without a row in provider_gates *)
  Policies,   (* each [kind, floor, base, ceiling, factor, every]          *)
  Jitters,    (* jitter, in tenths                                         *)
  Gaps,       (* lengths of time that may pass in one step                 *)
  Refusals,   (* how long a vendor refusal may close the lane              *)
  MaxStreak,  (* bound on idle_streak and error_streak                     *)
  Horizon,    (* bound on "since"                                          *)
  Past        (* bound on how long ago a wake or a gate is known to have been *)

ASSUME PolicyAssumption ==
  /\ \A p \in Policies :
       /\ p.kind \in Kind
       /\ {p.floor, p.base, p.ceiling, p.every, p.factor} \subseteq Nat \ {0}
  /\ Never \notin Int
  /\ Jitters \subseteq 0..10
  /\ Gaps \subseteq Nat \ {0} /\ Refusals \subseteq Nat \ {0}
  /\ MaxStreak \in Nat \ {0} /\ Horizon \in Nat /\ Past \in Nat

ErrorBase == 30
ErrorMax  == 900
LaneFallback == 3600

VARIABLES
  policy,      (* the agent's wake policy, fixed when it is created         *)
  phase,       (* "asleep" or "running"                                    *)
  wait,        (* next_due_at - now, or Never                              *)
  reason,      (* wake_reason                                              *)
  idle, err,   (* idle_streak, error_streak                                *)
  gate,        (* provider_gates.blocked_until - now, or Never             *)
  last,        (* last_outcome                                             *)
  refused,     (* whether it was the vendor that refused, and the lane closed *)
  since,       (* time since that outcome was written                      *)
  delay,       (* the wait it was given                                    *)
  bumped       (* whether an insert has moved the wake since               *)

vars == <<policy, phase, wait, reason, idle, err, gate, last, refused, since, delay, bumped>>

Least(x, y) == IF x <= y THEN x ELSE y
Most(x, y)  == IF x >= y THEN x ELSE y

Streak(n) == Least(n + 1, MaxStreak)

(* factor ** n, which grows with n: the curve is only cut when it is capped. *)
Power(factor, n) ==
  LET power[i \in Nat] == IF i = 0 THEN 1 ELSE factor * power[i - 1] IN power[n]

SlipIdleDelayWraps(streak, jitter) ==
  LET raw == policy.base * Power(policy.factor, streak - 1)
  IN  IF raw > policy.ceiling THEN policy.base ELSE raw + (raw * jitter) \div 100

IdleDelay(streak, jitter) ==
  LET capped == Least(policy.base * Power(policy.factor, streak - 1), policy.ceiling)
  IN  capped + (capped * jitter) \div 100

SlipErrorDelay(streak) == Least(ErrorBase * (Power(2, streak - 1) - 1), ErrorMax)
ErrorDelay(streak)     == Least(ErrorBase * Power(2, streak - 1), ErrorMax)

Computed(w, r, i, e) == [wait |-> w, reason |-> r, idle |-> i, err |-> e]

ComputeNextWake(outcome, jitter) ==
  CASE outcome = "BLOCKED"         -> Computed(Never, "human", idle, 0)
    [] outcome = "RATE_LIMITED"    -> Computed(Never, "event", idle, 0)
    [] outcome = "RETRYABLE_ERROR" ->
         Computed(ErrorDelay(Streak(err)), "backoff", idle, Streak(err))
    [] outcome \in {"WORK_DONE", "NO_WORK"} ->
         CASE policy.kind = "manual"     -> Computed(Never, "manual", 0, 0)
           [] policy.kind = "on_message" -> Computed(Never, "event", 0, 0)
           [] policy.kind = "schedule"   -> Computed(policy.every, "schedule", 0, 0)
           [] policy.kind = "continuous" ->
                IF outcome = "WORK_DONE" THEN Computed(policy.floor, "schedule", 0, 0)
                ELSE Computed(IdleDelay(Streak(idle), jitter), "backoff", Streak(idle), 0)

SlipIsDue == wait # Never
IsDue     == wait # Never /\ wait <= 0

Init ==
  /\ policy \in Policies
  /\ phase = "asleep" /\ wait = 0 /\ reason = "schedule"
  /\ idle = 0 /\ err = 0 /\ gate = Never
  /\ last = "none" /\ refused = FALSE /\ since = Horizon /\ delay = 0 /\ bumped = FALSE

Passes(w, d) == IF w = Never THEN Never ELSE Most(w - d, -Past)

Elapse(d) ==
  /\ wait' = Passes(wait, d)
  /\ gate' = Passes(gate, d)
  /\ since' = Least(since + d, Horizon)
  /\ UNCHANGED <<policy, phase, reason, idle, err, last, refused, delay, bumped>>

(* gateVendor: a row is only ever moved ahead, and stays when it is past.   *)
Closed(r) == IF gate = Never THEN r ELSE Most(gate, r)

LaneClosed == gate # Never /\ gate > 0

(* The vendor refuses another agent of the lane.                           *)
LaneCloses(r) ==
  /\ gate' = Closed(r)
  /\ UNCHANGED <<policy, phase, wait, reason, idle, err, last, refused, since, delay, bumped>>

(* A tick finds the agent due, its lane open and something to do.          *)
Begin ==
  /\ phase = "asleep" /\ IsDue /\ ~LaneClosed
  /\ phase' = "running"
  /\ UNCHANGED <<policy, wait, reason, idle, err, gate, last, refused, since, delay, bumped>>

Written(outcome, w) ==
  /\ wait' = w
  /\ last' = outcome /\ since' = 0 /\ bumped' = FALSE
  /\ delay' = IF w = Never THEN 0 ELSE Most(w, 0)

(* The same tick when the precondition fails, which only an on_message     *)
(* policy allows.  error_streak is left as it was.                         *)
BackoffWithoutRun(jitter) ==
  /\ phase = "asleep" /\ IsDue /\ ~LaneClosed /\ policy.kind = "on_message"
  /\ LET next == ComputeNextWake("NO_WORK", jitter)
     IN  /\ Written("NO_WORK", next.wait) /\ refused' = FALSE
         /\ reason' = next.reason /\ idle' = next.idle
  /\ UNCHANGED <<policy, phase, err, gate>>

(* What laneBlockedUntil knows decides, past or ahead: repo.ts does not ask *)
(* whether the lane is closed.                                             *)
LaneWake(g) == IF g = Never THEN LaneFallback ELSE g

SlipLaned(outcome, next, g) == next
Laned(outcome, next, g) ==
  IF outcome = "RATE_LIMITED" THEN [next EXCEPT !.wait = LaneWake(g), !.reason = "schedule"]
                              ELSE next

(* succeed.  A turn is RATE_LIMITED when the vendor refused it, which has   *)
(* just closed the lane, or when it declares that outcome itself, which     *)
(* closes nothing; nor does the refusal of an agent without a harness.      *)
Settle(outcome, jitter) ==
  /\ phase = "running" /\ phase' = "asleep" /\ UNCHANGED policy
  /\ \/ refused' = FALSE /\ UNCHANGED gate
     \/ /\ outcome = "RATE_LIMITED" /\ refused' = TRUE
        /\ \E r \in Refusals : gate' = Closed(r)
  /\ LET next == Laned(outcome, ComputeNextWake(outcome, jitter), gate')
     IN  /\ Written(outcome, next.wait) /\ reason' = next.reason
         /\ idle' = next.idle /\ err' = next.err

(* A message, a verdict or the activate button, between turns; Scheduler    *)
(* has those that come during one.                                          *)
Bump ==
  /\ phase = "asleep"
  /\ wait' = 0 /\ reason' = "human" /\ bumped' = TRUE
  /\ UNCHANGED <<policy, phase, idle, err, gate, last, refused, since, delay>>

Next ==
  \/ \E d \in Gaps : Elapse(d)
  \/ \E r \in Refusals : LaneCloses(r)
  \/ Begin \/ Bump
  \/ \E j \in Jitters : \/ BackoffWithoutRun(j)
                        \/ \E outcome \in Outcome : Settle(outcome, j)

Spec == Init /\ [][Next]_vars

-----------------------------------------------------------------------------
(* Properties *)

TypeOK ==
  /\ policy \in Policies /\ phase \in {"asleep", "running"}
  /\ wait = Never \/ wait \in Int
  /\ reason \in Reason /\ last \in Outcome \cup {"none"}
  /\ idle \in 0..MaxStreak /\ err \in 0..MaxStreak
  /\ gate = Never \/ gate \in Int
  /\ refused \in BOOLEAN /\ since \in 0..Horizon /\ delay \in Nat /\ bumped \in BOOLEAN

(* What the outcome table of the README promises an agent that nobody      *)
(* bumps: the time that passes, at least, before its next turn.  Of a lane  *)
(* that nothing has just closed it only promises that there is some.       *)
Promised ==
  CASE last = "none"            -> 0
    [] last = "RETRYABLE_ERROR" -> ErrorBase
    [] last = "RATE_LIMITED"    ->
         IF refused THEN CHOOSE r \in Refusals : \A s \in Refusals : r <= s ELSE 1
    [] last = "BLOCKED"         -> Horizon
    [] OTHER -> CASE policy.kind = "continuous" ->
                         Least(policy.floor, Least(policy.base, policy.ceiling))
                  [] policy.kind = "schedule"   -> policy.every
                  [] OTHER                      -> Horizon

Rested == phase = "asleep" /\ phase' = "running" /\ ~bumped => since >= Least(Promised, Horizon)

(* No agent becomes a quota feedback loop (wake.ts:11-13), and after        *)
(* RATE_LIMITED its lane backs off (README.md:125).  The code does not keep *)
(* this of a turn that declares RATE_LIMITED on a lane whose gate is past:  *)
(* such an agent is due at every tick.                                     *)
NoHotLoop == [][Rested]_vars

DeclaredLate == last = "RATE_LIMITED" /\ ~refused /\ delay = 0

(* And that is the only way: after downtime, a refusal or a streak of any   *)
(* kind, a turn nobody asked for starts only when the promised time has     *)
(* passed, and missed occurrences fire once.                               *)
NoOtherHotLoop == [][DeclaredLate \/ Rested]_vars

(* Consecutive failures never shorten the retry, and consecutive idle      *)
(* turns never shorten the backoff below what it was without jitter.       *)
BackoffGrows ==
  [][/\ last = "RETRYABLE_ERROR" /\ last' = last /\ since' = 0 /\ phase # phase' => delay' >= delay
     /\ (/\ policy.kind = "continuous" /\ last = "NO_WORK" /\ last' = last /\ since' = 0
         /\ phase # phase') => delay' >= delay - delay \div 10]_vars

Ceiling ==
  CASE last = "RETRYABLE_ERROR" -> ErrorMax
    [] last = "RATE_LIMITED"    ->
         Most(LaneFallback, CHOOSE r \in Refusals : \A s \in Refusals : r >= s)
    [] OTHER                    -> Most(policy.floor, Most(policy.every,
                                     policy.ceiling + policy.ceiling \div 10))

(* Neither a streak, jitter included, nor a refusal puts an agent to sleep  *)
(* for good: its next wake comes within the largest of the ceilings, and    *)
(* one that wakes by itself is without a wake only when a human owes it an  *)
(* answer.                                                                  *)
WakesInTime ==
  IF wait = Never THEN policy.kind \in {"continuous", "schedule"} => last = "BLOCKED"
                  ELSE wait <= Ceiling

(* Scheduler's wakes are these, with the arithmetic forgotten.             *)
Class(w) == IF w = Never THEN "never" ELSE IF w > 0 THEN "later" ELSE "now"

AgreesWithWakes ==
  \A outcome \in Outcome, j \in Jitters :
    LET next == ComputeNextWake(outcome, j)
    IN  Wake(Class(next.wait), next.reason) = NextWake(policy.kind, outcome)
=============================================================================
