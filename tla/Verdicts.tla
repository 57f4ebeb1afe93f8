------------------------------- MODULE Verdicts -------------------------------
(***************************************************************************)
(* The verdicts an agent is owed, with their times: the run's started_at,  *)
(* the capsule that is assembled some time later and carries the newest    *)
(* five (supervisor/hitl.ts verdictsFor, supervisor/memory.ts), and the    *)
(* settle, which marks every verdict no younger than the run as consumed   *)
(* (supervisor/repo.ts succeed).                                           *)
(*                                                                         *)
(* A definition named Slip... is no part of the system: it is a plausible  *)
(* mistake in the definition below it, which the checks must notice.       *)
(***************************************************************************)
EXTENDS Lists

CONSTANTS
  Question,       (* the questions of an agent                              *)
  CapsuleLimit,   (* verdicts a capsule carries                             *)
  MaxClock        (* bound on the milliseconds that pass                    *)

ASSUME VerdictsAssumption ==
  IsFiniteSet(Question) /\ CapsuleLimit \in Nat /\ MaxClock \in Nat

VARIABLES
  clock,
  verdict, answeredAt,   (* each question's state, and when it was answered  *)
  consumed, told,        (* those consumed; those a capsule told a settled run *)
  stage, startedAt,      (* the agent's run: where it is, when it was opened *)
  capsule                (* the verdicts it was dispatched with              *)

verdictVars == <<clock, verdict, answeredAt, consumed, told, stage, startedAt, capsule>>

VerdictsTypeOK ==
  /\ clock \in 0..MaxClock
  /\ verdict \in [Question -> {"unasked", "PENDING", "APPROVED", "CANCELLED"}]
  /\ answeredAt \in [Question -> 0..MaxClock]
  /\ consumed \subseteq Question /\ told \subseteq Question
  /\ stage \in {"none", "opened", "told"} /\ startedAt \in 0..MaxClock
  /\ capsule \subseteq Question

VerdictsInit ==
  /\ clock = 0
  /\ verdict = [q \in Question |-> "unasked"] /\ answeredAt = [q \in Question |-> 0]
  /\ consumed = {} /\ told = {}
  /\ stage = "none" /\ startedAt = 0 /\ capsule = {}

Owed == {q \in Question : verdict[q] = "APPROVED" /\ q \notin consumed}

TimePasses ==
  /\ clock < MaxClock
  /\ clock' = clock + 1
  /\ UNCHANGED <<verdict, answeredAt, consumed, told, stage, startedAt, capsule>>

AskQuestion(q) ==
  /\ verdict[q] = "unasked"
  /\ verdict' = [verdict EXCEPT ![q] = "PENDING"]
  /\ UNCHANGED <<clock, answeredAt, consumed, told, stage, startedAt, capsule>>

(* answer: APPROVED, whatever was answered.                                *)
Answer(q) ==
  /\ verdict[q] = "PENDING"
  /\ (stage = "told" /\ clock = startedAt) => "instant" \in Rare
  /\ verdict' = [verdict EXCEPT ![q] = "APPROVED"]
  /\ answeredAt' = [answeredAt EXCEPT ![q] = clock]
  /\ UNCHANGED <<clock, consumed, told, stage, startedAt, capsule>>

Withdraw(q) ==
  /\ verdict[q] = "PENDING"
  /\ verdict' = [verdict EXCEPT ![q] = "CANCELLED"]
  /\ answeredAt' = [answeredAt EXCEPT ![q] = clock]
  /\ UNCHANGED <<clock, consumed, told, stage, startedAt, capsule>>

OpenRunFor ==
  /\ stage = "none"
  /\ stage' = "opened" /\ startedAt' = clock
  /\ UNCHANGED <<clock, verdict, answeredAt, consumed, told, capsule>>

(* verdictsFor: the newest ones, ties in any order.                        *)
Newest(qs) ==
  /\ qs \subseteq Owed
  /\ \/ Cardinality(qs) = CapsuleLimit
     \/ qs = Owed /\ Cardinality(qs) < CapsuleLimit
  /\ \A q \in qs, k \in Owed \ qs : answeredAt[q] >= answeredAt[k]

AssembleCapsule(qs) ==
  /\ stage = "opened"
  /\ Newest(qs)
  /\ capsule' = qs /\ stage' = "told"
  /\ UNCHANGED <<clock, verdict, answeredAt, consumed, told, startedAt>>

(* The settle of a turn that completed consumes what was answered by the    *)
(* time the run opened; any other leaves everything owed.                   *)
SlipBefore(q) == TRUE
Before(q)     == answeredAt[q] <= startedAt

Settle(completed) ==
  /\ stage = "told" \/ (stage = "opened" /\ ~completed)
  /\ consumed' = IF completed THEN consumed \cup {q \in Owed : Before(q)} ELSE consumed
  /\ told' = IF completed THEN told \cup capsule ELSE told
  /\ stage' = "none" /\ capsule' = {}
  /\ UNCHANGED <<clock, verdict, answeredAt, startedAt>>

VerdictsNext ==
  \/ TimePasses
  \/ \E q \in Question : AskQuestion(q) \/ Answer(q) \/ Withdraw(q)
  \/ OpenRunFor
  \/ \E qs \in SUBSET Question : AssembleCapsule(qs)
  \/ \E completed \in BOOLEAN : Settle(completed)

VerdictsSpec == VerdictsInit /\ [][VerdictsNext]_verdictVars

(* repo.ts:277-278: a settle consumes "the verdicts this run was dispatched *)
(* with", and one answered mid-run stays owed: no verdict is consumed that  *)
(* no completed turn was told.                                              *)
ConsumedWasTold == consumed \subseteq told
=============================================================================
