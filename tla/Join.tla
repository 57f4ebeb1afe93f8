--------------------------------- MODULE Join ---------------------------------
(***************************************************************************)
(* Join grants (orchestrator/join.ts): a session of another harness is     *)
(* given a token, good for one result within its time.  The result is      *)
(* delivered to the agent the grant is about, or to the orchestrator, and  *)
(* wakes it; it carries no authority.                                      *)
(*                                                                         *)
(* A definition named Slip... is no part of the system: it is a plausible  *)
(* mistake in the definition below it, which the checks must notice.       *)
(***************************************************************************)
EXTENDS Lists

CONSTANTS GrantCap,    (* grants the list keeps                            *)
          MaxGrants    (* bound on the grants given                        *)

ASSUME JoinAssumption == GrantCap \in Nat \ {0} /\ MaxGrants \in Nat

Grant == 1..MaxGrants

VARIABLES
  grants,      (* the list: whether each grant was used                     *)
  granted,     (* grants given so far                                       *)
  expired,     (* those whose time is over                                  *)
  delivered,   (* results delivered under each                              *)
  answering    (* the grant whose use is still to be saved, or 0            *)

joinVars == <<grants, granted, expired, delivered, answering>>

JoinTypeOK ==
  /\ grants \in [Grant -> {"absent", "fresh", "used"}]
  /\ granted \in 0..MaxGrants /\ expired \subseteq Grant
  /\ delivered \in [Grant -> Nat] /\ answering \in 0..MaxGrants

JoinInit ==
  /\ grants = [g \in Grant |-> "absent"] /\ granted = 0 /\ expired = {}
  /\ delivered = [g \in Grant |-> 0] /\ answering = 0

GrantJoin ==
  /\ answering = 0 /\ granted < MaxGrants
  /\ granted' = granted + 1
  /\ grants' = Kept([grants EXCEPT ![granted + 1] = "fresh"], GrantCap)
  /\ UNCHANGED <<expired, delivered, answering>>

GrantExpires(g) ==
  /\ g <= granted
  /\ expired' = expired \cup {g}
  /\ UNCHANGED <<grants, granted, delivered, answering>>

SlipGood(g) == grants[g] = "fresh"
Good(g)     == grants[g] = "fresh" /\ g \notin expired

(* submitResult delivers the result in one transaction ...                  *)
SubmitDelivers(g) ==
  /\ answering = 0
  /\ Good(g)
  /\ delivered' = [delivered EXCEPT ![g] = @ + 1]
  /\ answering' = g
  /\ UNCHANGED <<grants, granted, expired>>

(* ... and marks the grant used in the next; if the process dies in between, *)
(* the grant is good for a second result.                                   *)
SlipSpend(g) == "fresh"
Spend(g)     == "used"
SubmitSaves ==
  /\ answering # 0
  /\ \/ grants' = Kept([grants EXCEPT ![answering] = Spend(answering)], GrantCap)
     \/ "crash" \in Rare /\ UNCHANGED grants
  /\ answering' = 0
  /\ UNCHANGED <<granted, expired, delivered>>

JoinNext ==
  \/ GrantJoin
  \/ \E g \in Grant : GrantExpires(g) \/ SubmitDelivers(g)
  \/ SubmitSaves

JoinSpec == JoinInit /\ [][JoinNext]_joinVars

-----------------------------------------------------------------------------
(* Properties *)

Lapsed(g) == grants[g] = "absent" \/ g \in expired
GrantStage(g) ==
  CASE g > granted                                          -> "none"
    [] g <= granted /\ delivered[g] = 0 /\ grants[g] = "fresh" /\ ~Lapsed(g) -> "open"
    [] g <= granted /\ delivered[g] = 0 /\ Lapsed(g)        -> "dropped"
    [] g <= granted /\ delivered[g] = 1                     -> "done"
    [] OTHER                                                -> "broken"

GrantDecisions == INSTANCE OneShot WITH Item <- Grant, state <- [g \in Grant |-> GrantStage(g)]

(* join.ts:144-146: "a join grant is single-use", and an expired grant, or   *)
(* one that newer ones pushed off the list, is good for nothing.            *)
JoinedOnce == GrantDecisions!Spec
=============================================================================
