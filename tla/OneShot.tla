------------------------------- MODULE OneShot -------------------------------
(***************************************************************************)
(* What the workspace promises of everything a human decides once: a plan  *)
(* (orchestrator/plan.ts), a join grant (join.ts).  Somebody raises it; it *)
(* is granted, which has its whole effect in the same step and once, or it *)
(* is dropped; and then it never moves again.                              *)
(***************************************************************************)
CONSTANT Item

VARIABLE state   (* of each item *)

Stage == {"none", "open", "done", "dropped"}

Moves == [none |-> {"open"}, open |-> {"done", "dropped"}, done |-> {}, dropped |-> {}]

Init == state = [i \in Item |-> "none"]

(* Filing one item may push an older one off a full list.                   *)
Step(i) == state'[i] = state[i] \/ state'[i] \in Moves[state[i]]
Next    == state' \in [Item -> Stage] /\ \A i \in Item : Step(i)

Spec == Init /\ [][Next]_state
=============================================================================
