---------------------------- MODULE MCScheduler ----------------------------
(* Small instances of Scheduler, with what the workspace shows of it. *)
EXTENDS Views, TLC

CONSTANTS o, w, x, v, m1, m2, k1, k2

(* One agent that only its inbox wakes, on a vendor lane.                   *)
Single     == [a \in {w} |-> "on_message"]
SingleLane == [a \in {w} |-> v]
Alone      == [a \in {w} |-> NoOne]

(* The same agent, waking by itself.                                       *)
Periodic   == [a \in {w} |-> "schedule"]

(* Two ordinary workers that compete for slots, one with a lane, the other  *)
(* its child.                                                               *)
Rivals     == [a \in {w, x} |-> IF a = w THEN "schedule" ELSE "on_message"]
RivalsLane == [a \in {w, x} |-> IF a = w THEN v ELSE NoLane]
RivalsKin  == [a \in {w, x} |-> IF a = x THEN w ELSE NoOne]

(* The orchestrator, woken by messages, beside a continuous worker.         *)
Judged     == [a \in {o, w} |-> IF a = o THEN "on_message" ELSE "continuous"]
JudgedKin  == [a \in {o, w} |-> NoOne]
JudgedLane == [a \in {o, w} |-> NoLane]

(* Letters and questions are interchangeable.                               *)
Rows == Permutations({m1, m2}) \cup Permutations({k1, k2})
=============================================================================
