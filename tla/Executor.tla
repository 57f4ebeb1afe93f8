------------------------------ MODULE Executor ------------------------------
(***************************************************************************)
(* The life of an agent's runs as the two sides of the code that carry     *)
(* them see it: Scheduler (the store and the loop) and Turn (the job       *)
(* directories and the processes) both implement this specification, which *)
(* is what lets Scheduler forget the files and Turn the fleet.             *)
(***************************************************************************)
CONSTANT Agent

VARIABLE phase   (* of each agent's run; "lost": nothing is left to adopt   *)

Moves ==
  [none     |-> {"opened"},
   opened   |-> {"session", "none"},
   session  |-> {"running", "exited", "lost", "none"},
   running  |-> {"exited", "lost", "applying"},
   exited   |-> {"applying"},
   applying |-> {"none", "waiting", "exited", "lost"},
   lost     |-> {"none"},
   waiting  |-> {"none"}]

Init == phase = [a \in Agent |-> "none"]

(* A crash, and nothing else, moves several runs at once.                   *)
Step(a) == phase'[a] = phase[a] \/ phase'[a] \in Moves[phase[a]]
Next    == phase' \in [Agent -> DOMAIN Moves] /\ \A a \in Agent : Step(a)

Spec == Init /\ [][Next]_phase
=============================================================================
