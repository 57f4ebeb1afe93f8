-------------------------------- MODULE MCDesk --------------------------------
(* A small instance of Desk: requests that between them have every effect,   *)
(* and one turn of the orchestrator that says a thing twice.                 *)
EXTENDS Desk

Says(verbs, named, room) ==
  [verbs |-> verbs, named |-> named, room |-> room, called |-> "fresh"]

Retiring  == Says({"retire"}, {Orch, "worker"}, {})
Resuming  == Says({"resume"}, {}, {"worker", "child"})
Creating  == Says({"create", "backlog"}, {}, {})
Asking    == Says({"retire"}, {}, {})
Filing    == Says({"backlog"}, {}, {})

Texts   == {Retiring, Resuming, Creating, Asking, Filing}
Repeated == {<<Asking, Filing, Filing>>}

(* A roster, and the same one edited; both list somebody who calls itself   *)
(* the orchestrator.                                                        *)
First  == [listed |-> {Orch, "worker"}, active |-> {"worker"}, open |-> 1,
           division |-> [p \in {Orch, "worker", "child"} |-> "core"]]
Edited == [listed |-> {Orch, "worker", "child"}, active |-> {Orch, "child"}, open |-> 0,
           division |-> [p \in {Orch, "worker", "child"} |-> IF p = Orch THEN "core" ELSE "field"]]
Editions == {First, Edited}
=============================================================================
