------------------------------ MODULE Delivery ------------------------------
(***************************************************************************)
(* What the message substrate promises, whoever is scheduled when and      *)
(* whatever crashes (messages.ts: "at-least-once"; repo.ts succeed).  A     *)
(* letter is retired only by a turn that was handed it; a turn that fails  *)
(* leaves it owed; a human's letter is never parked, any other only after  *)
(* MaxTries attempts; nothing retired comes back.  Scheduler implements    *)
(* this specification under the mapping given there.                       *)
(***************************************************************************)
EXTENDS Naturals

CONSTANTS Mail, MaxTries

VARIABLE box

Letter == [stage: {"unsent", "owed", "handed", "done", "parked"},
           human: BOOLEAN, tries: 0..MaxTries]

Init == box = [m \in Mail |-> [stage |-> "unsent", human |-> TRUE, tries |-> 0]]

Outstanding(m) == box[m].stage \in {"owed", "handed"}

Post(m) ==
  /\ box[m].stage = "unsent"
  /\ \E h \in BOOLEAN : box'[m] = [box[m] EXCEPT !.stage = "owed", !.human = h]

Attempt(m) ==
  /\ Outstanding(m)
  /\ box[m].tries < MaxTries
  /\ box'[m] = [box[m] EXCEPT !.tries = @ + 1]

Hand(m) ==
  /\ box[m].stage = "owed" /\ box[m].tries > 0
  /\ box'[m] = [box[m] EXCEPT !.stage = "handed"]

Complete(m) ==
  /\ box[m].stage = "handed"
  /\ box'[m] = [box[m] EXCEPT !.stage = "done"]

Park(m) ==
  /\ Outstanding(m)
  /\ ~box[m].human /\ box[m].tries = MaxTries
  /\ box'[m] = [box[m] EXCEPT !.stage = "parked"]

(* One turn handles a whole inbox, so letters move together.               *)
Step(m) ==
  box'[m] = box[m] \/ Post(m) \/ Attempt(m) \/ Hand(m) \/ Complete(m) \/ Park(m)

Next == box' \in [Mail -> Letter] /\ \A m \in Mail : Step(m)

Spec == Init /\ [][Next]_box
=============================================================================
