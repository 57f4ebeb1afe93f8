----------------------------- MODULE MCBackoff -----------------------------
(* Policies of the repository as instances of Backoff, in seconds. *)
EXTENDS Backoff

Shape(kind, every) == [kind |-> kind, floor |-> 60, base |-> 60, ceiling |-> 3600,
                       factor |-> 2, every |-> every]

(* The default continuous policy, an hourly schedule, and the two kinds     *)
(* that never wake by themselves.                                           *)
EveryKind == {Shape(kind, 3600) : kind \in Kind}
=============================================================================
