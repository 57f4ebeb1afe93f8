-------------------------------- MODULE Memory --------------------------------
(***************************************************************************)
(* Promotion of an agent's notes into its durable memory                   *)
(* (supervisor/memory.ts): a candidate is written beside the live notes, a *)
(* human reviews the difference, and approves or rejects it.  What a       *)
(* capsule hands to a run are the live notes.  None of the four handlers   *)
(* looks at what another has done, so they follow each other in any order. *)
(***************************************************************************)
EXTENDS Lists

CONSTANT Note

VARIABLES
  live, candidate,   (* the two stores of an agent's notes                  *)
  reviewed           (* what the human was last shown since deciding        *)

memoryVars == <<live, candidate, reviewed>>

MemoryTypeOK == live \subseteq Note /\ candidate \subseteq Note /\ reviewed \subseteq Note

MemoryInit == live = {} /\ candidate = {} /\ reviewed = {}

(* Copy-on-write: the live notes are left alone.  A candidate that is being  *)
(* reviewed is not.                                                         *)
ProposePromotion(notes) ==
  /\ candidate' = notes
  /\ UNCHANGED <<live, reviewed>>

(* pendingPromotion, read by the human                                      *)
PendingPromotion ==
  /\ candidate # {}
  /\ reviewed' = candidate
  /\ UNCHANGED <<live, candidate>>

(* approvePromotion promotes whatever the candidate is by then.             *)
ApprovePromotion ==
  /\ candidate # {}
  /\ live' = candidate
  /\ candidate' = {} /\ reviewed' = {}

RejectPromotion ==
  /\ candidate' = {} /\ reviewed' = {}
  /\ UNCHANGED live

MemoryNext ==
  \/ \E notes \in SUBSET Note : ProposePromotion(notes)
  \/ PendingPromotion
  \/ ApprovePromotion
  \/ RejectPromotion

MemorySpec == MemoryInit /\ [][MemoryNext]_memoryVars

(* memory.ts:145-147, "a human reviews the diff before anything is           *)
(* promoted": who has looked at a candidate and approves promotes what they *)
(* saw.  The code promotes what has been proposed since.                    *)
PromotedWasReviewed == [][live' # live /\ reviewed # {} => live' = reviewed]_memoryVars
=============================================================================
