-------------------------------- MODULE Lists --------------------------------
(***************************************************************************)
(* Most of what a human decides on is a list, a JSON value in a row of the *)
(* table meta: a handler reads the whole list, changes it and writes it    *)
(* back whole (plan.ts loadPlans and savePlans, and the load and save of   *)
(* spawn.ts, fanin.ts and join.ts).  Entries are numbered in the order     *)
(* they are appended, so a list is a function from numbers to the state of *)
(* the entry, "absent" before it is appended and after it is cut off.      *)
(***************************************************************************)
EXTENDS Naturals, FiniteSets

CONSTANT Rare   (* rare interferences this instance admits, see Rarity      *)

(* "evict": a stale list is written back over one that was cut meanwhile.  *)
(* "crash": the process dies between a result and the grant it used.        *)
(* "twice": the supervisor dies between a result and the settle of its run, *)
(* so that the next applies it again.  "midturn": an account is opened      *)
(* while its agent's turn runs.  "instant": a verdict comes in the          *)
(* millisecond its agent's run opened in, after the capsule was assembled.  *)
Rarity == {"evict", "crash", "twice", "midturn", "instant"}

ASSUME RareAssumption == Rare \subseteq Rarity

Present(list) == {i \in DOMAIN list : list[i] # "absent"}
Newer(list, i) == {j \in Present(list) : j > i}

(* list.slice(-cap)                                                        *)
Kept(list, cap) ==
  [i \in DOMAIN list |-> IF Cardinality(Newer(list, i)) < cap THEN list[i] ELSE "absent"]
=============================================================================
