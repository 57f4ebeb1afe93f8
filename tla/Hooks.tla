-------------------------------- MODULE Hooks --------------------------------
(***************************************************************************)
(* The event hook (supervisor/hooks.ts): a shell command is started for    *)
(* every listed event.  emit (store/db.ts) calls the listener inside the   *)
(* transaction that writes the event; the listener only queues a callback  *)
(* of the event loop, which cannot run before that transaction is over:    *)
(* transactions are synchronous, and the supervisor has one thread.        *)
(***************************************************************************)
EXTENDS Naturals, FiniteSets, Sequences

CONSTANTS
  Event,     (* events of listed kinds                                      *)
  PoolSize   (* MAX_CONCURRENT_HOOKS                                        *)

ASSUME HooksAssumption == PoolSize \in Nat

VARIABLES
  inTx,      (* whether a transaction is open                               *)
  deferred,  (* callbacks in the event loop, in order                       *)
  running,   (* the pool's counter                                          *)
  hook,      (* each event's command                                        *)
  early      (* events whose command started while a transaction was open   *)

hookVars == <<inTx, deferred, running, hook, early>>

HooksInit ==
  /\ inTx = FALSE /\ deferred = <<>> /\ running = 0
  /\ hook = [e \in Event |-> "none"] /\ early = {}

-----------------------------------------------------------------------------
(* The callback: one more command, unless the pool is full.  One that cannot *)
(* be started has an error event, and then its close event all the same.     *)
StartHook(e) ==
  /\ IF running >= PoolSize
     THEN hook' = [hook EXCEPT ![e] = "skipped"] /\ UNCHANGED running
     ELSE /\ \E h \in {"alive", "exited"} : hook' = [hook EXCEPT ![e] = h]
          /\ running' = running + 1
  /\ early' = IF inTx THEN early \cup {e} ELSE early

SlipListener(e) == StartHook(e) /\ UNCHANGED deferred
Listener(e) ==
  /\ deferred' = Append(deferred, e)
  /\ hook' = [hook EXCEPT ![e] = "queued"]
  /\ UNCHANGED <<running, early>>

BeginTx ==
  /\ ~inTx /\ inTx' = TRUE
  /\ UNCHANGED <<deferred, running, hook, early>>

Emit(e) == inTx /\ hook[e] = "none" /\ Listener(e) /\ UNCHANGED inTx

(* It commits, or something in it throws and it rolls back: what is queued   *)
(* stays queued in either case.                                             *)
EndTx ==
  /\ inTx /\ inTx' = FALSE
  /\ UNCHANGED <<deferred, running, hook, early>>

Callback ==
  /\ ~inTx /\ deferred # <<>>
  /\ deferred' = Tail(deferred)
  /\ StartHook(Head(deferred))
  /\ UNCHANGED inTx

(* A command ends by itself, or never.                                      *)
HookExits(e) ==
  /\ hook[e] = "alive"
  /\ hook' = [hook EXCEPT ![e] = "exited"]
  /\ UNCHANGED <<inTx, deferred, running, early>>

SlipOverdue(e) == FALSE
Overdue(e)     == hook[e] = "alive"

(* HOOK_TIMEOUT_MS after its start it is killed: SIGKILL cannot be ignored.  *)
Deadline(e) == ~inTx /\ Overdue(e) /\ HookExits(e)

(* The close event gives the slot back.                                     *)
HookCloses(e) ==
  /\ ~inTx /\ hook[e] = "exited"
  /\ hook' = [hook EXCEPT ![e] = "closed"]
  /\ running' = running - 1
  /\ UNCHANGED <<inTx, deferred, early>>

(* A supervisor that starts again knows of no callback and of no command.    *)
SupervisorRestarts ==
  /\ inTx' = FALSE /\ deferred' = <<>> /\ running' = 0
  /\ hook' = [e \in Event |-> IF hook[e] = "none" THEN "none" ELSE "forgotten"]
  /\ UNCHANGED early

HooksNext ==
  \/ BeginTx \/ EndTx \/ Callback \/ SupervisorRestarts
  \/ \E e \in Event : Emit(e) \/ HookExits(e) \/ Deadline(e) \/ HookCloses(e)

(* Transactions end, the event loop turns, and timers fire; a command need   *)
(* never end.  The loop is kept from a callback only for as long as a        *)
(* transaction lasts, however many of them there are.                       *)
HooksFairness ==
  /\ WF_hookVars(EndTx) /\ SF_hookVars(Callback)
  /\ \A e \in Event : SF_hookVars(Deadline(e)) /\ SF_hookVars(HookCloses(e))

HooksSpec == HooksInit /\ [][HooksNext]_hookVars /\ HooksFairness

-----------------------------------------------------------------------------
(* Properties *)

(* hooks.ts:41-43: "a hook must see the fleet after the commit, not while    *)
(* the write lock is held", whichever event of a transaction it is for.      *)
HooksSeeCommits == early = {}

(* Commands of this supervisor whose close event has not come.               *)
Occupied == {e \in Event : hook[e] \in {"alive", "exited"}}

(* hooks.ts:38-56: the counter is the number of these commands at any time,  *)
(* however events, kills, exits and restarts fall, and never more than the   *)
(* pool has room for: no slot leaks, and none is given back twice.           *)
PoolIsExact == running = Cardinality(Occupied) /\ running <= PoolSize

(* hooks.ts:10-11: "a hook that hangs or fails cannot hold the loop", nor the *)
(* pool: a full pool has a free slot again, however many commands hang.      *)
PoolFrees == running >= PoolSize ~> running < PoolSize

HooksTypeOK ==
  /\ inTx \in BOOLEAN /\ deferred \in Seq(Event) /\ running \in Nat
  /\ hook \in [Event -> {"none", "queued", "skipped", "alive", "exited", "closed", "forgotten"}]
  /\ early \subseteq Event
=============================================================================
