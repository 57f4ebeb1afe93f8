-------------------------------- MODULE Ledger --------------------------------
(***************************************************************************)
(* Agents that create agents, and the budget they share: the daily         *)
(* accounts (supervisor/budget.ts), debited by the tick that opens a run   *)
(* and settled by its result, and the spawn proposals                      *)
(* (orchestrator/spawn.ts), whose activation carves the child's allowance  *)
(* out of the parent's.  The supervisor proposes, the server activates and *)
(* rejects, and the two share the list of proposals.                       *)
(*                                                                         *)
(* A definition named Slip... is no part of the system: it is a plausible  *)
(* mistake in the definition below it, which the checks must notice.       *)
(***************************************************************************)
EXTENDS Integers, Lists

CONSTANTS
  Root, Spawn,         (* slugs of the agents there are, and to be spawned  *)
  Amount,              (* allowances a root is given, and budgets asked for *)
  MaxChildren, MaxActive, (* LIMITS: children of a parent, active agents    *)
  MaxProposals            (* bound on the proposals                         *)

ASSUME LedgerAssumption ==
  /\ IsFiniteSet(Root) /\ IsFiniteSet(Spawn) /\ Root \cap Spawn = {}
  /\ Amount \subseteq Nat
  /\ MaxChildren \in Nat /\ MaxActive \in Nat /\ MaxProposals \in Nat

Member   == Root \cup Spawn
Proposal == 1..MaxProposals
NoOne    == "nobody"
MaxSpawnDepth == 1

VARIABLES
  row, parent,     (* agents: status or "none", and parent_agent_id          *)
  account,         (* budget_accounts of the window 'day', or NoAccount      *)
  proposals, terms,(* the list, and what each proposal says                  *)
  proposed,        (* proposals made so far                                  *)
  spawned,         (* how often each was activated                           *)
  mine, theirs,    (* lists held between load and save: propose's, reject's  *)
  run              (* the live run of each agent                             *)

rowVars    == <<row, parent>>
listedVars == <<proposals, terms, proposed>>
spawnVars  == <<listedVars, spawned, mine, theirs>>
ledgerVars == <<rowVars, account, spawnVars, run>>

NoAccount == [allowance |-> 0, reserved |-> 0, spent |-> 0, open |-> FALSE]
Account(n) == [allowance |-> n, reserved |-> 0, spent |-> 0, open |-> TRUE]
NoTerms   == [slug |-> NoOne, from |-> NoOne, budget |-> 0]
ProposalList == [Proposal -> {"absent", "PENDING", "ACTIVATED", "REJECTED"}]
Empty     == [p \in Proposal |-> "absent"]
Nothing   == [proposal |-> 0, list |-> Empty]
Hold      == [proposal: 0..MaxProposals, list: ProposalList]

LedgerTypeOK ==
  /\ row \in [Member -> {"none", "ACTIVE", "PAUSED", "RETIRED"}]
  /\ parent \in [Member -> Root \cup Spawn \cup {NoOne}]
  /\ account \in [Member -> [allowance: Int, reserved: Nat, spent: Nat, open: BOOLEAN]]
  /\ proposals \in ProposalList
  /\ terms \in [Proposal -> [slug: Spawn, from: Member, budget: Amount] \cup {NoTerms}]
  /\ proposed \in 0..MaxProposals /\ spawned \in [Proposal -> Nat]
  /\ mine \in Hold /\ theirs \in Hold
  /\ run \in [Member -> {"none", "opened", "reserved", "applied"}]

LedgerInit ==
  /\ row = [a \in Member |-> IF a \in Root THEN "ACTIVE" ELSE "none"]
  /\ parent = [a \in Member |-> NoOne]
  /\ account = [a \in Member |-> NoAccount]
  /\ proposals = Empty /\ terms = [p \in Proposal |-> NoTerms] /\ proposed = 0
  /\ spawned = [p \in Proposal |-> 0]
  /\ mine = Nothing /\ theirs = Nothing
  /\ run = [a \in Member |-> "none"]

-----------------------------------------------------------------------------
(* budget.ts *)

Metered(a)   == account[a].open
Remaining(a) == account[a].allowance - account[a].reserved - account[a].spent

(* ensureAccount for a root; a spawned agent gets its account with its row. *)
EnsureAccount(a, n) ==
  /\ a \in Root /\ ~Metered(a)
  /\ run[a] \in {"none", "opened"} \/ "midturn" \in Rare
  /\ account' = [account EXCEPT ![a] = Account(n)]
  /\ UNCHANGED <<rowVars, spawnVars, run>>

(* The tick opens a run in one transaction ...                              *)
OpenRun(a) ==
  /\ row[a] = "ACTIVE" /\ run[a] = "none"
  /\ run' = [run EXCEPT ![a] = "opened"]
  /\ UNCHANGED <<rowVars, account, spawnVars>>

(* ... and reserves one unit for it in the next; an agent without an account *)
(* is not metered.                                                          *)
SlipAffords(a) == Metered(a) => account[a].spent + 1 <= account[a].allowance
Affords(a)     == Metered(a) => account[a].reserved + account[a].spent + 1 <= account[a].allowance

Reserve(a) ==
  /\ run[a] = "opened" /\ Affords(a)
  /\ account' = IF Metered(a) THEN [account EXCEPT ![a].reserved = @ + 1] ELSE account
  /\ run' = [run EXCEPT ![a] = "reserved"]
  /\ UNCHANGED <<rowVars, spawnVars>>

(* Refused: the run is settled as failed, and the agent paused.             *)
RefuseRun(a) ==
  /\ run[a] = "opened" /\ ~Affords(a)
  /\ run' = [run EXCEPT ![a] = "none"]
  /\ row' = [row EXCEPT ![a] = "PAUSED"]
  /\ UNCHANGED <<parent, account, spawnVars>>

(* applyResult.  A turn that reports no tokens leaves its unit reserved.     *)
ApplyTurn(a, tokens) ==
  /\ run[a] = "reserved"
  /\ account' = IF tokens /\ Metered(a)
                THEN [account EXCEPT ![a].reserved = IF @ = 0 THEN 0 ELSE @ - 1,
                                     ![a].spent = @ + 1]
                ELSE account
  /\ run' = [run EXCEPT ![a] = "applied"]
  /\ UNCHANGED <<rowVars, spawnVars>>

(* POST /api/agents/:slug/activate, or a plan that resumes the agent.       *)
ResumeMember(a) ==
  /\ row[a] # "none"
  /\ row' = [row EXCEPT ![a] = "ACTIVE"]
  /\ UNCHANGED <<parent, account, spawnVars, run>>

(* The run is settled; or the supervisor died, and the reconciler settles it *)
(* whatever it had come to.  One that died between the result and the settle *)
(* of a run it was finalising leaves the capture: the next one applies it   *)
(* again.                                                                   *)
RunEnds(a) ==
  /\ run[a] # "none"
  /\ \/ run' = [run EXCEPT ![a] = "none"]
     \/ "twice" \in Rare /\ run[a] = "applied" /\ run' = [run EXCEPT ![a] = "reserved"]
  /\ UNCHANGED <<rowVars, account, spawnVars>>

-----------------------------------------------------------------------------
(* spawn.ts *)

Depth(a)        == IF parent[a] = NoOne THEN 0 ELSE 1
ChildrenOf(a)   == {c \in Member : parent[c] = a}
Active          == {a \in Member : row[a] = "ACTIVE"}
MaySpawn(a, n) ==
  /\ row[a] # "none"
  /\ Depth(a) + 1 <= MaxSpawnDepth
  /\ Cardinality(ChildrenOf(a)) < MaxChildren
  /\ Cardinality(Active) < MaxActive
  /\ Metered(a) => n <= Remaining(a)

(* propose checks, and loads the list ...                                  *)
ProposeLoads(a, s, n) ==
  /\ mine = Nothing /\ proposed < MaxProposals
  /\ MaySpawn(a, n)
  /\ proposed' = proposed + 1
  /\ terms' = [terms EXCEPT ![proposed + 1] = [slug |-> s, from |-> a, budget |-> n]]
  /\ mine' = [proposal |-> proposed + 1, list |-> proposals]
  /\ UNCHANGED <<rowVars, account, proposals, spawned, theirs, run>>

(* ... and writes it back, over what the server may have decided meanwhile. *)
ProposeSaves ==
  /\ mine # Nothing
  /\ proposals' = [mine.list EXCEPT ![mine.proposal] = "PENDING"]
  /\ mine' = Nothing
  /\ UNCHANGED <<rowVars, account, terms, proposed, spawned, theirs, run>>

(* An unmetered parent's child opens with the budget all the same.          *)
SlipCarve(a, n) == account[a].allowance
Carve(a, n)     == IF Metered(a) THEN account[a].allowance - n ELSE account[a].allowance

(* createAgent fails on a slug that is taken, and the transaction with it.   *)
SlipFree(s) == row[s] # "ACTIVE"
Free(s)     == row[s] = "none"

(* activate, one transaction.  The caps are not checked again, the parent's *)
(* capacity is.                                                             *)
Activate(p) ==
  LET s == terms[p].slug  a == terms[p].from  n == terms[p].budget IN
  /\ theirs = Nothing
  /\ proposals[p] = "PENDING"
  /\ Metered(a) => n <= Remaining(a)
  /\ Free(s)
  /\ row' = [row EXCEPT ![s] = "ACTIVE"]
  /\ parent' = [parent EXCEPT ![s] = a]
  /\ account' = [account EXCEPT ![a].allowance = Carve(a, n), ![s] = Account(n)]
  /\ proposals' = [proposals EXCEPT ![p] = "ACTIVATED"]
  /\ spawned' = [spawned EXCEPT ![p] = @ + 1]
  /\ UNCHANGED <<terms, proposed, mine, theirs, run>>

(* reject loads the list ...                                                *)
RejectionLoads(p) ==
  /\ theirs = Nothing
  /\ proposals[p] = "PENDING"
  /\ theirs' = [proposal |-> p, list |-> proposals]
  /\ UNCHANGED <<rowVars, account, listedVars, spawned, mine, run>>

(* ... and writes it back, over what was proposed meanwhile.                *)
RejectionSaves ==
  /\ theirs # Nothing
  /\ proposals' = [theirs.list EXCEPT ![theirs.proposal] = "REJECTED"]
  /\ theirs' = Nothing
  /\ UNCHANGED <<rowVars, account, terms, proposed, spawned, mine, run>>

(* reapExpired, once the child's time is over.                              *)
ReapExpired(a) ==
  /\ parent[a] # NoOne /\ row[a] # "RETIRED"
  /\ row' = [b \in Member |-> IF b = a \/ parent[b] = a THEN "RETIRED" ELSE row[b]]
  /\ UNCHANGED <<parent, account, spawnVars, run>>

LedgerNext ==
  \/ \E a \in Root, n \in Amount : EnsureAccount(a, n)
  \/ \E a \in Member :
       OpenRun(a) \/ Reserve(a) \/ RefuseRun(a) \/ RunEnds(a) \/ ResumeMember(a)
  \/ \E a \in Member, tokens \in BOOLEAN : ApplyTurn(a, tokens)
  \/ \E a \in Member, s \in Spawn, n \in Amount : ProposeLoads(a, s, n)
  \/ ProposeSaves
  \/ \E p \in Proposal : Activate(p) \/ RejectionLoads(p)
  \/ RejectionSaves
  \/ \E a \in Member : ReapExpired(a)

LedgerSpec == LedgerInit /\ [][LedgerNext]_ledgerVars

-----------------------------------------------------------------------------
(* Properties *)

(* budget.ts:41-43, 54: concurrent debits, leaked reservations and carved    *)
(* allowances included, what is reserved and spent never exceeds what the    *)
(* account allows.                                                          *)
NeverOverspent == \A a \in Member : Metered(a) => Remaining(a) >= 0

(* spawn.ts:14-15, 106-127: "creating an agent cannot conjure capacity".  The *)
(* account a child of a metered parent opens with is what that parent's      *)
(* allowance falls by, and an allowance changes in no other way.            *)
Opens(c, a) == ~Metered(c) /\ account'[c].open /\ parent'[c] = a
CarveOut ==
  [][\A a \in Member : Metered(a) =>
       \/ /\ account'[a].allowance = account[a].allowance
          /\ \A c \in Spawn : Opens(c, a) => account'[c].allowance = 0
       \/ \E c \in Spawn :
            /\ Opens(c, a)
            /\ account[a].allowance = account'[a].allowance + account'[c].allowance]_ledgerVars

(* spawn.ts:101, 129 and the unique slug: a proposal is activated at most    *)
(* once, although a stale list can make it PENDING again.                   *)
SpawnedOnce == \A p \in Proposal : spawned[p] <= 1
=============================================================================
