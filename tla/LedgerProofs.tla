---------------------------- MODULE LedgerProofs ----------------------------
(***************************************************************************)
(* Proofs about Ledger, for every fleet, every set of amounts, and every    *)
(* choice of caps.                                                         *)
(***************************************************************************)
EXTENDS Ledger, TLAPS

(* An agent that has no row is no root, runs nothing and has no account.    *)
Unborn ==
  \A a \in Member : row[a] = "none" => a \notin Root /\ run[a] = "none" /\ ~Metered(a)

(* A proposal was made by an agent that has a row.                          *)
Terms == [slug : Spawn, from : Member, budget : Amount]
Signed ==
  \A p \in Proposal : p <= proposed => terms[p] \in Terms /\ row[terms[p].from] # "none"

(* No list, in the table or held by a process, names a proposal that was    *)
(* never made.                                                             *)
Listed ==
  /\ \A p \in Proposal :
       p > proposed => /\ proposals[p] = "absent"
                       /\ mine.list[p] = "absent" /\ theirs.list[p] = "absent"
  /\ mine # Nothing => mine.proposal \in Proposal /\ mine.proposal <= proposed
  /\ theirs # Nothing => theirs.proposal \in Proposal /\ theirs.proposal <= proposed

(* The agent an activated proposal asked for has a row.                     *)
Births ==
  \A p \in Proposal : /\ spawned[p] <= 1
                      /\ spawned[p] = 1 => p <= proposed /\ row[terms[p].slug] # "none"

LedgerInv == LedgerTypeOK /\ Unborn /\ Signed /\ Listed /\ Births

(* An allowance covers what is reserved and spent, and a metered agent's    *)
(* dispatched run has a unit reserved.                                      *)
Backed ==
  \A a \in Member : run[a] = "reserved" /\ Metered(a) => account[a].reserved >= 1

AccountType == [allowance : Int, reserved : Nat, spent : Nat, open : BOOLEAN]

LEMMA Members == /\ Root \subseteq Member /\ Spawn \subseteq Member /\ Root \cap Spawn = {}
                 /\ Amount \subseteq Nat
BY LedgerAssumption DEF Member

-----------------------------------------------------------------------------
(* The core of the invariant *)

(* Steps that touch no proposal, and give no row.                           *)
LEMMA RowsKept ==
  ASSUME LedgerInv, LedgerTypeOK', UNCHANGED <<spawnVars>>,
         \A a \in Member : row[a] # "none" => row'[a] # "none"
  PROVE  Signed' /\ Listed' /\ Births'
<1>1. UNCHANGED <<proposals, terms, proposed, spawned, mine, theirs>>
  BY DEF spawnVars, listedVars
<1>2. Signed'
  <2> SUFFICES ASSUME NEW p \in Proposal, p <= proposed
               PROVE  terms[p] \in Terms /\ row'[terms[p].from] # "none"
    BY <1>1 DEF Signed, Proposal
  <2>1. terms[p] \in Terms /\ row[terms[p].from] # "none"
    BY DEF LedgerInv, Signed
  <2>2. terms[p].from \in Member
    BY <2>1 DEF Terms
  <2> QED BY <2>1, <2>2
<1>3. Listed'
  BY <1>1 DEF LedgerInv, Listed, Proposal
<1>4. Births'
  <2> SUFFICES ASSUME NEW p \in Proposal, spawned[p] = 1
               PROVE  p <= proposed /\ row'[terms[p].slug] # "none"
    BY <1>1 DEF Births, LedgerInv, Proposal
  <2>1. p <= proposed /\ row[terms[p].slug] # "none"
    BY DEF LedgerInv, Births
  <2>2. terms[p].slug \in Member
    BY <2>1, Members DEF LedgerInv, Signed, Terms
  <2> QED BY <2>1, <2>2
<1> QED BY <1>2, <1>3, <1>4

(* A step that only changes who runs and who is metered.                    *)
LEMMA TurnSteps ==
  ASSUME LedgerInv, UNCHANGED <<parent, spawnVars>>,
         row' \in [Member -> {"none", "ACTIVE", "PAUSED", "RETIRED"}],
         account' \in [Member -> AccountType],
         run' \in [Member -> {"none", "opened", "reserved", "applied"}],
         \A a \in Member : row[a] # "none" => row'[a] # "none",
         \A a \in Member : row[a] = "none" /\ row'[a] = "none" =>
           run'[a] = "none" /\ account'[a].open = FALSE
  PROVE  LedgerInv'
<1>1. LedgerTypeOK'
  BY DEF LedgerInv, LedgerTypeOK, AccountType, spawnVars, listedVars
<1>2. Signed' /\ Listed' /\ Births'
  BY <1>1, RowsKept
<1>3. Unborn'
  BY DEF LedgerInv, Unborn, Metered
<1> QED BY <1>1, <1>2, <1>3 DEF LedgerInv

(* The agent a proposal asks for, the one that asks, and its budget.        *)
Born(p)  == terms[p].slug
Maker(p) == terms[p].from
Share(p) == terms[p].budget

Carved(a, n) ==
  [allowance |-> Carve(a, n), reserved |-> account[a].reserved,
   spent |-> account[a].spent, open |-> account[a].open]

(* What activating a proposal does to the two agents and their accounts.    *)
Activated(p) ==
  /\ p <= proposed /\ Born(p) \in Spawn /\ Maker(p) \in Member /\ Share(p) \in Nat
  /\ row[Born(p)] = "none" /\ row[Maker(p)] # "none" /\ Born(p) # Maker(p)
  /\ Metered(Maker(p)) => Share(p) <= Remaining(Maker(p))
  /\ row' = [row EXCEPT ![Born(p)] = "ACTIVE"]
  /\ parent' = [parent EXCEPT ![Born(p)] = Maker(p)]
  /\ account' \in [Member -> AccountType]
  /\ account'[Born(p)] = Account(Share(p))
  /\ account'[Maker(p)] = Carved(Maker(p), Share(p))
  /\ \A b \in Member \ {Born(p), Maker(p)} : account'[b] = account[b]
  /\ spawned[p] = 0 /\ spawned' = [spawned EXCEPT ![p] = @ + 1]
  /\ proposals' = [proposals EXCEPT ![p] = "ACTIVATED"]
  /\ UNCHANGED <<terms, proposed, mine, theirs, run>>

LEMMA ActivationFacts ==
  ASSUME LedgerInv, NEW p \in Proposal, Activate(p)
  PROVE  Activated(p)
<1> DEFINE s == Born(p)
           a == Maker(p)
           n == Share(p)
           taken == Carved(a, n)
<1>1. /\ proposals[p] = "PENDING" /\ (Metered(a) => n <= Remaining(a)) /\ row[s] = "none"
      /\ row' = [row EXCEPT ![s] = "ACTIVE"] /\ parent' = [parent EXCEPT ![s] = a]
      /\ account' = [account EXCEPT ![a].allowance = Carve(a, n), ![s] = Account(n)]
      /\ proposals' = [proposals EXCEPT ![p] = "ACTIVATED"]
      /\ spawned' = [spawned EXCEPT ![p] = @ + 1]
      /\ UNCHANGED <<terms, proposed, mine, theirs, run>>
  BY DEF Activate, Free, Born, Maker, Share
<1>2. p <= proposed
  <2>1. proposals[p] # "absent"
    BY <1>1
  <2> QED BY <2>1 DEF LedgerInv, LedgerTypeOK, Listed, Proposal
<1>3. terms[p] \in Terms /\ row[a] # "none"
  BY <1>2 DEF LedgerInv, Signed, Maker
<1>4. s \in Spawn /\ s \in Member /\ a \in Member /\ n \in Nat /\ s # a
  BY <1>1, <1>3, Members DEF Terms, Born, Maker, Share
<1>5. spawned[p] = 0
  <2>1. row[terms[p].slug] = "none"
    BY <1>1 DEF Born
  <2>2. spawned[p] # 1 /\ spawned[p] <= 1
    BY <2>1 DEF LedgerInv, Births
  <2>3. spawned[p] \in Nat
    BY DEF LedgerInv, LedgerTypeOK
  <2> QED BY <2>2, <2>3
<1>6. account \in [Member -> AccountType] /\ Account(n) \in AccountType
  BY <1>4 DEF LedgerInv, LedgerTypeOK, Account, AccountType
<1>7. taken \in AccountType
  BY <1>4, <1>6 DEF AccountType, Carve, Carved
<1> HIDE DEF s, a, n
<1>8. account'[s] = Account(n) /\ \A b \in Member \ {s, a} : account'[b] = account[b]
  BY <1>1, <1>4, <1>6
<1>9. account'[a] = taken
  BY <1>1, <1>4, <1>6 DEF AccountType, Carved
<1>10. account' = [b \in Member |-> account'[b]]
  BY <1>1, <1>6
<1> HIDE DEF taken
<1>11. account' \in [Member -> AccountType]
  BY <1>4, <1>6, <1>7, <1>8, <1>9, <1>10
<1> QED BY <1>1, <1>2, <1>3, <1>4, <1>5, <1>8, <1>9, <1>11 DEF s, a, n, taken, Activated

LEMMA Activation ==
  ASSUME LedgerInv, NEW p \in Proposal, Activate(p)
  PROVE  LedgerInv'
<1> DEFINE s == Born(p)
           a == Maker(p)
<1>1. Activated(p) /\ s \in Member
  BY ActivationFacts, Members DEF Activated
<1> USE DEF Activated
<1>2. LedgerTypeOK'
  BY <1>1 DEF LedgerInv, LedgerTypeOK, AccountType, ProposalList, Member
<1>3. \A b \in Member : row'[b] = IF b = s THEN "ACTIVE" ELSE row[b]
  BY <1>1 DEF LedgerInv, LedgerTypeOK
<1>4. Unborn'
  <2> SUFFICES ASSUME NEW b \in Member, row'[b] = "none"
               PROVE  b \notin Root /\ run'[b] = "none" /\ account'[b].open = FALSE
    BY DEF Unborn, Metered
  <2>1. b # s /\ row[b] = "none" /\ b \notin Root /\ run[b] = "none" /\ account[b].open \in BOOLEAN /\ ~account[b].open
    BY <1>3 DEF LedgerInv, LedgerTypeOK, Unborn, Metered
  <2>2. account'[b].open = account[b].open
    BY <1>1, <2>1 DEF LedgerInv, LedgerTypeOK
  <2> QED BY <1>1, <2>1, <2>2
<1>5. Signed'
  <2> SUFFICES ASSUME NEW q \in Proposal, q <= proposed
               PROVE  terms[q] \in Terms /\ row'[terms[q].from] # "none"
    BY <1>1 DEF Signed, Proposal
  <2>1. terms[q] \in Terms /\ row[terms[q].from] # "none" /\ terms[q].from \in Member
    BY DEF LedgerInv, Signed, Terms
  <2> QED BY <1>3, <2>1
<1>6. Listed'
  <2>1. \A q \in Proposal : q > proposed => proposals'[q] = "absent"
    BY <1>1 DEF LedgerInv, LedgerTypeOK, Listed, Proposal, ProposalList
  <2> QED BY <1>1, <2>1 DEF LedgerInv, Listed, Proposal
<1>7. Births'
  <2> SUFFICES ASSUME NEW q \in Proposal
               PROVE  /\ spawned'[q] <= 1
                      /\ spawned'[q] = 1 => q <= proposed /\ row'[terms[q].slug] # "none"
    BY <1>1 DEF Births, Proposal
  <2>1. CASE q = p
    BY <1>1, <1>3, <2>1 DEF Born, LedgerInv, LedgerTypeOK
  <2>2. CASE q # p
    <3>1. spawned'[q] = spawned[q]
      BY <1>1, <2>2 DEF LedgerInv, LedgerTypeOK
    <3>2. /\ spawned[q] <= 1
          /\ spawned[q] = 1 => q <= proposed /\ row[terms[q].slug] # "none"
      BY DEF LedgerInv, Births
    <3>3. q <= proposed => terms[q].slug \in Member
      BY Members DEF LedgerInv, Signed, Terms
    <3> QED BY <1>3, <3>1, <3>2, <3>3
  <2> QED BY <2>1, <2>2
<1> QED BY <1>2, <1>4, <1>5, <1>6, <1>7 DEF LedgerInv

LEMMA LedgerStep ==
  ASSUME LedgerInv, [LedgerNext]_ledgerVars
  PROVE  LedgerInv'
<1> USE Members
<1>0. /\ row \in [Member -> {"none", "ACTIVE", "PAUSED", "RETIRED"}]
      /\ parent \in [Member -> Member \cup {NoOne}]
      /\ account \in [Member -> AccountType]
      /\ run \in [Member -> {"none", "opened", "reserved", "applied"}]
      /\ \A a \in Member : row[a] = "none" => a \notin Root /\ run[a] = "none" /\ account[a].open = FALSE
  BY DEF LedgerInv, LedgerTypeOK, AccountType, Member, Unborn, Metered
<1>1. ASSUME NEW a \in Root, NEW n \in Amount, EnsureAccount(a, n) PROVE LedgerInv'
  <2>1. /\ UNCHANGED <<row, parent, spawnVars, run>> /\ account' = [account EXCEPT ![a] = Account(n)]
    BY <1>1 DEF EnsureAccount, rowVars
  <2>2. Account(n) \in AccountType
    BY DEF Account, AccountType
  <2>3. account' \in [Member -> AccountType]
    BY <1>0, <2>1, <2>2
  <2>4. \A b \in Member : row[b] = "none" => run'[b] = "none" /\ account'[b].open = FALSE
    BY <1>0, <2>1
  <2> QED BY <1>0, <2>1, <2>3, <2>4, TurnSteps
<1>2. ASSUME NEW a \in Member, OpenRun(a) PROVE LedgerInv'
  <2>1. UNCHANGED <<row, parent, account, spawnVars>> /\ row[a] = "ACTIVE" /\ run' = [run EXCEPT ![a] = "opened"]
    BY <1>2 DEF OpenRun, rowVars
  <2> QED BY <1>0, <2>1, TurnSteps
<1>3. ASSUME NEW a \in Member, Reserve(a) PROVE LedgerInv'
  <2>1. /\ UNCHANGED <<row, parent, spawnVars>> /\ run[a] = "opened" /\ run' = [run EXCEPT ![a] = "reserved"]
        /\ account' = IF Metered(a) THEN [account EXCEPT ![a].reserved = @ + 1] ELSE account
    BY <1>3 DEF Reserve, rowVars
  <2>2. account' \in [Member -> AccountType] /\ \A b \in Member : account'[b].open = account[b].open
    BY <1>0, <2>1 DEF AccountType
  <2>3. row[a] # "none"
    BY <1>0, <2>1
  <2> QED BY <1>0, <2>1, <2>2, <2>3, TurnSteps
<1>4. ASSUME NEW a \in Member, RefuseRun(a) PROVE LedgerInv'
  <2>1. /\ UNCHANGED <<parent, account, spawnVars>> /\ run[a] = "opened"
        /\ run' = [run EXCEPT ![a] = "none"] /\ row' = [row EXCEPT ![a] = "PAUSED"]
    BY <1>4 DEF RefuseRun
  <2> QED BY <1>0, <2>1, TurnSteps
<1>5. ASSUME NEW a \in Member, NEW tokens \in BOOLEAN, ApplyTurn(a, tokens) PROVE LedgerInv'
  <2>1. /\ UNCHANGED <<row, parent, spawnVars>> /\ run[a] = "reserved" /\ run' = [run EXCEPT ![a] = "applied"]
        /\ account' = IF tokens /\ Metered(a)
                      THEN [account EXCEPT ![a].reserved = IF @ = 0 THEN 0 ELSE @ - 1,
                                           ![a].spent = @ + 1]
                      ELSE account
    BY <1>5 DEF ApplyTurn, rowVars
  <2>2. account' \in [Member -> AccountType] /\ \A b \in Member : account'[b].open = account[b].open
    BY <1>0, <2>1 DEF AccountType
  <2>3. row[a] # "none"
    BY <1>0, <2>1
  <2> QED BY <1>0, <2>1, <2>2, <2>3, TurnSteps
<1>6. ASSUME NEW a \in Member, ResumeMember(a) PROVE LedgerInv'
  <2>1. /\ UNCHANGED <<parent, account, spawnVars, run>> /\ row[a] # "none"
        /\ row' = [row EXCEPT ![a] = "ACTIVE"]
    BY <1>6 DEF ResumeMember
  <2> QED BY <1>0, <2>1, TurnSteps
<1>7. ASSUME NEW a \in Member, RunEnds(a) PROVE LedgerInv'
  <2>1. /\ UNCHANGED <<row, parent, account, spawnVars>> /\ run[a] # "none"
        /\ run' = [run EXCEPT ![a] = "none"] \/ run' = [run EXCEPT ![a] = "reserved"]
    BY <1>7 DEF RunEnds, rowVars
  <2> QED BY <1>0, <2>1, TurnSteps
<1>8. ASSUME NEW a \in Member, ReapExpired(a) PROVE LedgerInv'
  <2>1. /\ UNCHANGED <<parent, account, spawnVars, run>>
        /\ row' = [b \in Member |-> IF b = a \/ parent[b] = a THEN "RETIRED" ELSE row[b]]
    BY <1>8 DEF ReapExpired
  <2> QED BY <1>0, <2>1, TurnSteps
<1>9. ASSUME NEW a \in Member, NEW s \in Spawn, NEW n \in Amount, ProposeLoads(a, s, n)
      PROVE  LedgerInv'
  <2> DEFINE p == proposed + 1
             t == [slug |-> s, from |-> a, budget |-> n]
  <2>1. /\ UNCHANGED <<row, parent, account, proposals, spawned, theirs, run>>
        /\ proposed < MaxProposals /\ proposed' = p /\ row[a] # "none"
        /\ terms' = [terms EXCEPT ![p] = t] /\ mine' = [proposal |-> p, list |-> proposals]
    BY <1>9 DEF ProposeLoads, MaySpawn, rowVars
  <2>2. proposed \in Nat /\ p \in Proposal /\ p \in 0..MaxProposals
    BY <2>1, LedgerAssumption DEF LedgerInv, LedgerTypeOK, Proposal
  <2>3. t \in Terms
    BY DEF Terms
  <2>4. LedgerTypeOK'
    BY <2>1, <2>2, <2>3 DEF LedgerInv, LedgerTypeOK, Terms, Hold
  <2>5. \A q \in Proposal : terms'[q] = IF q = p THEN t ELSE terms[q]
    BY <2>1, <2>2 DEF LedgerInv, LedgerTypeOK
  <2> HIDE DEF t
  <2>6. Signed'
    <3> SUFFICES ASSUME NEW q \in Proposal, q <= proposed'
                 PROVE  terms'[q] \in Terms /\ row'[terms'[q].from] # "none"
      BY DEF Signed, Proposal
    <3>1. CASE q = p
      BY <2>1, <2>3, <2>5, <3>1 DEF t
    <3>2. CASE q # p
      <4>1. q <= proposed
        BY <2>1, <2>2, <3>2 DEF Proposal
      <4> QED BY <2>1, <2>5, <3>2, <4>1 DEF LedgerInv, Signed
    <3> QED BY <3>1, <3>2
  <2>7. Listed'
    <3>1. \A q \in Proposal : q > proposed' => q > proposed
      BY <2>1, <2>2 DEF Proposal
    <3>2. \A q \in Proposal : q > proposed' =>
            proposals'[q] = "absent" /\ mine'.list[q] = "absent" /\ theirs'.list[q] = "absent"
      BY <2>1, <3>1 DEF LedgerInv, Listed
    <3>3. mine'.proposal \in Proposal /\ mine'.proposal <= proposed'
      BY <2>1, <2>2
    <3>4. theirs' # Nothing => theirs'.proposal \in Proposal /\ theirs'.proposal <= proposed'
      BY <2>1, <2>2 DEF LedgerInv, Listed, Proposal
    <3> QED BY <3>2, <3>3, <3>4 DEF Listed, Proposal
  <2>8. Births'
    <3> SUFFICES ASSUME NEW q \in Proposal
                 PROVE  spawned[q] <= 1 /\ (spawned[q] = 1 => q <= proposed' /\ row[terms'[q].slug] # "none")
      BY <2>1 DEF Births, Proposal
    <3>1. spawned[q] <= 1 /\ (spawned[q] = 1 => q <= proposed /\ row[terms[q].slug] # "none")
      BY DEF LedgerInv, Births
    <3>2. q <= proposed => q # p /\ q <= proposed'
      BY <2>1, <2>2 DEF Proposal
    <3> QED BY <2>5, <3>1, <3>2
  <2>9. Unborn'
    BY <2>1 DEF LedgerInv, Unborn, Metered
  <2> QED BY <2>4, <2>6, <2>7, <2>8, <2>9 DEF LedgerInv
<1>10. ASSUME NEW hold \in Hold, hold = mine \/ hold = theirs, hold # Nothing,
              NEW s \in {"PENDING", "REJECTED"},
              proposals' = [hold.list EXCEPT ![hold.proposal] = s],
              mine' \in {mine, Nothing}, theirs' \in {theirs, Nothing},
              UNCHANGED <<row, parent, account, terms, proposed, spawned, run>>
       PROVE  LedgerInv'
  <2>1. Nothing \in Hold /\ \A q \in Proposal : Nothing.list[q] = "absent"
    BY LedgerAssumption DEF Nothing, Hold, Empty, ProposalList
  <2>2. LedgerTypeOK'
    <3>1. proposals' \in ProposalList
      BY <1>10 DEF Hold, ProposalList
    <3> QED BY <1>10, <2>1, <3>1 DEF LedgerInv, LedgerTypeOK
  <2>3. hold.proposal \in Proposal /\ hold.proposal <= proposed
    BY <1>10 DEF LedgerInv, Listed
  <2>4. \A q \in Proposal : q > proposed' => /\ proposals'[q] = "absent"
                                            /\ mine'.list[q] = "absent" /\ theirs'.list[q] = "absent"
    <3> SUFFICES ASSUME NEW q \in Proposal, q > proposed
                 PROVE  /\ proposals'[q] = "absent"
                        /\ mine'.list[q] = "absent" /\ theirs'.list[q] = "absent"
      BY <1>10
    <3>1. mine.list[q] = "absent" /\ theirs.list[q] = "absent"
      BY DEF LedgerInv, Listed
    <3>2. q # hold.proposal
      BY <2>3 DEF LedgerInv, LedgerTypeOK, Proposal
    <3>3. proposals'[q] = hold.list[q]
      BY <1>10, <3>2 DEF Hold, ProposalList
    <3> QED BY <1>10, <2>1, <3>1, <3>3
  <2>5. Listed'
    <3>1. mine' # Nothing => mine'.proposal \in Proposal /\ mine'.proposal <= proposed'
      BY <1>10 DEF LedgerInv, Listed
    <3>2. theirs' # Nothing => theirs'.proposal \in Proposal /\ theirs'.proposal <= proposed'
      BY <1>10 DEF LedgerInv, Listed
    <3> QED BY <2>4, <3>1, <3>2 DEF Listed, Proposal
  <2>6. Signed' /\ Births' /\ Unborn'
    BY <1>10 DEF LedgerInv, Signed, Births, Unborn, Metered, Proposal
  <2> QED BY <2>2, <2>5, <2>6 DEF LedgerInv
<1>11. CASE ProposeSaves
  <2>1. /\ mine # Nothing /\ mine \in Hold /\ mine' = Nothing /\ theirs' = theirs
        /\ proposals' = [mine.list EXCEPT ![mine.proposal] = "PENDING"]
        /\ UNCHANGED <<row, parent, account, terms, proposed, spawned, run>>
    BY <1>11 DEF ProposeSaves, rowVars, LedgerInv, LedgerTypeOK
  <2> QED BY <1>10, <2>1
<1>12. CASE RejectionSaves
  <2>1. /\ theirs # Nothing /\ theirs \in Hold /\ theirs' = Nothing /\ mine' = mine
        /\ proposals' = [theirs.list EXCEPT ![theirs.proposal] = "REJECTED"]
        /\ UNCHANGED <<row, parent, account, terms, proposed, spawned, run>>
    BY <1>12 DEF RejectionSaves, rowVars, LedgerInv, LedgerTypeOK
  <2> QED BY <1>10, <2>1
<1>13. ASSUME NEW p \in Proposal, RejectionLoads(p) PROVE LedgerInv'
  <2>1. /\ UNCHANGED <<row, parent, account, proposals, terms, proposed, spawned, mine, run>>
        /\ proposals[p] = "PENDING" /\ theirs' = [proposal |-> p, list |-> proposals]
    BY <1>13 DEF RejectionLoads, rowVars, listedVars
  <2>2. p <= proposed
    BY <2>1 DEF LedgerInv, LedgerTypeOK, Listed, Proposal
  <2>3. LedgerTypeOK'
    BY <2>1 DEF LedgerInv, LedgerTypeOK, Hold, Proposal
  <2>4. Listed'
    BY <2>1, <2>2 DEF LedgerInv, Listed, Proposal
  <2>5. Signed' /\ Births' /\ Unborn'
    BY <2>1 DEF LedgerInv, Signed, Births, Unborn, Metered, Proposal
  <2> QED BY <2>3, <2>4, <2>5 DEF LedgerInv
<1>14. ASSUME NEW p \in Proposal, Activate(p) PROVE LedgerInv'
  BY <1>14, Activation
<1>15. CASE UNCHANGED ledgerVars
  BY <1>0, <1>15, TurnSteps DEF ledgerVars, rowVars
<1> QED
  BY <1>1, <1>2, <1>3, <1>4, <1>5, <1>6, <1>7, <1>8, <1>9, <1>11, <1>12, <1>13, <1>14, <1>15
  DEF LedgerNext
LEMMA LedgerStart == LedgerInit => LedgerInv
<1> SUFFICES ASSUME LedgerInit PROVE LedgerInv
  OBVIOUS
<1> USE LedgerAssumption
<1>1. LedgerTypeOK
  BY DEF LedgerInit, LedgerTypeOK, NoAccount, NoTerms, Nothing, Hold, Empty, ProposalList, Member
<1>2. Unborn /\ Signed /\ Births
  BY DEF LedgerInit, Unborn, Signed, Births, Metered, NoAccount, Member, Proposal
<1>3. Listed
  BY DEF LedgerInit, Listed, Nothing, Empty, Proposal
<1> QED BY <1>1, <1>2, <1>3 DEF LedgerInv

LEMMA LedgerInvariant == LedgerSpec => []LedgerInv
<1>1. LedgerInv /\ [LedgerNext]_ledgerVars => LedgerInv'
  BY LedgerStep
<1> QED BY <1>1, LedgerStart, PTL DEF LedgerSpec

-----------------------------------------------------------------------------
(* The theorems *)

(* spawn.ts:101, 129, for every fleet and whatever the two processes write   *)
(* over each other's lists: a proposal is activated at most once, because   *)
(* the agent it asks for then has a row.                                    *)
THEOREM SpawnsOnce == LedgerSpec => []SpawnedOnce
<1>1. LedgerInv => SpawnedOnce
  BY DEF LedgerInv, Births, SpawnedOnce
<1> QED BY <1>1, LedgerInvariant, PTL

(* An account opens with the share of a proposal that is activated, which    *)
(* its maker's allowance falls by; a root's account opens with what it is    *)
(* given.                                                                  *)
LEMMA Carving ==
  ASSUME LedgerInv, [LedgerNext]_ledgerVars, NEW a \in Member, Metered(a)
  PROVE  \/ /\ account'[a].allowance = account[a].allowance
            /\ \A c \in Spawn : Opens(c, a) => account'[c].allowance = 0
         \/ \E c \in Spawn :
              /\ Opens(c, a)
              /\ account[a].allowance = account'[a].allowance + account'[c].allowance
<1> DEFINE Good == \/ /\ account'[a].allowance = account[a].allowance
                      /\ \A c \in Spawn : Opens(c, a) => account'[c].allowance = 0
                   \/ \E c \in Spawn :
                        /\ Opens(c, a)
                        /\ account[a].allowance = account'[a].allowance + account'[c].allowance
<1>1. account \in [Member -> AccountType] /\ Spawn \subseteq Member
  BY Members DEF LedgerInv, LedgerTypeOK, AccountType
<1>2. ASSUME account'[a].allowance = account[a].allowance,
             \A c \in Spawn : account'[c].open = account[c].open
      PROVE  Good
  BY <1>2 DEF Opens, Metered
<1>3. ASSUME NEW b \in Root, NEW n \in Amount, EnsureAccount(b, n) PROVE Good
  <2>1. ~Metered(b) /\ account' = [account EXCEPT ![b] = Account(n)]
    BY <1>3 DEF EnsureAccount
  <2>2. a # b /\ \A c \in Spawn : c # b
    BY <2>1, Members
  <2> QED BY <1>1, <1>2, <2>1, <2>2
<1>4. ASSUME NEW b \in Member, Reserve(b) PROVE Good
  BY <1>1, <1>2, <1>4 DEF Reserve, AccountType
<1>5. ASSUME NEW b \in Member, NEW tokens \in BOOLEAN, ApplyTurn(b, tokens) PROVE Good
  BY <1>1, <1>2, <1>5 DEF ApplyTurn, AccountType
<1>6. ASSUME NEW p \in Proposal, Activate(p) PROVE Good
  <2>1. Activated(p)
    BY <1>6, ActivationFacts
  <2>2. ~Metered(Born(p)) /\ Born(p) \in Member /\ a # Born(p)
    BY <1>1, <2>1 DEF Activated, LedgerInv, Unborn
  <2>3. CASE a = Maker(p)
    <3>1. account'[Born(p)] = Account(Share(p)) /\ Share(p) \in Nat
      BY <2>1 DEF Activated
    <3>2. Opens(Born(p), a)
      BY <2>1, <2>2, <2>3, <3>1 DEF Opens, Account, Activated, LedgerInv, LedgerTypeOK
    <3>3. account'[a].allowance = account[a].allowance - Share(p)
      BY <2>1, <2>3 DEF Activated, Carved, Carve
    <3>4. account'[Born(p)].allowance = Share(p)
      BY <3>1 DEF Account
    <3>5. account[a].allowance \in Int
      BY <1>1 DEF AccountType
    <3>6. account[a].allowance = account'[a].allowance + account'[Born(p)].allowance
      BY <3>1, <3>3, <3>4, <3>5
    <3>7. Born(p) \in Spawn
      BY <2>1 DEF Activated
    <3> QED BY <3>2, <3>6, <3>7
  <2>4. CASE a # Maker(p)
    <3>1. account'[a] = account[a]
      BY <2>1, <2>2, <2>4 DEF Activated
    <3>2. ASSUME NEW c \in Spawn, Opens(c, a) PROVE FALSE
      <4>1. ~Metered(c) /\ account'[c].open /\ parent'[c] = a
        BY <3>2 DEF Opens
      <4>2. CASE c = Born(p)
        <5>1. parent'[c] = Maker(p)
          BY <1>1, <2>1, <4>2 DEF Activated, LedgerInv, LedgerTypeOK, Member
        <5> QED BY <2>4, <4>1, <5>1
      <4>3. CASE c # Born(p) /\ c = Maker(p)
        BY <2>1, <4>1, <4>3 DEF Activated, Carved, Metered
      <4>4. CASE c # Born(p) /\ c # Maker(p)
        BY <1>1, <2>1, <4>1, <4>4 DEF Activated, Metered
      <4> QED BY <4>2, <4>3, <4>4
    <3> QED BY <3>1, <3>2
  <2> QED BY <2>3, <2>4
<1>7. ASSUME UNCHANGED account PROVE Good
  BY <1>2, <1>7
<1> HIDE DEF Good
<1>8. Good
  BY <1>3, <1>4, <1>5, <1>6, <1>7
  DEF LedgerNext, OpenRun, RefuseRun, RunEnds, ResumeMember, ProposeLoads, ProposeSaves,
      RejectionLoads, RejectionSaves, ReapExpired, ledgerVars
<1> QED BY <1>8 DEF Good

(* spawn.ts:14-15, 106-127, for every fleet and every set of amounts:        *)
(* creating an agent conjures no capacity out of a metered parent.          *)
THEOREM SpawningConjuresNothing == LedgerSpec => CarveOut
<1>1. LedgerInv /\ [LedgerNext]_ledgerVars =>
        [\A a \in Member : Metered(a) =>
           \/ /\ account'[a].allowance = account[a].allowance
              /\ \A c \in Spawn : Opens(c, a) => account'[c].allowance = 0
           \/ \E c \in Spawn :
                /\ Opens(c, a)
                /\ account[a].allowance = account'[a].allowance + account'[c].allowance]_ledgerVars
  BY Carving
<1> QED BY <1>1, LedgerInvariant, PTL DEF LedgerSpec, CarveOut

(* What the debits keep, when no account is opened in the middle of a turn   *)
(* and no result is applied twice.                                          *)
LEMMA Debits ==
  ASSUME "midturn" \notin Rare, "twice" \notin Rare,
         LedgerInv, NeverOverspent, Backed, [LedgerNext]_ledgerVars
  PROVE  NeverOverspent' /\ Backed'
<1> DEFINE Sound(b) == /\ account'[b].open => account'[b].allowance - account'[b].reserved - account'[b].spent >= 0
                       /\ run'[b] = "reserved" /\ account'[b].open => account'[b].reserved >= 1
<1>1. account \in [Member -> AccountType] /\ run \in [Member -> {"none", "opened", "reserved", "applied"}]
  BY DEF LedgerInv, LedgerTypeOK, AccountType
<1>2. ASSUME NEW b \in Member, account'[b] = account[b], run'[b] = "reserved" => run[b] = "reserved"
      PROVE  Sound(b)
  BY <1>2 DEF NeverOverspent, Backed, Metered, Remaining
<1>3. SUFFICES ASSUME NEW b \in Member PROVE Sound(b)
  BY DEF NeverOverspent, Backed, Metered, Remaining
<1>4. ASSUME NEW c \in Root, NEW n \in Amount, EnsureAccount(c, n) PROVE Sound(b)
  <2>1. /\ run[c] \in {"none", "opened"} /\ UNCHANGED run
        /\ account' = [account EXCEPT ![c] = Account(n)]
    BY <1>4 DEF EnsureAccount
  <2>2. CASE b = c
    <3>1. account'[b] = Account(n) /\ run'[b] # "reserved" /\ n \in Nat
      BY <1>1, <2>1, <2>2, Members
    <3> QED BY <3>1 DEF Account
  <2>3. CASE b # c
    BY <1>1, <1>2, <2>1, <2>3
  <2> QED BY <2>2, <2>3
<1>5. ASSUME NEW c \in Member, Reserve(c) PROVE Sound(b)
  <2>1. /\ Affords(c) /\ run' = [run EXCEPT ![c] = "reserved"]
        /\ account' = IF Metered(c) THEN [account EXCEPT ![c].reserved = @ + 1] ELSE account
    BY <1>5 DEF Reserve
  <2>2. CASE b = c /\ Metered(c)
    BY <1>1, <2>1, <2>2 DEF Affords, AccountType, Metered
  <2>3. CASE b = c /\ ~Metered(c)
    BY <1>1, <2>1, <2>3 DEF Metered
  <2>4. CASE b # c
    BY <1>1, <1>2, <2>1, <2>4
  <2> QED BY <2>2, <2>3, <2>4
<1>6. ASSUME NEW c \in Member, NEW tokens \in BOOLEAN, ApplyTurn(c, tokens) PROVE Sound(b)
  <2>1. /\ run[c] = "reserved" /\ run' = [run EXCEPT ![c] = "applied"]
        /\ account' = IF tokens /\ Metered(c)
                      THEN [account EXCEPT ![c].reserved = IF @ = 0 THEN 0 ELSE @ - 1,
                                           ![c].spent = @ + 1]
                      ELSE account
    BY <1>6 DEF ApplyTurn
  <2>2. CASE b = c /\ tokens /\ Metered(c)
    <3>1. account[b].reserved >= 1 /\ Remaining(b) >= 0 /\ account[b] \in AccountType
      BY <1>1, <2>1, <2>2 DEF Backed, NeverOverspent
    <3>2. /\ account'[b].reserved = account[b].reserved - 1
          /\ account'[b].spent = account[b].spent + 1
          /\ account'[b].allowance = account[b].allowance
      BY <1>1, <2>1, <2>2, <3>1 DEF AccountType
    <3>3. run'[b] = "applied"
      BY <1>1, <2>1, <2>2
    <3> QED BY <3>1, <3>2, <3>3 DEF Remaining, AccountType
  <2>3. CASE ~(tokens /\ Metered(c))
    BY <1>1, <1>2, <2>1, <2>3
  <2>4. CASE b # c
    BY <1>1, <1>2, <2>1, <2>4
  <2> QED BY <2>2, <2>3, <2>4
<1>7. ASSUME NEW p \in Proposal, Activate(p) PROVE Sound(b)
  <2>1. Activated(p)
    BY <1>7, ActivationFacts
  <2>2. CASE b = Born(p)
    <3>1. run[b] = "none"
      BY <2>1, <2>2 DEF Activated, LedgerInv, Unborn
    <3>2. account'[b] = Account(Share(p)) /\ Share(p) \in Nat /\ run'[b] = "none"
      BY <2>1, <2>2, <3>1 DEF Activated
    <3> QED BY <3>2 DEF Account
  <2>3. CASE b = Maker(p)
    <3>1. /\ account'[b] = Carved(b, Share(p)) /\ Share(p) \in Nat /\ run'[b] = run[b]
          /\ Metered(b) => Share(p) <= Remaining(b)
      BY <2>1, <2>3 DEF Activated
    <3>2. account[b] \in AccountType /\ (Metered(b) => Remaining(b) >= 0)
      BY <1>1 DEF NeverOverspent
    <3>3. run[b] = "reserved" /\ Metered(b) => account[b].reserved >= 1
      BY DEF Backed
    <3> QED BY <3>1, <3>2, <3>3 DEF Carved, Carve, Remaining, Metered, AccountType
  <2>4. CASE b # Born(p) /\ b # Maker(p)
    BY <1>2, <2>1, <2>4 DEF Activated
  <2> QED BY <2>2, <2>3, <2>4
<1>8. ASSUME NEW c \in Member, OpenRun(c) PROVE Sound(b)
  BY <1>1, <1>2, <1>8 DEF OpenRun
<1>9. ASSUME NEW c \in Member, RefuseRun(c) PROVE Sound(b)
  BY <1>1, <1>2, <1>9 DEF RefuseRun
<1>10. ASSUME NEW c \in Member, RunEnds(c) PROVE Sound(b)
  BY <1>1, <1>2, <1>10 DEF RunEnds
<1>11. ASSUME UNCHANGED <<account, run>> PROVE Sound(b)
  BY <1>2, <1>11
<1> HIDE DEF Sound
<1> QED
  BY <1>4, <1>5, <1>6, <1>7, <1>8, <1>9, <1>10, <1>11
  DEF LedgerNext, ResumeMember, ProposeLoads, ProposeSaves, RejectionLoads, RejectionSaves,
      ReapExpired, ledgerVars

(* budget.ts:41-43, 54, for every fleet and every set of amounts: what is    *)
(* reserved and spent never exceeds the allowance, with reservations leaked *)
(* by turns that report nothing, and allowances carved for children.        *)
THEOREM AccountsAreNeverOverspent ==
  "midturn" \notin Rare /\ "twice" \notin Rare => (LedgerSpec => []NeverOverspent)
<1> SUFFICES ASSUME "midturn" \notin Rare, "twice" \notin Rare PROVE LedgerSpec => []NeverOverspent
  OBVIOUS
<1>1. LedgerInit => NeverOverspent /\ Backed
  BY DEF LedgerInit, NeverOverspent, Backed, Metered, NoAccount
<1>2. LedgerInv /\ NeverOverspent /\ Backed /\ [LedgerNext]_ledgerVars => NeverOverspent' /\ Backed'
  BY Debits
<1> QED BY <1>1, <1>2, LedgerInvariant, PTL DEF LedgerSpec
=============================================================================
