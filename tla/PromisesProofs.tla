--------------------------- MODULE PromisesProofs ---------------------------
(***************************************************************************)
(* Proofs about Scheduler and Views, for every fleet, inbox and instance:  *)
(* what was retired was read, who is shown to wait for a human can be      *)
(* helped, and who is quiet is owed nothing.  Each theorem assumes away    *)
(* only the interferences that TLC shows to break it.                      *)
(*                                                                         *)
(* Each invariant is proved to be kept by one lemma, whose first step is   *)
(* the frame: a step that writes none of the variables the invariant       *)
(* speaks of keeps it.  Then come the actions that write one of them.      *)
(***************************************************************************)
EXTENDS Views, SchedulerProofs

-----------------------------------------------------------------------------
(* What the shared writes do to a row *)

(* Writing a column of a delivery leaves the others (message_deliveries).   *)
LEMMA Columns ==
  /\ \A row \in MailRow :
       /\ \A s : /\ [row EXCEPT !.state = s].state = s
                 /\ [row EXCEPT !.state = s].to = row.to
                 /\ [row EXCEPT !.state = s].kind = row.kind
                 /\ [row EXCEPT !.state = s].attempts = row.attempts
                 /\ [row EXCEPT !.state = s].read = row.read
       /\ /\ [row EXCEPT !.read = TRUE].state = row.state
          /\ [row EXCEPT !.read = TRUE].to = row.to
          /\ [row EXCEPT !.read = TRUE].kind = row.kind
          /\ [row EXCEPT !.read = TRUE].attempts = row.attempts
          /\ [row EXCEPT !.read = TRUE].read = TRUE
       /\ \A s, t : /\ [row EXCEPT !.state = s, !.attempts = t].state = s
                    /\ [row EXCEPT !.state = s, !.attempts = t].to = row.to
                    /\ [row EXCEPT !.state = s, !.attempts = t].kind = row.kind
                    /\ [row EXCEPT !.state = s, !.attempts = t].attempts = t
                    /\ [row EXCEPT !.state = s, !.attempts = t].read = row.read
       /\ \A s, t, u : /\ [row EXCEPT !.state = s, !.to = t, !.kind = u].state = s
                       /\ [row EXCEPT !.state = s, !.to = t, !.kind = u].to = t
                       /\ [row EXCEPT !.state = s, !.to = t, !.kind = u].kind = u
                       /\ [row EXCEPT !.state = s, !.to = t, !.kind = u].attempts
                            = row.attempts
                       /\ [row EXCEPT !.state = s, !.to = t, !.kind = u].read = row.read
BY DEF MailRow

(* Writing a column of a question leaves the others (approval_requests).    *)
LEMMA AskColumns ==
  /\ \A row \in AskRow :
       /\ \A s : /\ [row EXCEPT !.consumed = s].state = row.state
                 /\ [row EXCEPT !.consumed = s].of = row.of
                 /\ [row EXCEPT !.consumed = s].when = row.when
                 /\ [row EXCEPT !.consumed = s].told = row.told
                 /\ [row EXCEPT !.consumed = s].consumed = s
       /\ \A s : /\ [row EXCEPT !.told = s].state = row.state
                 /\ [row EXCEPT !.told = s].of = row.of
                 /\ [row EXCEPT !.told = s].when = row.when
                 /\ [row EXCEPT !.told = s].told = s
                 /\ [row EXCEPT !.told = s].consumed = row.consumed
       /\ \A s : /\ [row EXCEPT !.when = s].state = row.state
                 /\ [row EXCEPT !.when = s].of = row.of
                 /\ [row EXCEPT !.when = s].when = s
                 /\ [row EXCEPT !.when = s].told = row.told
                 /\ [row EXCEPT !.when = s].consumed = row.consumed
       /\ \A s, t : /\ [row EXCEPT !.state = s, !.when = t].state = s
                    /\ [row EXCEPT !.state = s, !.when = t].of = row.of
                    /\ [row EXCEPT !.state = s, !.when = t].when = t
                    /\ [row EXCEPT !.state = s, !.when = t].told = row.told
                    /\ [row EXCEPT !.state = s, !.when = t].consumed = row.consumed
       /\ \A s, t : /\ [row EXCEPT !.state = s, !.of = t].state = s
                    /\ [row EXCEPT !.state = s, !.of = t].of = t
                    /\ [row EXCEPT !.state = s, !.of = t].when = row.when
                    /\ [row EXCEPT !.state = s, !.of = t].told = row.told
                    /\ [row EXCEPT !.state = s, !.of = t].consumed = row.consumed
BY DEF AskRow

(* A settle (repo.ts succeed).                                             *)
LEMMA SettledRows ==
  ASSUME TypeOK, NEW a \in Agent, NEW outcome, NEW to, Succeed(a, outcome, to)
  PROVE  /\ turn'[a] = to /\ \A b \in Agent : b # a => turn'[b] = turn[b]
         /\ watched' = watched \ {a}
         /\ \A m \in Mail :
              /\ mail'[m].to = mail[m].to /\ mail'[m].kind = mail[m].kind
              /\ mail'[m].attempts = mail[m].attempts /\ mail'[m].read = mail[m].read
              /\ m \notin Mine(a) => mail'[m] = mail[m]
              /\ m \in Mine(a) =>
                   mail'[m].state = IF Consumes(outcome) THEN "ACKED"
                                    ELSE IF Spent(mail[m]) THEN "DEAD" ELSE "QUEUED"
         /\ \A k \in Ask :
              /\ ask'[k].of = ask[k].of /\ ask'[k].state = ask[k].state
              /\ ask'[k].when = ask[k].when /\ ask'[k].told = ask[k].told
              /\ IF Consumes(outcome) /\ k \in Carried(a) THEN ask'[k].consumed
                 ELSE ask'[k] = ask[k]
<1>1. /\ turn'[a] = to /\ \A b \in Agent : b # a => turn'[b] = turn[b]
      /\ watched' = watched \ {a}
  BY DEF Succeed, TypeOK
<1>2. ASSUME NEW m \in Mail
      PROVE  /\ mail'[m].to = mail[m].to /\ mail'[m].kind = mail[m].kind
             /\ mail'[m].attempts = mail[m].attempts /\ mail'[m].read = mail[m].read
             /\ m \notin Mine(a) => mail'[m] = mail[m]
             /\ m \in Mine(a) =>
                  mail'[m].state = IF Consumes(outcome) THEN "ACKED"
                                   ELSE IF Spent(mail[m]) THEN "DEAD" ELSE "QUEUED"
  <2>1. CASE m \notin Mine(a)
    BY <2>1 DEF Succeed, SettledMail
  <2>2. CASE m \in Mine(a)
    <3> DEFINE s == IF Consumes(outcome) THEN "ACKED"
                    ELSE IF Spent(mail[m]) THEN "DEAD" ELSE "QUEUED"
    <3>1. mail'[m] = [mail[m] EXCEPT !.state = s]
      BY <2>2 DEF Succeed, SettledMail
    <3>2. mail[m] \in MailRow
      BY DEF TypeOK
    <3> HIDE DEF s
    <3>3. /\ mail'[m].to = mail[m].to /\ mail'[m].kind = mail[m].kind
          /\ mail'[m].attempts = mail[m].attempts /\ mail'[m].read = mail[m].read
          /\ mail'[m].state = s
      BY <3>1, <3>2, Columns
    <3> QED BY <2>2, <3>3 DEF s
  <2> QED BY <2>1, <2>2
<1>3. ASSUME NEW k \in Ask
      PROVE  /\ ask'[k].of = ask[k].of /\ ask'[k].state = ask[k].state
             /\ ask'[k].when = ask[k].when /\ ask'[k].told = ask[k].told
             /\ IF Consumes(outcome) /\ k \in Carried(a) THEN ask'[k].consumed
                ELSE ask'[k] = ask[k]
  <2>1. ask[k] \in AskRow /\ ask[k].consumed \in BOOLEAN
    BY DEF TypeOK, AskRow
  <2>2. CASE Consumes(outcome) /\ k \in Carried(a)
    <3>1. ask'[k] = [ask[k] EXCEPT !.consumed = TRUE]
      BY <2>2 DEF Succeed, SettledAsks
    <3> QED BY <2>1, <2>2, <3>1, AskColumns
  <2>3. CASE ~(Consumes(outcome) /\ k \in Carried(a))
    <3>1. ask'[k] = ask[k]
      BY <2>3 DEF Succeed, SettledAsks
    <3> QED BY <2>1, <2>3, <3>1
  <2> QED BY <2>2, <2>3
<1> QED BY <1>1, <1>2, <1>3

(* A delivery (messages.ts).                                               *)
LEMMA DeliveredRows ==
  ASSUME TypeOK, NEW m \in Mail, NEW a \in Agent, NEW kind, NEW why,
         DeliverAndWake(m, a, kind, why)
  PROVE  /\ mail[m].state = "unsent" /\ \A n \in Mail : n # m => mail'[n] = mail[n]
         /\ mail'[m].state = "QUEUED" /\ mail'[m].to = a /\ mail'[m].kind = kind
         /\ mail'[m].attempts = mail[m].attempts /\ mail'[m].read = mail[m].read
<1>1. mail[m] \in MailRow /\ mail[m].state = "unsent"
  BY DEF TypeOK, DeliverAndWake
<1>2. mail'[m] = [mail[m] EXCEPT !.state = "QUEUED", !.to = a, !.kind = kind]
  BY DEF DeliverAndWake, TypeOK
<1>3. \A n \in Mail : n # m => mail'[n] = mail[n]
  BY DEF DeliverAndWake, TypeOK
<1> QED BY <1>1, <1>2, <1>3, Columns

(* leaseFor and assembleCapsule.                                           *)
LEMMA DispatchedRows ==
  ASSUME TypeOK, Selection, Dispatch
  PROVE  /\ cur \in Agent /\ turn[cur] = "opened" /\ turn'[cur] = "session"
         /\ \A b \in Agent : b # cur => turn'[b] = turn[b]
         /\ \A m \in Mail :
              /\ mail'[m].to = mail[m].to /\ mail'[m].kind = mail[m].kind
              /\ mail'[m].read = mail[m].read
              /\ m \notin Pending(cur) => mail'[m] = mail[m]
              /\ m \in Pending(cur) =>
                   /\ mail'[m].state = "LEASED"
                   /\ mail'[m].attempts = IF mail[m].attempts < MaxAttempts
                                          THEN mail[m].attempts + 1 ELSE mail[m].attempts
         /\ \A k \in Ask :
              /\ ask'[k].of = ask[k].of /\ ask'[k].state = ask[k].state
              /\ ask'[k].when = ask[k].when /\ ask'[k].consumed = ask[k].consumed
              /\ ask'[k].told = IF k \in Owed(cur) /\ ask[k].told = "no" THEN "packed"
                                                                        ELSE ask[k].told
<1>1. /\ cur \in Agent /\ turn[cur] = "opened" /\ turn'[cur] = "session"
      /\ \A b \in Agent : b # cur => turn'[b] = turn[b]
  BY DEF Dispatch, Selection, TypeOK
<1>2. ASSUME NEW m \in Mail
      PROVE  /\ mail'[m].to = mail[m].to /\ mail'[m].kind = mail[m].kind
             /\ mail'[m].read = mail[m].read
             /\ m \notin Pending(cur) => mail'[m] = mail[m]
             /\ m \in Pending(cur) =>
                  /\ mail'[m].state = "LEASED"
                  /\ mail'[m].attempts = IF mail[m].attempts < MaxAttempts
                                         THEN mail[m].attempts + 1 ELSE mail[m].attempts
  <2>1. CASE m \notin Pending(cur)
    BY <2>1 DEF Dispatch
  <2>2. CASE m \in Pending(cur)
    <3> DEFINE n == IF mail[m].attempts < MaxAttempts
                    THEN mail[m].attempts + 1 ELSE mail[m].attempts
    <3>1. mail[m] \in MailRow
      BY DEF TypeOK
    <3>2. mail'[m] = [mail[m] EXCEPT !.state = "LEASED", !.attempts = n]
      BY <2>2 DEF Dispatch
    <3> HIDE DEF n
    <3>3. /\ mail'[m].to = mail[m].to /\ mail'[m].kind = mail[m].kind
          /\ mail'[m].read = mail[m].read
          /\ mail'[m].state = "LEASED" /\ mail'[m].attempts = n
      BY <3>1, <3>2, Columns
    <3> QED BY <2>2, <3>3 DEF n
  <2> QED BY <2>1, <2>2
<1>3. ASSUME NEW k \in Ask
      PROVE  /\ ask'[k].of = ask[k].of /\ ask'[k].state = ask[k].state
             /\ ask'[k].when = ask[k].when /\ ask'[k].consumed = ask[k].consumed
             /\ ask'[k].told = IF k \in Owed(cur) /\ ask[k].told = "no" THEN "packed"
                                                                       ELSE ask[k].told
  <2>1. ask[k] \in AskRow
    BY DEF TypeOK
  <2>2. CASE k \in Owed(cur) /\ ask[k].told = "no"
    <3>1. ask'[k] = [ask[k] EXCEPT !.told = "packed"]
      BY <2>2 DEF Dispatch
    <3> QED BY <2>1, <2>2, <3>1, AskColumns
  <2>3. CASE ~(k \in Owed(cur) /\ ask[k].told = "no")
    <3>1. ask'[k] = ask[k]
      BY <2>3 DEF Dispatch
    <3> QED BY <2>3, <3>1
  <2> QED BY <2>2, <2>3
<1> QED BY <1>1, <1>2, <1>3

(* The prompt starts, with the capsule in it.                              *)
LEMMA ReadyRows ==
  ASSUME TypeOK, NEW a \in Agent, SessionReady(a)
  PROVE  /\ turn[a] = "session" /\ turn'[a] = "running"
         /\ \A b \in Agent : b # a => turn'[b] = turn[b]
         /\ \A m \in Mail :
              /\ mail'[m].state = mail[m].state /\ mail'[m].to = mail[m].to
              /\ mail'[m].kind = mail[m].kind /\ mail'[m].attempts = mail[m].attempts
              /\ IF m \in Mine(a) THEN mail'[m].read ELSE mail'[m] = mail[m]
         /\ \A k \in Ask :
              /\ ask'[k].of = ask[k].of /\ ask'[k].state = ask[k].state
              /\ ask'[k].when = ask[k].when /\ ask'[k].consumed = ask[k].consumed
              /\ ask'[k].told = IF ask[k].of = a /\ ask[k].told = "packed" THEN "yes"
                                                                           ELSE ask[k].told
<1>1. /\ turn[a] = "session" /\ turn'[a] = "running"
      /\ \A b \in Agent : b # a => turn'[b] = turn[b]
  BY DEF SessionReady, TypeOK
<1>2. ASSUME NEW m \in Mail
      PROVE  /\ mail'[m].state = mail[m].state /\ mail'[m].to = mail[m].to
             /\ mail'[m].kind = mail[m].kind /\ mail'[m].attempts = mail[m].attempts
             /\ IF m \in Mine(a) THEN mail'[m].read ELSE mail'[m] = mail[m]
  <2>1. mail[m] \in MailRow /\ mail[m].read \in BOOLEAN
    BY DEF TypeOK, MailRow
  <2>2. CASE m \in Mine(a)
    <3>1. mail'[m] = [mail[m] EXCEPT !.read = TRUE]
      BY <2>2 DEF SessionReady
    <3> QED BY <2>1, <2>2, <3>1, Columns
  <2>3. CASE m \notin Mine(a)
    <3>1. mail'[m] = mail[m]
      BY <2>3 DEF SessionReady
    <3> QED BY <2>1, <2>3, <3>1
  <2> QED BY <2>2, <2>3
<1>3. ASSUME NEW k \in Ask
      PROVE  /\ ask'[k].of = ask[k].of /\ ask'[k].state = ask[k].state
             /\ ask'[k].when = ask[k].when /\ ask'[k].consumed = ask[k].consumed
             /\ ask'[k].told = IF ask[k].of = a /\ ask[k].told = "packed" THEN "yes"
                                                                          ELSE ask[k].told
  <2>1. ask[k] \in AskRow
    BY DEF TypeOK
  <2>2. CASE ask[k].of = a /\ ask[k].told = "packed"
    <3>1. ask'[k] = [ask[k] EXCEPT !.told = "yes"]
      BY <2>2 DEF SessionReady
    <3> QED BY <2>1, <2>2, <3>1, AskColumns
  <2>3. CASE ~(ask[k].of = a /\ ask[k].told = "packed")
    <3>1. ask'[k] = ask[k]
      BY <2>3 DEF SessionReady
    <3> QED BY <2>3, <3>1
  <2> QED BY <2>2, <2>3
<1> QED BY <1>1, <1>2, <1>3

(* A run opens: what was answered so far was answered before it.           *)
LEMMA OpenedRows ==
  ASSUME TypeOK, Selection, OpenRun
  PROVE  /\ cur \in Agent /\ turn[cur] = "none" /\ turn'[cur] = "opened"
         /\ \A b \in Agent : b # cur => turn'[b] = turn[b]
         /\ \A k \in Ask :
              /\ ask'[k].of = ask[k].of /\ ask'[k].state = ask[k].state
              /\ ask'[k].told = ask[k].told /\ ask'[k].consumed = ask[k].consumed
              /\ ask'[k].when = IF ask[k].of = cur /\ ask[k].when = "during" THEN "before"
                                                                             ELSE ask[k].when
<1>1. /\ cur \in Agent /\ turn[cur] = "none" /\ turn'[cur] = "opened"
      /\ \A b \in Agent : b # cur => turn'[b] = turn[b]
  BY DEF OpenRun, Selection, TypeOK
<1>2. ASSUME NEW k \in Ask
      PROVE  /\ ask'[k].of = ask[k].of /\ ask'[k].state = ask[k].state
             /\ ask'[k].told = ask[k].told /\ ask'[k].consumed = ask[k].consumed
             /\ ask'[k].when = IF ask[k].of = cur /\ ask[k].when = "during" THEN "before"
                                                                            ELSE ask[k].when
  <2>1. ask[k] \in AskRow
    BY DEF TypeOK
  <2>2. CASE ask[k].of = cur /\ ask[k].when = "during"
    <3>1. ask'[k] = [ask[k] EXCEPT !.when = "before"]
      BY <2>2 DEF OpenRun
    <3> QED BY <2>1, <2>2, <3>1, AskColumns
  <2>3. CASE ~(ask[k].of = cur /\ ask[k].when = "during")
    <3>1. ask'[k] = ask[k]
      BY <2>3 DEF OpenRun
    <3> QED BY <2>3, <3>1
  <2> QED BY <2>2, <2>3
<1> QED BY <1>1, <1>2

(* A question is filed, answered or withdrawn (hitl.ts).                   *)
LEMMA FiledQuestion ==
  ASSUME TypeOK, NEW k \in Ask, NEW a \in Agent, FileQuestion(k, a)
  PROVE  /\ ask[k].state = "unfiled" /\ \A q \in Ask : q # k => ask'[q] = ask[q]
         /\ ask'[k].state = "PENDING" /\ ask'[k].of = a /\ ask'[k].when = ask[k].when
         /\ ask'[k].told = ask[k].told /\ ask'[k].consumed = ask[k].consumed
<1>1. ask[k] \in AskRow /\ ask[k].state = "unfiled"
  BY DEF TypeOK, FileQuestion
<1>2. ask'[k] = [ask[k] EXCEPT !.state = "PENDING", !.of = a]
  BY DEF FileQuestion, TypeOK
<1>3. \A q \in Ask : q # k => ask'[q] = ask[q]
  BY DEF FileQuestion, TypeOK
<1> QED BY <1>1, <1>2, <1>3, AskColumns

(* An answer or a withdrawal closes one question and sets its agent free.   *)
LEMMA DecidedRows ==
  ASSUME TypeOK, NEW k \in Ask, Answer(k) \/ CancelAsk(k)
  PROVE  /\ ask[k].state = "PENDING" /\ ask[k].of \in Agent
         /\ \A q \in Ask : q # k => ask'[q] = ask[q]
         /\ ask'[k].state = (IF Answer(k) THEN "APPROVED" ELSE "CANCELLED")
         /\ ask'[k].of = ask[k].of /\ ask'[k].when = "during"
         /\ ask'[k].told = ask[k].told /\ ask'[k].consumed = ask[k].consumed
         /\ \A b \in Agent : turn'[b] = IF b = ask[k].of /\ turn[b] = "waiting" THEN "none"
                                                                               ELSE turn[b]
<1>1. ask[k] \in AskRow /\ ask[k].state = "PENDING" /\ ask[k].of \in Agent
  BY OwnRows DEF Answer, CancelAsk, Answerable
<1>2. \A q \in Ask : q # k => ask'[q] = ask[q]
  BY DEF Answer, CancelAsk, TypeOK
<1>3. \A b \in Agent :
        turn'[b] = IF b = ask[k].of /\ turn[b] = "waiting" THEN "none" ELSE turn[b]
  BY <1>1 DEF Answer, CancelAsk, ReleaseWaitingRun, TypeOK
<1>4. CASE Answer(k)
  <2>1. ask'[k] = [ask[k] EXCEPT !.state = "APPROVED", !.when = "during"]
    BY <1>4 DEF Answer, TypeOK
  <2> QED BY <1>1, <1>2, <1>3, <1>4, <2>1, AskColumns
<1>5. CASE ~Answer(k)
  <2>1. ask'[k] = [ask[k] EXCEPT !.state = "CANCELLED", !.when = "during"]
    BY <1>5 DEF CancelAsk, TypeOK
  <2> QED BY <1>1, <1>2, <1>3, <1>5, <2>1, AskColumns
<1> QED BY <1>4, <1>5

(* The attempts of a letter are counted up to the cap.                     *)
LEMMA AttemptTypes ==
  ASSUME TypeOK
  PROVE  \A m \in Mail : mail[m].attempts \in Nat /\ mail[m].attempts <= MaxAttempts
<1> SUFFICES ASSUME NEW m \in Mail
             PROVE  mail[m].attempts \in Nat /\ mail[m].attempts <= MaxAttempts
  OBVIOUS
<1>1. mail[m] \in MailRow
  BY DEF TypeOK
<1>2. CASE mail[m].state = "unsent"
  <2>1. mail[m].attempts = 0
    BY <1>1, <1>2 DEF MailRow
  <2> QED BY <2>1 DEF MaxAttempts
<1>3. CASE mail[m].state # "unsent"
  <2>1. mail[m].attempts \in 0..MaxAttempts
    BY <1>1, <1>3 DEF MailRow
  <2> QED BY <2>1 DEF MaxAttempts
<1> QED BY <1>2, <1>3


-----------------------------------------------------------------------------
(* Where a run can be while the loop is where it is *)

(* A turn settles only where the loop awaits or reconciles it.             *)
Places ==
  \A a \in Agent : turn[a] = "applying" => \/ pc = "await" /\ a \in watched
                                           \/ pc = "reconcile" /\ a \in todo

(* Every step keeps a settling turn where the loop is: the loop leaves      *)
(* await and reconcile only when nothing it holds is left.                  *)
LEMMA PlacesStep ==
  ASSUME TypeOK, Selection, Places, [Next]_vars
  PROVE  Places'
<1>1. UNCHANGED <<turn, watched, pc, todo>> => Places'
  BY DEF Places
<1>2. ASSUME NEW a \in Agent, NEW m \in Mail, NEW b \in Agent, FileSend(a, m, b)
      PROVE  Places'
  BY <1>1, <1>2 DEF FileSend, runVars, supVars
<1>3. ASSUME NEW a \in Agent, NEW k \in Ask, FileAsk(a, k) \/ Promote(a, k)
      PROVE  Places'
  BY <1>1, <1>3 DEF FileAsk, Promote, agentVars, runVars, supVars
<1>4. ASSUME NEW a \in Agent, NEW m \in Mail, HumanMessage(a, m)
      PROVE  Places'
  BY <1>1, <1>4 DEF HumanMessage, runVars, supVars
<1>5. ASSUME NEW a \in Agent, Activate(a) \/ PauseAgent(a) \/ RetireAgent(a) \/
             ComesDue(a)
      PROVE  Places'
  BY <1>1, <1>5 DEF Activate, PauseAgent, RetireAgent, ComesDue, runVars, supVars
<1>6. ASSUME NEW l \in Lane, LaneReopens(l)
      PROVE  Places'
  BY <1>1, <1>6 DEF LaneReopens, agentVars, runVars, supVars
<1>7. CASE Start
  BY <1>7 DEF Start, agentVars, runVars, Unfinished, Places
<1>8. ASSUME NEW a \in Agent, SettleLost(a)
      PROVE  Places'
  <2>1. /\ turn'[a] \in {"none", "waiting"} /\ watched' = watched \ {a}
        /\ \A b \in Agent : b # a => turn'[b] = turn[b]
    BY <1>8, SettledRows DEF SettleLost
  <2> QED BY <1>8, <2>1 DEF SettleLost, Polling, NothingApplying, supVars, Places
<1>9. ASSUME NEW a \in Agent, Adopt(a)
      PROVE  Places'
  BY <1>9 DEF Adopt, NothingApplying, agentVars, runVars, Places
<1>10. CASE ReconcileDone
  BY <1>10 DEF ReconcileDone, agentVars, runVars, Places
<1>11. CASE Select
  BY <1>11 DEF Select, agentVars, runVars, Places
<1>12. ASSUME NEW a \in Agent, Skip(a)
      PROVE  Places'
  BY <1>12 DEF Skip, Considered, agentVars, runVars, Live, Places
<1>13. ASSUME NEW a \in Agent, Precondition(a)
      PROVE  Places'
  BY <1>13 DEF Precondition, Considered, agentVars, runVars, Live, Places
<1>14. CASE BackoffWithoutRun
  BY <1>14 DEF BackoffWithoutRun, runVars, Places
<1>15. CASE OpenRun
  BY <1>15, OpenedRows DEF OpenRun, agentVars, Places
<1>16. CASE BudgetExhausted
  <2>1. Succeed(cur, "NO_WORK", "none") /\ cur \in Agent /\ pc = "reserve"
    BY <1>16 DEF BudgetExhausted, Selection
  <2>2. turn'[cur] = "none" /\ \A b \in Agent : b # cur => turn'[b] = turn[b]
    BY <2>1, SettledRows
  <2> QED BY <2>1, <2>2 DEF Places
<1>17. CASE PauseExhausted
  BY <1>17 DEF PauseExhausted, runVars, Places
<1>18. CASE Dispatch
  BY <1>18, DispatchedRows DEF Dispatch, agentVars, Places
<1>19. CASE LoopEnds
  BY <1>19 DEF LoopEnds, agentVars, runVars, Head, Places
<1>20. CASE TickEnds
  BY <1>20 DEF TickEnds, agentVars, runVars, Unfinished, Places
<1>21. ASSUME NEW a \in Agent, SessionReady(a)
      PROVE  Places'
  BY <1>21, ReadyRows DEF SessionReady, Polling, agentVars, supVars, Places
<1>22. ASSUME NEW a \in Agent, SessionFails(a)
      PROVE  Places'
  <2>1. /\ turn'[a] \in {"none", "waiting"} /\ watched' = watched \ {a}
        /\ \A b \in Agent : b # a => turn'[b] = turn[b]
    BY <1>22, SettledRows DEF SessionFails
  <2> QED BY <1>22, <2>1 DEF SessionFails, Polling, NothingApplying, supVars, Places
<1>23. ASSUME NEW a \in Agent, NEW r \in Result, PaneExits(a, r)
      PROVE  Places'
  BY <1>23 DEF PaneExits, agentVars, supVars, Places, TypeOK
<1>24. ASSUME NEW a \in Agent, PaneDies(a)
      PROVE  Places'
  BY <1>24 DEF PaneDies, agentVars, supVars, Places, TypeOK
<1>25. ASSUME NEW a \in Agent, PollFails(a)
      PROVE  Places'
  <2>1. \A b \in Agent : b # a => turn'[b] = turn[b]
    BY <1>25 DEF PollFails, TypeOK
  <2>2. UNCHANGED <<pc, todo, watched>> /\ pc = "await" /\ a \in watched
    BY <1>25 DEF PollFails, Polling, supVars
  <2> QED BY <2>1, <2>2 DEF Places
<1>26. ASSUME NEW a \in Agent, ReadExit(a)
      PROVE  Places'
  <2>1. \A b \in Agent : b # a => turn'[b] = turn[b]
    BY <1>26 DEF ReadExit, TypeOK
  <2>2. UNCHANGED <<pc, todo, watched>>
    BY <1>26 DEF ReadExit, supVars
  <2>3. (pc = "await" /\ a \in watched) \/ (pc = "reconcile" /\ a \in todo)
    BY <1>26 DEF ReadExit, Polling
  <2> QED BY <2>1, <2>2, <2>3 DEF Places
<1>27. ASSUME NEW a \in Agent, NEW outcome \in Outcome, Settle(a, outcome)
      PROVE  Places'
  <2>1. /\ turn'[a] \in {"none", "waiting"} /\ watched' = watched \ {a}
        /\ \A b \in Agent : b # a => turn'[b] = turn[b]
    BY <1>27, SettledRows DEF Settle
  <2> QED BY <1>27, <2>1 DEF Settle, Polling, NothingApplying, supVars, Places
<1>28. CASE Crash
  BY <1>28 DEF Crash, agentVars, AfterCrash, Places
<1>29. ASSUME NEW k \in Ask, Answer(k)
      PROVE  Places'
  BY <1>29, DecidedRows DEF Answer, supVars, Places
<1>30. ASSUME NEW k \in Ask, CancelAsk(k)
      PROVE  Places'
  BY <1>30, DecidedRows DEF CancelAsk, agentVars, supVars, Places
<1>31. CASE UNCHANGED vars
  BY <1>1, <1>31 DEF vars, agentVars, runVars, supVars
<1> QED BY <1>2, <1>3, <1>4, <1>5, <1>6, <1>7, <1>8, <1>9, <1>10, <1>11, <1>12, <1>13,
           <1>14, <1>15, <1>16, <1>17, <1>18, <1>19, <1>20, <1>21, <1>22, <1>23, <1>24,
           <1>25, <1>26, <1>27, <1>28, <1>29, <1>30, <1>31
        DEF Next, Reconciling, Ticking, Settling, Filing, Pane, Server, Clock

(* A session in the pane is watched, unless the supervisor may die there.  *)
Watching ==
  /\ pc \in {"reserve"} => cur \in watched
  /\ \A a \in Agent : turn[a] = "session" => a \in watched

(* A supervisor that never dies while ensureSession's job is recorded       *)
(* leaves no session that nobody watches; reconcile adopts none.            *)
LEMMA WatchingStep ==
  ASSUME TypeOK, Selection, Watching, "session" \notin Hazards, [Next]_vars
  PROVE  Watching'
<1>1. UNCHANGED <<turn, watched, pc, cur>> => Watching'
  BY DEF Watching
<1>2. ASSUME NEW a \in Agent, Adopt(a) \/ Skip(a) \/ Activate(a) \/ PauseAgent(a) \/
             RetireAgent(a) \/ ComesDue(a)
      PROVE  Watching'
  BY <1>1, <1>2 DEF Adopt, Skip, Activate, PauseAgent, RetireAgent, ComesDue, agentVars,
     runVars, supVars
<1>3. ASSUME NEW a \in Agent, NEW m \in Mail, NEW b \in Agent, FileSend(a, m, b)
      PROVE  Watching'
  BY <1>1, <1>3 DEF FileSend, runVars, supVars
<1>4. ASSUME NEW a \in Agent, NEW k \in Ask, FileAsk(a, k) \/ Promote(a, k)
      PROVE  Watching'
  BY <1>1, <1>4 DEF FileAsk, Promote, agentVars, runVars, supVars
<1>5. ASSUME NEW a \in Agent, NEW m \in Mail, HumanMessage(a, m)
      PROVE  Watching'
  BY <1>1, <1>5 DEF HumanMessage, runVars, supVars
<1>6. ASSUME NEW l \in Lane, LaneReopens(l)
      PROVE  Watching'
  BY <1>1, <1>6 DEF LaneReopens, agentVars, runVars, supVars
<1>7. CASE Start
  BY <1>7 DEF Start, agentVars, runVars, Unfinished, Watching
<1>8. ASSUME NEW a \in Agent, SettleLost(a)
      PROVE  Watching'
  <2>1. /\ turn'[a] \in {"none", "waiting"} /\ watched' = watched \ {a}
        /\ \A b \in Agent : b # a => turn'[b] = turn[b]
    BY <1>8, SettledRows DEF SettleLost
  <2>2. UNCHANGED <<pc, cur>> /\ (pc = "reserve" => cur # a)
    BY <1>8 DEF SettleLost, Polling, supVars, Selection
  <2> QED BY <2>1, <2>2 DEF Watching
<1>9. CASE ReconcileDone
  BY <1>9 DEF ReconcileDone, agentVars, runVars, Watching
<1>10. CASE Select
  BY <1>10 DEF Select, agentVars, runVars, Watching
<1>11. ASSUME NEW a \in Agent, Precondition(a)
      PROVE  Watching'
  BY <1>11 DEF Precondition, Considered, agentVars, runVars, Live, Watching
<1>12. CASE BackoffWithoutRun
  BY <1>12 DEF BackoffWithoutRun, runVars, Watching
<1>13. CASE OpenRun
  BY <1>13, OpenedRows DEF OpenRun, agentVars, Watching
<1>14. CASE BudgetExhausted
  <2>1. Succeed(cur, "NO_WORK", "none") /\ cur \in Agent /\ pc' = "pause"
    BY <1>14 DEF BudgetExhausted, Selection
  <2>2. /\ turn'[cur] = "none" /\ watched' = watched \ {cur}
        /\ \A b \in Agent : b # cur => turn'[b] = turn[b]
    BY <2>1, SettledRows
  <2> QED BY <2>1, <2>2 DEF Watching
<1>15. CASE PauseExhausted
  BY <1>15 DEF PauseExhausted, runVars, Watching
<1>16. CASE Dispatch
  BY <1>16, DispatchedRows DEF Dispatch, agentVars, Watching
<1>17. CASE LoopEnds
  BY <1>17 DEF LoopEnds, agentVars, runVars, Head, Watching
<1>18. CASE TickEnds
  BY <1>18 DEF TickEnds, agentVars, runVars, Unfinished, Watching
<1>19. ASSUME NEW a \in Agent, SessionReady(a)
      PROVE  Watching'
  BY <1>19, ReadyRows DEF SessionReady, Polling, agentVars, supVars, Watching
<1>20. ASSUME NEW a \in Agent, SessionFails(a)
      PROVE  Watching'
  <2>1. /\ turn'[a] \in {"none", "waiting"} /\ watched' = watched \ {a}
        /\ \A b \in Agent : b # a => turn'[b] = turn[b]
    BY <1>20, SettledRows DEF SessionFails
  <2>2. UNCHANGED <<pc, cur>> /\ (pc = "reserve" => cur # a)
    BY <1>20 DEF SessionFails, Polling, supVars, Selection
  <2> QED BY <2>1, <2>2 DEF Watching
<1>21. ASSUME NEW a \in Agent, NEW r \in Result, PaneExits(a, r)
      PROVE  Watching'
  BY <1>21 DEF PaneExits, agentVars, supVars, Watching, TypeOK
<1>22. ASSUME NEW a \in Agent, PaneDies(a)
      PROVE  Watching'
  BY <1>22 DEF PaneDies, agentVars, supVars, Watching, TypeOK
<1>23. ASSUME NEW a \in Agent, PollFails(a)
      PROVE  Watching'
  BY <1>23 DEF PollFails, Polling, agentVars, supVars, Watching, TypeOK
<1>24. ASSUME NEW a \in Agent, ReadExit(a)
      PROVE  Watching'
  BY <1>24 DEF ReadExit, Polling, NothingApplying, agentVars, supVars, Watching, TypeOK
<1>25. ASSUME NEW a \in Agent, NEW outcome \in Outcome, Settle(a, outcome)
      PROVE  Watching'
  <2>1. /\ turn'[a] \in {"none", "waiting"} /\ watched' = watched \ {a}
        /\ \A b \in Agent : b # a => turn'[b] = turn[b]
    BY <1>25, SettledRows DEF Settle
  <2>2. UNCHANGED <<pc, cur>> /\ (pc = "reserve" => cur # a)
    BY <1>25 DEF Settle, Polling, supVars, Selection
  <2> QED BY <2>1, <2>2 DEF Watching
<1>26. CASE Crash
  <2>1. \A a \in Agent : turn'[a] \in AfterCrash(a)
    BY <1>26 DEF Crash
  <2>2. ASSUME NEW a \in Agent PROVE turn'[a] # "session"
    <3>1. CASE turn[a] = "session"
      BY <2>1, <3>1 DEF Watching, AfterCrash
    <3>2. CASE turn[a] # "session"
      BY <2>1, <3>2 DEF AfterCrash
    <3> QED BY <3>1, <3>2
  <2> QED BY <1>26, <2>2 DEF Crash, Watching
<1>27. ASSUME NEW k \in Ask, Answer(k)
      PROVE  Watching'
  BY <1>27, DecidedRows DEF Answer, supVars, Watching
<1>28. ASSUME NEW k \in Ask, CancelAsk(k)
      PROVE  Watching'
  BY <1>28, DecidedRows DEF CancelAsk, agentVars, supVars, Watching
<1>29. CASE UNCHANGED vars
  BY <1>1, <1>29 DEF vars, agentVars, runVars, supVars
<1> QED BY <1>2, <1>3, <1>4, <1>5, <1>6, <1>7, <1>8, <1>9, <1>10, <1>11, <1>12, <1>13,
           <1>14, <1>15, <1>16, <1>17, <1>18, <1>19, <1>20, <1>21, <1>22, <1>23, <1>24,
           <1>25, <1>26, <1>27, <1>28, <1>29
        DEF Next, Reconciling, Ticking, Settling, Filing, Pane, Server, Clock

-----------------------------------------------------------------------------
(* Nothing is retired that was not read *)

(* Leased mail was attempted.                                              *)
Tried == \A m \in Mail : mail[m].state = "LEASED" => mail[m].attempts > 0

(* leaseFor counts an attempt whenever it leases, and nothing else leases.  *)
LEMMA TriedStep ==
  ASSUME TypeOK, Selection, Tried, [Next]_vars
  PROVE  Tried'
<1>1. UNCHANGED <<mail>> => Tried'
  BY DEF Tried
<1>2. CASE Start \/ ReconcileDone \/ Select \/ BackoffWithoutRun \/ OpenRun \/
           PauseExhausted \/ LoopEnds \/ TickEnds \/ Crash
  BY <1>1, <1>2 DEF Start, ReconcileDone, Select, BackoffWithoutRun, OpenRun,
     PauseExhausted, LoopEnds, TickEnds, Crash, agentVars, runVars
<1>3. ASSUME NEW a \in Agent, Adopt(a) \/ Skip(a) \/ Precondition(a) \/ PaneDies(a) \/
             PollFails(a) \/ ReadExit(a) \/ Activate(a) \/ PauseAgent(a) \/
             RetireAgent(a) \/ ComesDue(a)
      PROVE  Tried'
  BY <1>1, <1>3 DEF Adopt, Skip, Precondition, PaneDies, PollFails, ReadExit, Activate,
     PauseAgent, RetireAgent, ComesDue, agentVars, runVars, supVars
<1>4. ASSUME NEW a \in Agent, NEW r \in Result, PaneExits(a, r)
      PROVE  Tried'
  BY <1>1, <1>4 DEF PaneExits, agentVars, supVars
<1>5. ASSUME NEW a \in Agent, NEW k \in Ask, FileAsk(a, k) \/ Promote(a, k)
      PROVE  Tried'
  BY <1>1, <1>5 DEF FileAsk, Promote, agentVars, runVars, supVars
<1>6. ASSUME NEW k \in Ask, Answer(k) \/ CancelAsk(k)
      PROVE  Tried'
  BY <1>1, <1>6 DEF Answer, CancelAsk, supVars
<1>7. ASSUME NEW l \in Lane, LaneReopens(l)
      PROVE  Tried'
  BY <1>1, <1>7 DEF LaneReopens, agentVars, runVars, supVars
<1>8. ASSUME NEW a \in Agent, SettleLost(a)
      PROVE  Tried'
  <2>1. Succeed(a, "RETRYABLE_ERROR", "none")
    BY <1>8 DEF SettleLost, Selection, supVars
  <2>2. \A m \in Mail : mail'[m].state = "LEASED" => mail'[m] = mail[m]
    BY <2>1, SettledRows
  <2> QED BY <2>2 DEF Tried
<1>9. CASE BudgetExhausted
  <2>1. cur \in Agent /\ Succeed(cur, "NO_WORK", "none")
    BY <1>9 DEF BudgetExhausted, Selection, supVars
  <2>2. \A m \in Mail : mail'[m].state = "LEASED" => mail'[m] = mail[m]
    BY <2>1, SettledRows
  <2> QED BY <2>2 DEF Tried
<1>10. CASE Dispatch
  <2>1. ASSUME NEW m \in Mail, mail'[m].state = "LEASED" PROVE mail'[m].attempts > 0
    <3>1. CASE m \in Pending(cur)
      <4>1. mail[m].attempts \in Nat
        BY AttemptTypes
      <4> QED BY <1>10, <3>1, <4>1, DispatchedRows DEF MaxAttempts
    <3>2. CASE m \notin Pending(cur)
      BY <1>10, <2>1, <3>2, DispatchedRows DEF Tried
    <3> QED BY <3>1, <3>2
  <2> QED BY <2>1 DEF Tried
<1>11. ASSUME NEW a \in Agent, SessionReady(a)
      PROVE  Tried'
  BY <1>11, ReadyRows DEF Tried
<1>12. ASSUME NEW a \in Agent, SessionFails(a)
      PROVE  Tried'
  <2>1. Succeed(a, "RETRYABLE_ERROR", "none")
    BY <1>12 DEF SessionFails, Selection, supVars
  <2>2. \A m \in Mail : mail'[m].state = "LEASED" => mail'[m] = mail[m]
    BY <2>1, SettledRows
  <2> QED BY <2>2 DEF Tried
<1>13. ASSUME NEW a \in Agent, NEW m \in Mail, NEW b \in Agent, FileSend(a, m, b)
      PROVE  Tried'
  <2>1. DeliverAndWake(m, b, "agent_to_agent", "event")
    BY <1>13 DEF FileSend
  <2>2. \A n \in Mail : mail'[n].state = "LEASED" => mail'[n] = mail[n]
    BY <2>1, DeliveredRows
  <2> QED BY <2>2 DEF Tried
<1>14. ASSUME NEW a \in Agent, NEW outcome \in Outcome, Settle(a, outcome)
      PROVE  Tried'
  <2>1. Succeed(a, outcome, IF outcome = "BLOCKED" THEN "waiting" ELSE "none")
    BY <1>14 DEF Settle, Selection, supVars
  <2>2. \A m \in Mail : mail'[m].state = "LEASED" => mail'[m] = mail[m]
    BY <2>1, SettledRows
  <2> QED BY <2>2 DEF Tried
<1>15. ASSUME NEW a \in Agent, NEW m \in Mail, HumanMessage(a, m)
      PROVE  Tried'
  <2>1. DeliverAndWake(m, a, "human", "human")
    BY <1>15 DEF HumanMessage
  <2>2. \A n \in Mail : mail'[n].state = "LEASED" => mail'[n] = mail[n]
    BY <2>1, DeliveredRows
  <2> QED BY <2>2 DEF Tried
<1>16. CASE UNCHANGED vars
  BY <1>1, <1>16 DEF vars, agentVars, runVars, supVars
<1> QED BY <1>2, <1>3, <1>4, <1>5, <1>6, <1>7, <1>8, <1>9, <1>10, <1>11, <1>12, <1>13,
           <1>14, <1>15, <1>16
        DEF Next, Reconciling, Ticking, Settling, Filing, Pane, Server, Clock

(* The prompt of a turn that ran had all the mail of its lease in its       *)
(* capsule.                                                                *)
MailRead ==
  /\ \A a \in Agent : turn[a] \in {"running", "exited", "applying"} =>
       \A m \in Mine(a) : mail[m].read
  /\ AckedWasRead

(* Mail leased at dispatch is in the capsule of the prompt (ready), the     *)
(* exit of a prompt follows its start, and only a turn that had one         *)
(* settles with an outcome that acknowledges (succeed).                     *)
LEMMA MailReadStep ==
  ASSUME TypeOK, Selection, LeasedHasLiveRun, Watching, MailRead,
         "session" \notin Hazards, [Next]_vars
  PROVE  MailRead'
<1>1. UNCHANGED <<turn, mail>> => MailRead'
  BY DEF MailRead, AckedWasRead, Mine, Inbox
<1>2. CASE Start \/ ReconcileDone \/ Select \/ BackoffWithoutRun \/ PauseExhausted \/
           LoopEnds \/ TickEnds
  BY <1>1, <1>2 DEF Start, ReconcileDone, Select, BackoffWithoutRun, PauseExhausted,
     LoopEnds, TickEnds, agentVars, runVars
<1>3. ASSUME NEW a \in Agent, Adopt(a) \/ Skip(a) \/ Precondition(a) \/ Activate(a) \/
             PauseAgent(a) \/ RetireAgent(a) \/ ComesDue(a)
      PROVE  MailRead'
  BY <1>1, <1>3 DEF Adopt, Skip, Precondition, Activate, PauseAgent, RetireAgent,
     ComesDue, agentVars, runVars, supVars
<1>4. ASSUME NEW a \in Agent, NEW k \in Ask, FileAsk(a, k) \/ Promote(a, k)
      PROVE  MailRead'
  BY <1>1, <1>4 DEF FileAsk, Promote, agentVars, runVars, supVars
<1>5. ASSUME NEW l \in Lane, LaneReopens(l)
      PROVE  MailRead'
  BY <1>1, <1>5 DEF LaneReopens, agentVars, runVars, supVars
<1>6. ASSUME NEW a \in Agent, SettleLost(a)
      PROVE  MailRead'
  <2>1. Succeed(a, "RETRYABLE_ERROR", "none")
    BY <1>6 DEF SettleLost, Selection, supVars
  <2>2. /\ turn'[a] \in {"none", "waiting"} /\ \A b \in Agent : b # a => turn'[b] = turn[b]
        /\ \A m \in Mail :
             /\ mail'[m].to = mail[m].to /\ mail'[m].read = mail[m].read
             /\ mail'[m].state = "LEASED" => mail[m].state = "LEASED"
             /\ mail'[m].state = "ACKED" => mail[m].state = "ACKED" 
    BY <2>1, SettledRows DEF Consumes
  <2> QED BY <2>2 DEF MailRead, AckedWasRead, Mine, Inbox
<1>7. CASE OpenRun
  <2>1. UNCHANGED mail
    BY <1>7 DEF OpenRun
  <2> QED BY <1>7, <2>1, OpenedRows DEF MailRead, AckedWasRead, Mine, Inbox
<1>8. CASE BudgetExhausted
  <2>1. cur \in Agent /\ Succeed(cur, "NO_WORK", "none")
    BY <1>8 DEF BudgetExhausted, Selection, supVars
  <2>2. /\ turn'[cur] \in {"none", "waiting"}
        /\ \A b \in Agent : b # cur => turn'[b] = turn[b]
        /\ \A m \in Mail :
             /\ mail'[m].to = mail[m].to /\ mail'[m].read = mail[m].read
             /\ mail'[m].state = "LEASED" => mail[m].state = "LEASED"
             /\ mail'[m].state = "ACKED" => mail[m].state = "ACKED" \/ m \in Mine(cur)
    BY <2>1, SettledRows DEF Consumes
  <2>3. Mine(cur) = {}
    BY <1>8 DEF BudgetExhausted, Selection, LeasedHasLiveRun, Mine, Inbox
  <2> QED BY <2>2, <2>3 DEF MailRead, AckedWasRead, Mine, Inbox
<1>9. CASE Dispatch
  <2>1. \A m \in Mail : /\ mail'[m].to = mail[m].to /\ mail'[m].read = mail[m].read
                        /\ mail'[m].to # cur => mail'[m] = mail[m]
                        /\ mail'[m].state = "ACKED" => mail[m].state = "ACKED"
    BY <1>9, DispatchedRows DEF Pending, Inbox
  <2> QED BY <1>9, <2>1, DispatchedRows DEF MailRead, AckedWasRead, Mine, Inbox
<1>10. ASSUME NEW a \in Agent, SessionReady(a)
      PROVE  MailRead'
  <2>1. \A m \in Mail : /\ mail'[m].to = mail[m].to /\ mail'[m].state = mail[m].state
                        /\ mail[m].read => mail'[m].read
                        /\ m \in Mine(a) => mail'[m].read
    BY <1>10, ReadyRows DEF TypeOK, MailRow
  <2> QED BY <1>10, <2>1, ReadyRows DEF MailRead, AckedWasRead, Mine, Inbox
<1>11. ASSUME NEW a \in Agent, SessionFails(a)
      PROVE  MailRead'
  <2>1. Succeed(a, "RETRYABLE_ERROR", "none")
    BY <1>11 DEF SessionFails, Selection, supVars
  <2>2. /\ turn'[a] \in {"none", "waiting"} /\ \A b \in Agent : b # a => turn'[b] = turn[b]
        /\ \A m \in Mail :
             /\ mail'[m].to = mail[m].to /\ mail'[m].read = mail[m].read
             /\ mail'[m].state = "LEASED" => mail[m].state = "LEASED"
             /\ mail'[m].state = "ACKED" => mail[m].state = "ACKED" 
    BY <2>1, SettledRows DEF Consumes
  <2> QED BY <2>2 DEF MailRead, AckedWasRead, Mine, Inbox
<1>12. ASSUME NEW a \in Agent, NEW r \in Result, PaneExits(a, r)
      PROVE  MailRead'
  <2>1. \A b \in Agent : turn'[b] = IF b = a THEN "exited" ELSE turn[b]
    BY <1>12 DEF PaneExits, TypeOK
  <2>2. UNCHANGED mail /\ turn[a] = "running"
    BY <1>12 DEF PaneExits, Polling, Watching
  <2> QED BY <2>1, <2>2 DEF MailRead, AckedWasRead, Mine, Inbox
<1>13. ASSUME NEW a \in Agent, PaneDies(a)
      PROVE  MailRead'
  <2>1. \A b \in Agent : turn'[b] = IF b = a THEN "dead" ELSE turn[b]
    BY <1>13 DEF PaneDies, TypeOK
  <2>2. UNCHANGED mail /\ TRUE
    BY <1>13 DEF PaneDies, Polling
  <2> QED BY <2>1, <2>2 DEF MailRead, AckedWasRead, Mine, Inbox
<1>14. ASSUME NEW a \in Agent, PollFails(a)
      PROVE  MailRead'
  <2>1. \A b \in Agent : turn'[b] = IF b = a THEN "applying" ELSE turn[b]
    BY <1>14 DEF PollFails, TypeOK
  <2>2. UNCHANGED mail /\ turn[a] = "running"
    BY <1>14 DEF PollFails, Polling
  <2> QED BY <2>1, <2>2 DEF MailRead, AckedWasRead, Mine, Inbox
<1>15. ASSUME NEW a \in Agent, ReadExit(a)
      PROVE  MailRead'
  <2>1. \A b \in Agent : turn'[b] = IF b = a THEN "applying" ELSE turn[b]
    BY <1>15 DEF ReadExit, TypeOK
  <2>2. UNCHANGED mail /\ turn[a] = "exited"
    BY <1>15 DEF ReadExit, Polling
  <2> QED BY <2>1, <2>2 DEF MailRead, AckedWasRead, Mine, Inbox
<1>16. ASSUME NEW a \in Agent, NEW m \in Mail, NEW b \in Agent, FileSend(a, m, b)
      PROVE  MailRead'
  <2>1. DeliverAndWake(m, b, "agent_to_agent", "event") /\ UNCHANGED turn
    BY <1>16 DEF FileSend, runVars
  <2>2. \A n \in Mail : mail'[n].state \in {"LEASED", "ACKED"} => mail'[n] = mail[n]
    BY <2>1, DeliveredRows
  <2> QED BY <2>1, <2>2 DEF MailRead, AckedWasRead, Mine, Inbox
<1>17. ASSUME NEW a \in Agent, NEW outcome \in Outcome, Settle(a, outcome)
      PROVE  MailRead'
  <2>1. Succeed(a, outcome, IF outcome = "BLOCKED" THEN "waiting" ELSE "none")
    BY <1>17 DEF Settle, Selection, supVars
  <2>2. /\ turn'[a] \in {"none", "waiting"} /\ \A b \in Agent : b # a => turn'[b] = turn[b]
        /\ \A m \in Mail :
             /\ mail'[m].to = mail[m].to /\ mail'[m].read = mail[m].read
             /\ mail'[m].state = "LEASED" => mail[m].state = "LEASED"
             /\ mail'[m].state = "ACKED" => mail[m].state = "ACKED" \/ m \in Mine(a)
    BY <2>1, SettledRows DEF Consumes
  <2>3. \A m \in Mine(a) : mail[m].read
    BY <1>17 DEF Settle, MailRead
  <2> QED BY <2>2, <2>3 DEF MailRead, AckedWasRead, Mine, Inbox
<1>18. CASE Crash
  <2>1. \A a \in Agent : turn'[a] \in {"running", "exited", "applying"} =>
                           turn[a] \in {"running", "exited", "applying"}
    BY <1>18 DEF Crash, AfterCrash
  <2>2. UNCHANGED mail
    BY <1>18 DEF Crash
  <2> QED BY <2>1, <2>2 DEF MailRead, AckedWasRead, Mine, Inbox
<1>19. ASSUME NEW a \in Agent, NEW m \in Mail, HumanMessage(a, m)
      PROVE  MailRead'
  <2>1. DeliverAndWake(m, a, "human", "human") /\ UNCHANGED turn
    BY <1>19 DEF HumanMessage, runVars
  <2>2. \A n \in Mail : mail'[n].state \in {"LEASED", "ACKED"} => mail'[n] = mail[n]
    BY <2>1, DeliveredRows
  <2> QED BY <2>1, <2>2 DEF MailRead, AckedWasRead, Mine, Inbox
<1>20. ASSUME NEW k \in Ask, Answer(k)
      PROVE  MailRead'
  <2>1. UNCHANGED mail
    BY <1>20 DEF Answer
  <2> QED BY <1>20, <2>1, DecidedRows DEF MailRead, AckedWasRead, Mine, Inbox
<1>21. ASSUME NEW k \in Ask, CancelAsk(k)
      PROVE  MailRead'
  <2>1. UNCHANGED mail
    BY <1>21 DEF CancelAsk
  <2> QED BY <1>21, <2>1, DecidedRows DEF MailRead, AckedWasRead, Mine, Inbox
<1>22. CASE UNCHANGED vars
  BY <1>1, <1>22 DEF vars, agentVars, runVars, supVars
<1> QED BY <1>2, <1>3, <1>4, <1>5, <1>6, <1>7, <1>8, <1>9, <1>10, <1>11, <1>12, <1>13,
           <1>14, <1>15, <1>16, <1>17, <1>18, <1>19, <1>20, <1>21, <1>22
        DEF Next, Reconciling, Ticking, Settling, Filing, Pane, Server, Clock

-----------------------------------------------------------------------------
(* No verdict is consumed that was not read *)

(* What a turn will be taken to have acted on is put in its capsule when    *)
(* it is dispatched, and was read once its prompt has started.              *)
VerdictRead ==
  /\ \A a \in Agent : turn[a] = "session" => \A k \in Carried(a) : ask[k].told # "no"
  /\ \A a \in Agent : turn[a] \in {"running", "exited", "applying"} =>
       \A k \in Carried(a) : ask[k].told = "yes"
  /\ ConsumedWasRead

(* A verdict that comes after the run began is not among those it consumes  *)
(* (succeed compares answered_at with started_at), so what is consumed was  *)
(* owed when the capsule was made.                                          *)
LEMMA VerdictReadStep ==
  ASSUME TypeOK, Selection, Watching, VerdictRead,
         "session" \notin Hazards, "budget" \notin Hazards, [Next]_vars
  PROVE  VerdictRead'
<1>1. UNCHANGED <<turn, ask>> => VerdictRead'
  BY DEF VerdictRead, ConsumedWasRead, Carried, Owed
<1>2. CASE Start \/ ReconcileDone \/ Select \/ BackoffWithoutRun \/ PauseExhausted \/
           LoopEnds \/ TickEnds
  BY <1>1, <1>2 DEF Start, ReconcileDone, Select, BackoffWithoutRun, PauseExhausted,
     LoopEnds, TickEnds, agentVars, runVars
<1>3. ASSUME NEW a \in Agent, Adopt(a) \/ Skip(a) \/ Precondition(a) \/ Activate(a) \/
             PauseAgent(a) \/ RetireAgent(a) \/ ComesDue(a)
      PROVE  VerdictRead'
  BY <1>1, <1>3 DEF Adopt, Skip, Precondition, Activate, PauseAgent, RetireAgent,
     ComesDue, agentVars, runVars, supVars
<1>4. ASSUME NEW a \in Agent, NEW m \in Mail, NEW b \in Agent, FileSend(a, m, b)
      PROVE  VerdictRead'
  BY <1>1, <1>4 DEF FileSend, runVars, supVars
<1>5. ASSUME NEW a \in Agent, NEW m \in Mail, HumanMessage(a, m)
      PROVE  VerdictRead'
  BY <1>1, <1>5 DEF HumanMessage, runVars, supVars
<1>6. ASSUME NEW l \in Lane, LaneReopens(l)
      PROVE  VerdictRead'
  BY <1>1, <1>6 DEF LaneReopens, agentVars, runVars, supVars
<1>7. ASSUME NEW a \in Agent, SettleLost(a)
      PROVE  VerdictRead'
  <2>1. Succeed(a, "RETRYABLE_ERROR", "none")
    BY <1>7 DEF SettleLost
  <2>2. /\ turn'[a] = "none" /\ \A b \in Agent : b # a => turn'[b] = turn[b]
        /\ \A k \in Ask : ask'[k] = ask[k]
    BY <2>1, SettledRows DEF Consumes
  <2> QED BY <2>1, <2>2 DEF VerdictRead, ConsumedWasRead, Carried, Owed
<1>8. CASE OpenRun
  BY <1>8, OpenedRows DEF VerdictRead, ConsumedWasRead, Carried, Owed
<1>9. CASE BudgetExhausted
  BY <1>9 DEF BudgetExhausted
<1>10. CASE Dispatch
  <2>1. \A k \in Ask : /\ ask'[k].of = ask[k].of /\ ask'[k].state = ask[k].state
                       /\ ask'[k].when = ask[k].when /\ ask'[k].consumed = ask[k].consumed
                       /\ k \in Owed(cur) => ask'[k].told # "no"
                       /\ ask[k].told # "no" => ask'[k].told = ask[k].told
    BY <1>10, DispatchedRows
  <2> QED BY <1>10, <2>1, DispatchedRows DEF VerdictRead, ConsumedWasRead, Carried, Owed
<1>11. ASSUME NEW a \in Agent, SessionReady(a)
      PROVE  VerdictRead'
  <2>1. \A k \in Ask : /\ ask'[k].of = ask[k].of /\ ask'[k].state = ask[k].state
                       /\ ask'[k].when = ask[k].when /\ ask'[k].consumed = ask[k].consumed
                       /\ ask[k].of = a /\ ask[k].told # "no" => ask'[k].told = "yes"
                       /\ ask[k].told = "yes" => ask'[k].told = "yes"
                       /\ ask[k].told = "packed" => ask'[k].told # "no"
                       /\ ask[k].of # a => ask'[k].told = ask[k].told
    <3>1. \A k \in Ask : ask[k].told \in {"no", "packed", "yes"}
      BY DEF TypeOK, AskRow
    <3> QED BY <1>11, <3>1, ReadyRows
  <2> QED BY <1>11, <2>1, ReadyRows DEF VerdictRead, ConsumedWasRead, Carried, Owed
<1>12. ASSUME NEW a \in Agent, SessionFails(a)
      PROVE  VerdictRead'
  <2>1. Succeed(a, "RETRYABLE_ERROR", "none")
    BY <1>12 DEF SessionFails
  <2>2. /\ turn'[a] = "none" /\ \A b \in Agent : b # a => turn'[b] = turn[b]
        /\ \A k \in Ask : ask'[k] = ask[k]
    BY <2>1, SettledRows DEF Consumes
  <2> QED BY <2>1, <2>2 DEF VerdictRead, ConsumedWasRead, Carried, Owed
<1>13. ASSUME NEW a \in Agent, NEW r \in Result, PaneExits(a, r)
      PROVE  VerdictRead'
  <2>1. \A b \in Agent : turn'[b] = IF b = a THEN "exited" ELSE turn[b]
    BY <1>13 DEF PaneExits, TypeOK
  <2>2. UNCHANGED ask /\ turn[a] = "running"
    BY <1>13 DEF PaneExits, Polling, Watching
  <2> QED BY <2>1, <2>2 DEF VerdictRead, ConsumedWasRead, Carried, Owed
<1>14. ASSUME NEW a \in Agent, PaneDies(a)
      PROVE  VerdictRead'
  <2>1. \A b \in Agent : turn'[b] = IF b = a THEN "dead" ELSE turn[b]
    BY <1>14 DEF PaneDies, TypeOK
  <2>2. UNCHANGED ask /\ TRUE
    BY <1>14 DEF PaneDies, Polling
  <2> QED BY <2>1, <2>2 DEF VerdictRead, ConsumedWasRead, Carried, Owed
<1>15. ASSUME NEW a \in Agent, PollFails(a)
      PROVE  VerdictRead'
  <2>1. \A b \in Agent : turn'[b] = IF b = a THEN "applying" ELSE turn[b]
    BY <1>15 DEF PollFails, TypeOK
  <2>2. UNCHANGED ask /\ turn[a] = "running"
    BY <1>15 DEF PollFails, Polling
  <2> QED BY <2>1, <2>2 DEF VerdictRead, ConsumedWasRead, Carried, Owed
<1>16. ASSUME NEW a \in Agent, ReadExit(a)
      PROVE  VerdictRead'
  <2>1. \A b \in Agent : turn'[b] = IF b = a THEN "applying" ELSE turn[b]
    BY <1>16 DEF ReadExit, TypeOK
  <2>2. UNCHANGED ask /\ turn[a] = "exited"
    BY <1>16 DEF ReadExit, Polling
  <2> QED BY <2>1, <2>2 DEF VerdictRead, ConsumedWasRead, Carried, Owed
<1>17. ASSUME NEW a \in Agent, NEW k \in Ask, FileAsk(a, k)
      PROVE  VerdictRead'
  <2>1. FileQuestion(k, a) /\ UNCHANGED turn
    BY <1>17 DEF FileAsk, runVars
  <2>2. /\ \A q \in Ask : q # k => ask'[q] = ask[q]
        /\ ask'[k].state = "PENDING" /\ ask'[k].told = ask[k].told
        /\ ask'[k].consumed = ask[k].consumed
    BY <2>1, FiledQuestion
  <2> QED BY <2>1, <2>2 DEF VerdictRead, ConsumedWasRead, Carried, Owed
<1>18. ASSUME NEW a \in Agent, NEW outcome \in Outcome, Settle(a, outcome)
      PROVE  VerdictRead'
  <2>1. /\ Succeed(a, outcome, IF outcome = "BLOCKED" THEN "waiting" ELSE "none")
        /\ turn[a] = "applying"
    BY <1>18 DEF Settle
  <2>2. /\ turn'[a] \in {"none", "waiting"} /\ \A b \in Agent : b # a => turn'[b] = turn[b]
        /\ \A k \in Ask :
             /\ ask'[k].of = ask[k].of /\ ask'[k].state = ask[k].state
             /\ ask'[k].when = ask[k].when /\ ask'[k].told = ask[k].told
             /\ ask'[k].consumed => ask[k].consumed \/ k \in Carried(a)
             /\ ask[k].consumed => ask'[k].consumed
    BY <2>1, SettledRows
  <2>3. \A k \in Carried(a) : ask[k].told = "yes"
    BY <2>1 DEF VerdictRead
  <2> QED BY <2>2, <2>3 DEF VerdictRead, ConsumedWasRead, Carried, Owed
<1>19. CASE Crash
  <2>1. \A a \in Agent : turn'[a] \in {"session", "running", "exited", "applying"} =>
                           \/ turn'[a] = turn[a]
                           \/ turn'[a] = "exited" /\ turn[a] = "applying"
    BY <1>19 DEF Crash, AfterCrash
  <2>2. UNCHANGED ask
    BY <1>19 DEF Crash
  <2> QED BY <2>1, <2>2 DEF VerdictRead, ConsumedWasRead, Carried, Owed
<1>20. ASSUME NEW a \in Agent, NEW k \in Ask, Promote(a, k)
      PROVE  VerdictRead'
  <2>1. FileQuestion(k, a) /\ UNCHANGED turn
    BY <1>20 DEF Promote, runVars
  <2>2. /\ \A q \in Ask : q # k => ask'[q] = ask[q]
        /\ ask'[k].state = "PENDING" /\ ask'[k].told = ask[k].told
        /\ ask'[k].consumed = ask[k].consumed
    BY <2>1, FiledQuestion
  <2> QED BY <2>1, <2>2 DEF VerdictRead, ConsumedWasRead, Carried, Owed
<1>21. ASSUME NEW k \in Ask, Answer(k)
      PROVE  VerdictRead'
  <2>1. /\ \A q \in Ask : q # k => ask'[q] = ask[q]
        /\ ask'[k].when = "during" /\ ask'[k].told = ask[k].told
        /\ ask'[k].consumed = ask[k].consumed
    BY <1>21, DecidedRows
  <2>2. \A b \in Agent : turn'[b] # "none" => turn'[b] = turn[b]
    BY <1>21, DecidedRows
  <2> QED BY <2>1, <2>2 DEF VerdictRead, ConsumedWasRead, Carried, Owed
<1>22. ASSUME NEW k \in Ask, CancelAsk(k)
      PROVE  VerdictRead'
  <2>1. /\ \A q \in Ask : q # k => ask'[q] = ask[q]
        /\ ask'[k].when = "during" /\ ask'[k].told = ask[k].told
        /\ ask'[k].consumed = ask[k].consumed
    BY <1>22, DecidedRows
  <2>2. \A b \in Agent : turn'[b] # "none" => turn'[b] = turn[b]
    BY <1>22, DecidedRows
  <2> QED BY <2>1, <2>2 DEF VerdictRead, ConsumedWasRead, Carried, Owed
<1>23. CASE UNCHANGED vars
  BY <1>1, <1>23 DEF vars, agentVars, runVars, supVars
<1> QED BY <1>2, <1>3, <1>4, <1>5, <1>6, <1>7, <1>8, <1>9, <1>10, <1>11, <1>12, <1>13,
           <1>14, <1>15, <1>16, <1>17, <1>18, <1>19, <1>20, <1>21, <1>22, <1>23
        DEF Next, Reconciling, Ticking, Settling, Filing, Pane, Server, Clock

-----------------------------------------------------------------------------
(* Who waits for a human *)

(* A turn that has an exit has a result for the settle to read.             *)
Reported == \A a \in Agent : turn[a] \in {"exited", "applying"} => result[a] \in Result

(* The sentinel and the poll's failures come with a result; a crash takes   *)
(* both or leaves both.                                                     *)
LEMMA ReportedStep ==
  ASSUME TypeOK, Selection, Reported, [Next]_vars
  PROVE  Reported'
<1>1. UNCHANGED <<turn, result>> => Reported'
  BY DEF Reported
<1>2. CASE Start \/ ReconcileDone \/ Select \/ BackoffWithoutRun \/ PauseExhausted \/
           LoopEnds \/ TickEnds
  BY <1>1, <1>2 DEF Start, ReconcileDone, Select, BackoffWithoutRun, PauseExhausted,
     LoopEnds, TickEnds, agentVars, runVars
<1>3. ASSUME NEW a \in Agent, Adopt(a) \/ Skip(a) \/ Precondition(a) \/ Activate(a) \/
             PauseAgent(a) \/ RetireAgent(a) \/ ComesDue(a)
      PROVE  Reported'
  BY <1>1, <1>3 DEF Adopt, Skip, Precondition, Activate, PauseAgent, RetireAgent,
     ComesDue, agentVars, runVars, supVars
<1>4. ASSUME NEW a \in Agent, NEW m \in Mail, NEW b \in Agent, FileSend(a, m, b)
      PROVE  Reported'
  BY <1>1, <1>4 DEF FileSend, runVars, supVars
<1>5. ASSUME NEW a \in Agent, NEW k \in Ask, FileAsk(a, k) \/ Promote(a, k)
      PROVE  Reported'
  BY <1>1, <1>5 DEF FileAsk, Promote, agentVars, runVars, supVars
<1>6. ASSUME NEW a \in Agent, NEW m \in Mail, HumanMessage(a, m)
      PROVE  Reported'
  BY <1>1, <1>6 DEF HumanMessage, runVars, supVars
<1>7. ASSUME NEW l \in Lane, LaneReopens(l)
      PROVE  Reported'
  BY <1>1, <1>7 DEF LaneReopens, agentVars, runVars, supVars
<1>8. ASSUME NEW a \in Agent, SettleLost(a)
      PROVE  Reported'
  <2>1. Succeed(a, "RETRYABLE_ERROR", "none")
    BY <1>8 DEF SettleLost, Selection
  <2>2. /\ turn'[a] \in {"none", "waiting"}
        /\ \A b \in Agent : b # a => turn'[b] = turn[b] /\ result'[b] = result[b]
    BY <2>1, SettledRows DEF Succeed, TypeOK
  <2> QED BY <2>2 DEF Reported
<1>9. CASE OpenRun
  <2>1. UNCHANGED result
    BY <1>9 DEF OpenRun
  <2> QED BY <1>9, <2>1, OpenedRows DEF Reported
<1>10. CASE BudgetExhausted
  <2>1. cur \in Agent /\ Succeed(cur, "NO_WORK", "none")
    BY <1>10 DEF BudgetExhausted, Selection
  <2>2. /\ turn'[cur] \in {"none", "waiting"}
        /\ \A b \in Agent : b # cur => turn'[b] = turn[b] /\ result'[b] = result[b]
    BY <2>1, SettledRows DEF Succeed, TypeOK
  <2> QED BY <2>2 DEF Reported
<1>11. CASE Dispatch
  <2>1. UNCHANGED result
    BY <1>11 DEF Dispatch
  <2> QED BY <1>11, <2>1, DispatchedRows DEF Reported
<1>12. ASSUME NEW a \in Agent, SessionReady(a)
      PROVE  Reported'
  <2>1. \A b \in Agent : b # a => turn'[b] = turn[b] /\ result'[b] = result[b]
    BY <1>12 DEF SessionReady, TypeOK
  <2>2. turn'[a] = "running"
    BY <1>12 DEF SessionReady, TypeOK
  <2> QED BY <2>1, <2>2 DEF Reported
<1>13. ASSUME NEW a \in Agent, SessionFails(a)
      PROVE  Reported'
  <2>1. Succeed(a, "RETRYABLE_ERROR", "none")
    BY <1>13 DEF SessionFails, Selection
  <2>2. /\ turn'[a] \in {"none", "waiting"}
        /\ \A b \in Agent : b # a => turn'[b] = turn[b] /\ result'[b] = result[b]
    BY <2>1, SettledRows DEF Succeed, TypeOK
  <2> QED BY <2>2 DEF Reported
<1>14. ASSUME NEW a \in Agent, NEW r \in Result, PaneExits(a, r)
      PROVE  Reported'
  <2>1. \A b \in Agent : b # a => turn'[b] = turn[b] /\ result'[b] = result[b]
    BY <1>14 DEF PaneExits, TypeOK
  <2>2. result'[a] \in Result
    BY <1>14 DEF PaneExits, TypeOK, Result
  <2> QED BY <2>1, <2>2 DEF Reported
<1>15. ASSUME NEW a \in Agent, PaneDies(a)
      PROVE  Reported'
  <2>1. \A b \in Agent : b # a => turn'[b] = turn[b] /\ result'[b] = result[b]
    BY <1>15 DEF PaneDies, TypeOK
  <2>2. turn'[a] = "dead"
    BY <1>15 DEF PaneDies, TypeOK
  <2> QED BY <2>1, <2>2 DEF Reported
<1>16. ASSUME NEW a \in Agent, PollFails(a)
      PROVE  Reported'
  <2>1. \A b \in Agent : b # a => turn'[b] = turn[b] /\ result'[b] = result[b]
    BY <1>16 DEF PollFails, TypeOK
  <2>2. result'[a] \in Result
    BY <1>16 DEF PollFails, TypeOK, Result
  <2> QED BY <2>1, <2>2 DEF Reported
<1>17. ASSUME NEW a \in Agent, ReadExit(a)
      PROVE  Reported'
  <2>1. \A b \in Agent : b # a => turn'[b] = turn[b] /\ result'[b] = result[b]
    BY <1>17 DEF ReadExit, TypeOK
  <2>2. turn[a] = "exited" /\ result'[a] = result[a]
    BY <1>17 DEF ReadExit, TypeOK
  <2> QED BY <2>1, <2>2 DEF Reported
<1>18. ASSUME NEW a \in Agent, NEW outcome \in Outcome, Settle(a, outcome)
      PROVE  Reported'
  <2>1. Succeed(a, outcome, IF outcome = "BLOCKED" THEN "waiting" ELSE "none")
    BY <1>18 DEF Settle, Selection
  <2>2. /\ turn'[a] \in {"none", "waiting"}
        /\ \A b \in Agent : b # a => turn'[b] = turn[b] /\ result'[b] = result[b]
    BY <2>1, SettledRows DEF Succeed, TypeOK
  <2> QED BY <2>2 DEF Reported
<1>19. CASE Crash
  <2>1. \A a \in Agent : turn'[a] \in {"exited", "applying"} =>
                           turn[a] \in {"exited", "applying"} /\ result'[a] = result[a]
    BY <1>19 DEF Crash, AfterCrash
  <2> QED BY <2>1 DEF Reported
<1>20. ASSUME NEW k \in Ask, Answer(k)
      PROVE  Reported'
  <2>1. UNCHANGED result
    BY <1>20 DEF Answer
  <2>2. \A b \in Agent : turn'[b] # "none" => turn'[b] = turn[b]
    BY <1>20, DecidedRows
  <2> QED BY <2>1, <2>2 DEF Reported
<1>21. ASSUME NEW k \in Ask, CancelAsk(k)
      PROVE  Reported'
  <2>1. UNCHANGED result
    BY <1>21 DEF CancelAsk
  <2>2. \A b \in Agent : turn'[b] # "none" => turn'[b] = turn[b]
    BY <1>21, DecidedRows
  <2> QED BY <2>1, <2>2 DEF Reported
<1>22. CASE UNCHANGED vars
  BY <1>1, <1>22 DEF vars, agentVars, runVars, supVars
<1> QED BY <1>2, <1>3, <1>4, <1>5, <1>6, <1>7, <1>8, <1>9, <1>10, <1>11, <1>12, <1>13,
           <1>14, <1>15, <1>16, <1>17, <1>18, <1>19, <1>20, <1>21, <1>22
        DEF Next, Reconciling, Ticking, Settling, Filing, Pane, Server, Clock

(* A run is parked in waiting_human only with a question open               *)
(* (applyResult), and whoever closes a question sets free the run that      *)
(* waits for it (releaseWaitingRun, in the same transaction).               *)
LEMMA WaitingHasQuestionStep ==
  ASSUME TypeOK, Selection, Reported, WaitingHasQuestion,
         "verdict" \notin Hazards, "unasked" \notin Hazards, [Next]_vars
  PROVE  WaitingHasQuestion'
<1>1. UNCHANGED <<turn, ask>> => WaitingHasQuestion'
  BY DEF WaitingHasQuestion, AskedBy
<1>2. CASE Start \/ ReconcileDone \/ Select \/ BackoffWithoutRun \/ PauseExhausted \/
           LoopEnds \/ TickEnds
  BY <1>1, <1>2 DEF Start, ReconcileDone, Select, BackoffWithoutRun, PauseExhausted,
     LoopEnds, TickEnds, agentVars, runVars
<1>3. ASSUME NEW a \in Agent, Adopt(a) \/ Skip(a) \/ Precondition(a) \/ Activate(a) \/
             PauseAgent(a) \/ RetireAgent(a) \/ ComesDue(a)
      PROVE  WaitingHasQuestion'
  BY <1>1, <1>3 DEF Adopt, Skip, Precondition, Activate, PauseAgent, RetireAgent,
     ComesDue, agentVars, runVars, supVars
<1>4. ASSUME NEW a \in Agent, NEW m \in Mail, NEW b \in Agent, FileSend(a, m, b)
      PROVE  WaitingHasQuestion'
  BY <1>1, <1>4 DEF FileSend, runVars, supVars
<1>5. ASSUME NEW a \in Agent, NEW m \in Mail, HumanMessage(a, m)
      PROVE  WaitingHasQuestion'
  BY <1>1, <1>5 DEF HumanMessage, runVars, supVars
<1>6. ASSUME NEW l \in Lane, LaneReopens(l)
      PROVE  WaitingHasQuestion'
  BY <1>1, <1>6 DEF LaneReopens, agentVars, runVars, supVars
<1>7. ASSUME NEW a \in Agent, SettleLost(a)
      PROVE  WaitingHasQuestion'
  <2>1. Succeed(a, "RETRYABLE_ERROR", "none")
    BY <1>7 DEF SettleLost, Selection
  <2>2. /\ turn'[a] = "none" /\ \A b \in Agent : b # a => turn'[b] = turn[b]
        /\ \A k \in Ask : ask'[k].of = ask[k].of /\ ask'[k].state = ask[k].state
    BY <2>1, SettledRows
  <2> QED BY <2>1, <2>2 DEF WaitingHasQuestion, AskedBy
<1>8. CASE OpenRun
  <2>1. /\ turn'[cur] # "waiting" /\ \A b \in Agent : b # cur => turn'[b] = turn[b]
        /\ \A k \in Ask : ask'[k].of = ask[k].of /\ ask'[k].state = ask[k].state
    BY <1>8, OpenedRows
  <2> QED BY <2>1 DEF WaitingHasQuestion, AskedBy
<1>9. CASE BudgetExhausted
  <2>1. cur \in Agent /\ Succeed(cur, "NO_WORK", "none")
    BY <1>9 DEF BudgetExhausted, Selection
  <2>2. /\ turn'[cur] = "none" /\ \A b \in Agent : b # cur => turn'[b] = turn[b]
        /\ \A k \in Ask : ask'[k].of = ask[k].of /\ ask'[k].state = ask[k].state
    BY <2>1, SettledRows
  <2> QED BY <2>1, <2>2 DEF WaitingHasQuestion, AskedBy
<1>10. CASE Dispatch
  <2>1. /\ turn'[cur] # "waiting" /\ \A b \in Agent : b # cur => turn'[b] = turn[b]
        /\ \A k \in Ask : ask'[k].of = ask[k].of /\ ask'[k].state = ask[k].state
    BY <1>10, DispatchedRows
  <2> QED BY <2>1 DEF WaitingHasQuestion, AskedBy
<1>11. ASSUME NEW a \in Agent, SessionReady(a)
      PROVE  WaitingHasQuestion'
  <2>1. /\ turn'[a] # "waiting" /\ \A b \in Agent : b # a => turn'[b] = turn[b]
        /\ \A k \in Ask : ask'[k].of = ask[k].of /\ ask'[k].state = ask[k].state
    BY <1>11, ReadyRows
  <2> QED BY <2>1 DEF WaitingHasQuestion, AskedBy
<1>12. ASSUME NEW a \in Agent, SessionFails(a)
      PROVE  WaitingHasQuestion'
  <2>1. Succeed(a, "RETRYABLE_ERROR", "none")
    BY <1>12 DEF SessionFails, Selection
  <2>2. /\ turn'[a] = "none" /\ \A b \in Agent : b # a => turn'[b] = turn[b]
        /\ \A k \in Ask : ask'[k].of = ask[k].of /\ ask'[k].state = ask[k].state
    BY <2>1, SettledRows
  <2> QED BY <2>1, <2>2 DEF WaitingHasQuestion, AskedBy
<1>13. ASSUME NEW a \in Agent, NEW r \in Result, PaneExits(a, r)
      PROVE  WaitingHasQuestion'
  <2>1. \A b \in Agent : turn'[b] = "waiting" => turn[b] = "waiting"
    BY <1>13 DEF PaneExits, TypeOK
  <2>2. UNCHANGED ask
    BY <1>13 DEF PaneExits
  <2> QED BY <2>1, <2>2 DEF WaitingHasQuestion, AskedBy
<1>14. ASSUME NEW a \in Agent, PaneDies(a)
      PROVE  WaitingHasQuestion'
  <2>1. \A b \in Agent : turn'[b] = "waiting" => turn[b] = "waiting"
    BY <1>14 DEF PaneDies, TypeOK
  <2>2. UNCHANGED ask
    BY <1>14 DEF PaneDies
  <2> QED BY <2>1, <2>2 DEF WaitingHasQuestion, AskedBy
<1>15. ASSUME NEW a \in Agent, PollFails(a)
      PROVE  WaitingHasQuestion'
  <2>1. \A b \in Agent : turn'[b] = "waiting" => turn[b] = "waiting"
    BY <1>15 DEF PollFails, TypeOK
  <2>2. UNCHANGED ask
    BY <1>15 DEF PollFails
  <2> QED BY <2>1, <2>2 DEF WaitingHasQuestion, AskedBy
<1>16. ASSUME NEW a \in Agent, ReadExit(a)
      PROVE  WaitingHasQuestion'
  <2>1. \A b \in Agent : turn'[b] = "waiting" => turn[b] = "waiting"
    BY <1>16 DEF ReadExit, TypeOK
  <2>2. UNCHANGED ask
    BY <1>16 DEF ReadExit
  <2> QED BY <2>1, <2>2 DEF WaitingHasQuestion, AskedBy
<1>17. ASSUME NEW a \in Agent, NEW k \in Ask, FileAsk(a, k)
      PROVE  WaitingHasQuestion'
  <2>1. FileQuestion(k, a) /\ UNCHANGED turn
    BY <1>17 DEF FileAsk, runVars
  <2>2. ask[k].state # "PENDING" /\ \A q \in Ask : q # k => ask'[q] = ask[q]
    BY <2>1, FiledQuestion
  <2> QED BY <2>1, <2>2 DEF WaitingHasQuestion, AskedBy
<1>18. ASSUME NEW a \in Agent, NEW outcome \in Outcome, Settle(a, outcome)
      PROVE  WaitingHasQuestion'
  <2>1. /\ Succeed(a, outcome, IF outcome = "BLOCKED" THEN "waiting" ELSE "none")
        /\ turn[a] = "applying" /\ result[a] \in Result
    BY <1>18 DEF Settle, Reported
  <2>2. /\ turn'[a] = (IF outcome = "BLOCKED" THEN "waiting" ELSE "none")
        /\ \A b \in Agent : b # a => turn'[b] = turn[b]
        /\ \A k \in Ask : ask'[k].of = ask[k].of /\ ask'[k].state = ask[k].state
    BY <2>1, SettledRows
  <2>3. CASE outcome = "BLOCKED"
    <3>1. MaySayBlocked(a)
      BY <1>18, <2>1, <2>3 DEF Settle, OutcomesOf, Result
    <3>2. \E k \in AskedBy(a) : ask[k].state = "PENDING"
      BY <3>1 DEF MaySayBlocked
    <3> QED BY <2>2, <3>2 DEF WaitingHasQuestion, AskedBy
  <2>4. CASE outcome # "BLOCKED"
    BY <2>2, <2>4 DEF WaitingHasQuestion, AskedBy
  <2> QED BY <2>3, <2>4
<1>19. CASE Crash
  <2>1. \A b \in Agent : turn'[b] = "waiting" => turn[b] = "waiting"
    BY <1>19 DEF Crash, AfterCrash
  <2>2. UNCHANGED ask
    BY <1>19 DEF Crash
  <2> QED BY <2>1, <2>2 DEF WaitingHasQuestion, AskedBy
<1>20. ASSUME NEW a \in Agent, NEW k \in Ask, Promote(a, k)
      PROVE  WaitingHasQuestion'
  <2>1. FileQuestion(k, a) /\ UNCHANGED turn
    BY <1>20 DEF Promote, runVars
  <2>2. ask[k].state # "PENDING" /\ \A q \in Ask : q # k => ask'[q] = ask[q]
    BY <2>1, FiledQuestion
  <2> QED BY <2>1, <2>2 DEF WaitingHasQuestion, AskedBy
<1>21. ASSUME NEW k \in Ask, Answer(k)
      PROVE  WaitingHasQuestion'
  <2>1. \A q \in Ask : q # k => ask'[q] = ask[q]
    BY <1>21, DecidedRows
  <2>2. /\ turn'[ask[k].of] # "waiting"
        /\ \A b \in Agent : b # ask[k].of => turn'[b] = turn[b]
    BY <1>21, DecidedRows
  <2> QED BY <2>1, <2>2 DEF WaitingHasQuestion, AskedBy
<1>22. ASSUME NEW k \in Ask, CancelAsk(k)
      PROVE  WaitingHasQuestion'
  <2>1. \A q \in Ask : q # k => ask'[q] = ask[q]
    BY <1>22, DecidedRows
  <2>2. /\ turn'[ask[k].of] # "waiting"
        /\ \A b \in Agent : b # ask[k].of => turn'[b] = turn[b]
    BY <1>22, DecidedRows
  <2> QED BY <2>1, <2>2 DEF WaitingHasQuestion, AskedBy
<1>23. CASE UNCHANGED vars
  BY <1>1, <1>23 DEF vars, agentVars, runVars, supVars
<1> QED BY <1>2, <1>3, <1>4, <1>5, <1>6, <1>7, <1>8, <1>9, <1>10, <1>11, <1>12, <1>13,
           <1>14, <1>15, <1>16, <1>17, <1>18, <1>19, <1>20, <1>21, <1>22, <1>23
        DEF Next, Reconciling, Ticking, Settling, Filing, Pane, Server, Clock

-----------------------------------------------------------------------------
(* The wakes that the shared writes leave behind *)

(* Writing a wake writes three columns of one row.                          *)
LEMMA SetColumns ==
  ASSUME TypeOK, NEW a \in Agent, NEW s, NEW w, SetAgent(a, s, w)
  PROVE  /\ status'[a] = s /\ due'[a] = w.due /\ reason'[a] = w.reason
         /\ \A b \in Agent : b # a => /\ status'[b] = status[b] /\ due'[b] = due[b]
                                    /\ reason'[b] = reason[b]
BY DEF SetAgent, TypeOK

(* A bump makes its agent due and leaves the status alone.                  *)
LEMMA BumpColumns ==
  ASSUME TypeOK, NEW a \in Agent, NEW why, BumpWake(a, why)
  PROVE  /\ status' = status /\ due'[a] = "now" /\ reason'[a] = why
         /\ \A b \in Agent : b # a => due'[b] = due[b] /\ reason'[b] = reason[b]
<1>1. SetAgent(a, status[a], Wake("now", why))
  BY DEF BumpWake
<1>2. status' = status
  BY <1>1 DEF SetAgent, TypeOK
<1> QED BY <1>1, <1>2, SetColumns DEF Wake

(* No rule of computeNextWake makes a human the reason unless the outcome   *)
(* is BLOCKED (wake.ts).                                                    *)
LEMMA NoWorkWake ==
  ASSUME NEW kind \in Kind
  PROVE  /\ NextWake(kind, "NO_WORK").reason # "human"
         /\ NextWake(kind, "WORK_DONE").reason # "human"
<1>1. CASE kind \in {"manual", "on_message"}
  BY <1>1 DEF NextWake, Wake
<1>2. CASE kind \in {"schedule", "continuous"}
  BY <1>2 DEF NextWake, Wake
<1> QED BY <1>1, <1>2 DEF Kind

(* When a settle leaves an agent without a wake, no human bumped it during  *)
(* the run, no mail came, and the outcome was one that consumes what the    *)
(* run was given (succeed, hasHumanBump, hasQueuedMail).                    *)
LEMMA SettledWake ==
  ASSUME TypeOK, NEW a \in Agent, NEW outcome \in Outcome, NEW to, Succeed(a, outcome, to)
  PROVE  /\ status' = status
         /\ \A b \in Agent : b # a => due'[b] = due[b] /\ reason'[b] = reason[b]
         /\ due'[a] = "never" => /\ Consumes(outcome) /\ ~HumanBumped(a)
                                 /\ Inbox(a, {"QUEUED"}) = {}
                                 /\ outcome # "BLOCKED" => reason'[a] # "human"
<1> DEFINE computed == IF outcome = "RATE_LIMITED" THEN LaneWake(a)
                                                   ELSE NextWake(Policy[a], outcome)
<1>1. SetAgent(a, status[a], SuccessorWake(a, outcome))
  BY DEF Succeed
<1>2. status' = status
  BY <1>1 DEF SetAgent, TypeOK
<1>3. outcome \notin {"WORK_DONE", "NO_WORK", "BLOCKED"} => computed.due # "never"
  <2>1. CASE outcome = "RATE_LIMITED"
    BY <2>1 DEF LaneWake, Wake
  <2>2. CASE outcome = "RETRYABLE_ERROR"
    BY <2>2 DEF NextWake, Wake
  <2> QED BY <2>1, <2>2 DEF Outcome
<1>4. outcome \in {"WORK_DONE", "NO_WORK"} => computed.reason # "human"
  BY NoWorkWake, ConstantsAssumption
<1>5. CASE HumanBumped(a)
  <2>1. SuccessorWake(a, outcome) = Wake(IF due[a] = "never" THEN "now" ELSE due[a], "human")
    BY <1>5 DEF SuccessorWake
  <2>2. SuccessorWake(a, outcome).due # "never"
    BY <2>1 DEF Wake
  <2> QED BY <1>1, <1>2, <2>2, SetColumns
<1>6. CASE ~HumanBumped(a) /\ MailCame(a, outcome) /\ computed.due # "now"
  <2>1. SuccessorWake(a, outcome) = Wake("now", "event")
    BY <1>6 DEF SuccessorWake
  <2> HIDE DEF computed
  <2>2. SuccessorWake(a, outcome).due # "never"
    BY <2>1 DEF Wake
  <2> QED BY <1>1, <1>2, <2>2, SetColumns
<1>7. CASE ~HumanBumped(a) /\ ~(MailCame(a, outcome) /\ computed.due # "now")
  <2>1. SuccessorWake(a, outcome) = computed
    BY <1>7 DEF SuccessorWake
  <2> HIDE DEF computed
  <2>2. due'[a] = computed.due /\ reason'[a] = computed.reason
    BY <1>1, <2>1, SetColumns
  <2>3. ASSUME computed.due = "never"
        PROVE  /\ Consumes(outcome) /\ Inbox(a, {"QUEUED"}) = {}
               /\ outcome # "BLOCKED" => computed.reason # "human"
    <3>1. outcome \in {"WORK_DONE", "NO_WORK", "BLOCKED"}
      BY <1>3, <2>3
    <3>2. Consumes(outcome)
      BY <3>1 DEF Consumes
    <3>3. Inbox(a, {"QUEUED"}) = {}
      BY <1>7, <2>3, <3>2 DEF MailCame
    <3> QED BY <1>4, <3>1, <3>2, <3>3
  <2> QED BY <1>1, <1>2, <1>7, <2>2, <2>3, SetColumns
<1> QED BY <1>5, <1>6, <1>7

-----------------------------------------------------------------------------
(* Whom the badge points at *)

(* An agent without a run and without a wake is not kept asleep by a        *)
(* human.                                                                   *)
Idle ==
  \A a \in Agent : status[a] = "ACTIVE" /\ turn[a] = "none" /\ due[a] = "never"
                     => reason[a] # "human"

(* BLOCKED, the one outcome that withholds the wake because of a human,     *)
(* leaves a run that waits; closing the question that it waits for bumps    *)
(* the agent.                                                               *)
LEMMA IdleStep ==
  ASSUME TypeOK, Selection, Idle, [Next]_vars
  PROVE  Idle'
<1>1. UNCHANGED <<status, due, reason, turn>> => Idle'
  BY DEF Idle
<1>2. CASE Start \/ ReconcileDone \/ Select \/ LoopEnds \/ TickEnds
  BY <1>1, <1>2 DEF Start, ReconcileDone, Select, LoopEnds, TickEnds, agentVars, runVars
<1>3. ASSUME NEW a \in Agent, Adopt(a) \/ Skip(a) \/ Precondition(a)
      PROVE  Idle'
  BY <1>1, <1>3 DEF Adopt, Skip, Precondition, agentVars, runVars
<1>4. ASSUME NEW a \in Agent, NEW k \in Ask, FileAsk(a, k) \/ Promote(a, k)
      PROVE  Idle'
  BY <1>1, <1>4 DEF FileAsk, Promote, agentVars, runVars, supVars
<1>5. ASSUME NEW l \in Lane, LaneReopens(l)
      PROVE  Idle'
  BY <1>1, <1>5 DEF LaneReopens, agentVars, runVars, supVars
<1>6. ASSUME NEW a \in Agent, SettleLost(a)
      PROVE  Idle'
  <2>1. Succeed(a, "RETRYABLE_ERROR", "none") /\ "RETRYABLE_ERROR" \in Outcome
    BY <1>6 DEF SettleLost, Selection, Outcome
  <2>2. turn'[a] = "none" /\ \A b \in Agent : b # a => turn'[b] = turn[b]
    BY <2>1, SettledRows
  <2>3. /\ status' = status
        /\ \A b \in Agent : b # a => due'[b] = due[b] /\ reason'[b] = reason[b]
        /\ due'[a] = "never" /\ "RETRYABLE_ERROR" # "BLOCKED" => reason'[a] # "human"
    BY <2>1, SettledWake
  <2> QED BY <2>2, <2>3 DEF Idle
<1>7. CASE BackoffWithoutRun
  <2>1. /\ SetAgent(cur, status[cur], NextWake(Policy[cur], "NO_WORK")) /\ UNCHANGED turn
        /\ cur \in Agent /\ Policy[cur] \in Kind
    BY <1>7, ConstantsAssumption DEF BackoffWithoutRun, Selection, runVars
  <2>2. reason'[cur] # "human"
    BY <2>1, SetColumns, NoWorkWake
  <2> QED BY <2>1, <2>2, SetColumns DEF Idle
<1>8. CASE OpenRun
  <2>1. turn'[cur] # "none" /\ \A b \in Agent : b # cur => turn'[b] = turn[b]
    BY <1>8, OpenedRows
  <2>2. UNCHANGED agentVars
    BY <1>8 DEF OpenRun
  <2> QED BY <2>1, <2>2 DEF Idle, agentVars
<1>9. CASE BudgetExhausted
  <2>1. cur \in Agent /\ Succeed(cur, "NO_WORK", "none") /\ "NO_WORK" \in Outcome
    BY <1>9 DEF BudgetExhausted, Selection, Outcome
  <2>2. turn'[cur] = "none" /\ \A b \in Agent : b # cur => turn'[b] = turn[b]
    BY <2>1, SettledRows
  <2>3. /\ status' = status
        /\ \A b \in Agent : b # cur => due'[b] = due[b] /\ reason'[b] = reason[b]
        /\ due'[cur] = "never" /\ "NO_WORK" # "BLOCKED" => reason'[cur] # "human"
    BY <2>1, SettledWake
  <2> QED BY <2>2, <2>3 DEF Idle
<1>10. CASE PauseExhausted
  <2>1. /\ SetAgent(cur, "PAUSED", Wake("never", reason[cur])) /\ UNCHANGED turn
        /\ cur \in Agent
    BY <1>10 DEF PauseExhausted, Selection, runVars
  <2> QED BY <2>1, SetColumns DEF Idle
<1>11. CASE Dispatch
  <2>1. turn'[cur] # "none" /\ \A b \in Agent : b # cur => turn'[b] = turn[b]
    BY <1>11, DispatchedRows
  <2>2. UNCHANGED agentVars
    BY <1>11 DEF Dispatch
  <2> QED BY <2>1, <2>2 DEF Idle, agentVars
<1>12. ASSUME NEW a \in Agent, SessionReady(a)
      PROVE  Idle'
  <2>1. turn'[a] # "none" /\ \A b \in Agent : b # a => turn'[b] = turn[b]
    BY <1>12, ReadyRows
  <2>2. UNCHANGED agentVars
    BY <1>12 DEF SessionReady
  <2> QED BY <2>1, <2>2 DEF Idle, agentVars
<1>13. ASSUME NEW a \in Agent, SessionFails(a)
      PROVE  Idle'
  <2>1. Succeed(a, "RETRYABLE_ERROR", "none") /\ "RETRYABLE_ERROR" \in Outcome
    BY <1>13 DEF SessionFails, Selection, Outcome
  <2>2. turn'[a] = "none" /\ \A b \in Agent : b # a => turn'[b] = turn[b]
    BY <2>1, SettledRows
  <2>3. /\ status' = status
        /\ \A b \in Agent : b # a => due'[b] = due[b] /\ reason'[b] = reason[b]
        /\ due'[a] = "never" /\ "RETRYABLE_ERROR" # "BLOCKED" => reason'[a] # "human"
    BY <2>1, SettledWake
  <2> QED BY <2>2, <2>3 DEF Idle
<1>14. ASSUME NEW a \in Agent, NEW r \in Result, PaneExits(a, r)
      PROVE  Idle'
  <2>1. \A b \in Agent : turn'[b] = "none" => turn[b] = "none"
    BY <1>14 DEF PaneExits, TypeOK
  <2>2. UNCHANGED agentVars
    BY <1>14 DEF PaneExits
  <2> QED BY <2>1, <2>2 DEF Idle, agentVars
<1>15. ASSUME NEW a \in Agent, PaneDies(a)
      PROVE  Idle'
  <2>1. \A b \in Agent : turn'[b] = "none" => turn[b] = "none"
    BY <1>15 DEF PaneDies, TypeOK
  <2>2. UNCHANGED agentVars
    BY <1>15 DEF PaneDies
  <2> QED BY <2>1, <2>2 DEF Idle, agentVars
<1>16. ASSUME NEW a \in Agent, PollFails(a)
      PROVE  Idle'
  <2>1. \A b \in Agent : turn'[b] = "none" => turn[b] = "none"
    BY <1>16 DEF PollFails, TypeOK
  <2>2. UNCHANGED agentVars
    BY <1>16 DEF PollFails
  <2> QED BY <2>1, <2>2 DEF Idle, agentVars
<1>17. ASSUME NEW a \in Agent, ReadExit(a)
      PROVE  Idle'
  <2>1. \A b \in Agent : turn'[b] = "none" => turn[b] = "none"
    BY <1>17 DEF ReadExit, TypeOK
  <2>2. UNCHANGED agentVars
    BY <1>17 DEF ReadExit
  <2> QED BY <2>1, <2>2 DEF Idle, agentVars
<1>18. ASSUME NEW a \in Agent, NEW m \in Mail, NEW b \in Agent, FileSend(a, m, b)
      PROVE  Idle'
  <2>1. DeliverAndWake(m, b, "agent_to_agent", "event") /\ UNCHANGED turn
    BY <1>18 DEF FileSend, runVars
  <2>2. CASE status[b] = "ACTIVE"
    <3>1. BumpWake(b, "event")
      BY <2>1, <2>2 DEF DeliverAndWake
    <3> QED BY <2>1, <3>1, BumpColumns DEF Idle
  <2>3. CASE status[b] # "ACTIVE"
    BY <2>1, <2>3 DEF DeliverAndWake, agentVars, Idle
  <2> QED BY <2>2, <2>3
<1>19. ASSUME NEW a \in Agent, NEW outcome \in Outcome, Settle(a, outcome)
      PROVE  Idle'
  <2>1. /\ Succeed(a, outcome, IF outcome = "BLOCKED" THEN "waiting" ELSE "none")
        /\ outcome \in Outcome
    BY <1>19 DEF Settle, Selection, Outcome
  <2>2. /\ turn'[a] = (IF outcome = "BLOCKED" THEN "waiting" ELSE "none")
        /\ \A b \in Agent : b # a => turn'[b] = turn[b]
    BY <2>1, SettledRows
  <2>3. /\ status' = status
        /\ \A b \in Agent : b # a => due'[b] = due[b] /\ reason'[b] = reason[b]
        /\ due'[a] = "never" /\ outcome # "BLOCKED" => reason'[a] # "human"
    BY <2>1, SettledWake
  <2> QED BY <2>2, <2>3 DEF Idle
<1>20. CASE Crash
  <2>1. \A b \in Agent : turn'[b] = "none" => turn[b] = "none"
    BY <1>20 DEF Crash, AfterCrash
  <2>2. UNCHANGED agentVars
    BY <1>20 DEF Crash
  <2> QED BY <2>1, <2>2 DEF Idle, agentVars
<1>21. ASSUME NEW a \in Agent, NEW m \in Mail, HumanMessage(a, m)
      PROVE  Idle'
  <2>1. DeliverAndWake(m, a, "human", "human") /\ UNCHANGED turn
    BY <1>21 DEF HumanMessage, runVars
  <2>2. CASE status[a] = "ACTIVE"
    <3>1. BumpWake(a, "human")
      BY <2>1, <2>2 DEF DeliverAndWake
    <3> QED BY <2>1, <3>1, BumpColumns DEF Idle
  <2>3. CASE status[a] # "ACTIVE"
    BY <2>1, <2>3 DEF DeliverAndWake, agentVars, Idle
  <2> QED BY <2>2, <2>3
<1>22. ASSUME NEW k \in Ask, Answer(k)
      PROVE  Idle'
  <2>1. BumpWake(ask[k].of, "human") /\ ask[k].of \in Agent
    BY <1>22, DecidedRows DEF Answer
  <2>2. \A b \in Agent : b # ask[k].of => turn'[b] = turn[b]
    BY <1>22, DecidedRows
  <2> QED BY <2>1, <2>2, BumpColumns DEF Idle
<1>23. ASSUME NEW k \in Ask, CancelAsk(k)
      PROVE  Idle'
  <2>1. ask[k].of \in Agent /\ \A b \in Agent : b # ask[k].of => turn'[b] = turn[b]
    BY <1>23, DecidedRows
  <2>2. CASE status[ask[k].of] = "ACTIVE"
    <3>1. BumpWake(ask[k].of, "human")
      BY <1>23, <2>2 DEF CancelAsk
    <3> QED BY <2>1, <3>1, BumpColumns DEF Idle
  <2>3. CASE status[ask[k].of] # "ACTIVE"
    BY <1>23, <2>1, <2>3 DEF CancelAsk, agentVars, Idle
  <2> QED BY <2>2, <2>3
<1>24. ASSUME NEW a \in Agent, Activate(a)
      PROVE  Idle'
  <2>1. SetAgent(a, "ACTIVE", Wake("now", "human")) /\ UNCHANGED turn
    BY <1>24 DEF Activate, runVars
  <2>2. due'[a] = "now"
    BY <2>1, SetColumns DEF Wake
  <2> QED BY <2>1, <2>2, SetColumns DEF Idle
<1>25. ASSUME NEW a \in Agent, PauseAgent(a)
      PROVE  Idle'
  <2>1. SetAgent(a, "PAUSED", Wake("never", reason[a])) /\ UNCHANGED turn
    BY <1>25 DEF PauseAgent, runVars
  <2> QED BY <2>1, SetColumns DEF Idle
<1>26. ASSUME NEW a \in Agent, RetireAgent(a)
      PROVE  Idle'
  BY <1>26 DEF RetireAgent, runVars, Idle, TypeOK
<1>27. ASSUME NEW a \in Agent, ComesDue(a)
      PROVE  Idle'
  BY <1>27 DEF ComesDue, runVars, Idle, TypeOK
<1>28. CASE UNCHANGED vars
  BY <1>1, <1>28 DEF vars, agentVars, runVars, supVars
<1> QED BY <1>2, <1>3, <1>4, <1>5, <1>6, <1>7, <1>8, <1>9, <1>10, <1>11, <1>12, <1>13,
           <1>14, <1>15, <1>16, <1>17, <1>18, <1>19, <1>20, <1>21, <1>22, <1>23, <1>24,
           <1>25, <1>26, <1>27, <1>28
        DEF Next, Reconciling, Ticking, Settling, Filing, Pane, Server, Clock

(* The badge is shown for a waiting run only, and that has a question.      *)
LEMMA BadgesPoint ==
  ASSUME TypeOK, Idle, WaitingHasQuestion
  PROVE  BadgeHasQuestion
<1> SUFFICES ASSUME NEW a \in Agent, BlocksHuman(a)
             PROVE  turn[a] = "waiting"
  BY DEF WaitingHasQuestion, BadgeHasQuestion, NeedsYou, AskedBy
<1>1. status[a] \in Status /\ due[a] \in Due
  BY DEF TypeOK
<1>2. CASE status[a] # "ACTIVE"
  BY <1>1, <1>2 DEF Derive, BlocksHuman, Status
<1>3. CASE status[a] = "ACTIVE" /\ turn[a] \notin {"none", "waiting"}
  BY <1>3 DEF Derive, BlocksHuman
<1>4. CASE status[a] = "ACTIVE" /\ turn[a] = "none"
  <2> DEFINE shown == CASE LaneShut(a)                       -> "WAITING_RESOURCE"
                        [] ~LaneShut(a) /\ due[a] = "now"   -> "DUE"
                        [] ~LaneShut(a) /\ due[a] = "later" -> "SCHEDULED"
                        [] ~LaneShut(a) /\ due[a] = "never" ->
                             IF reason[a] = "human" THEN "BLOCKED"
                             ELSE IF Policy[a] = "manual" THEN "MANUAL" ELSE "WAITING_EVENT"
  <2>1. Derive(a) = shown
    BY <1>4 DEF Derive
  <2>2. due[a] = "never" => reason[a] # "human"
    BY <1>4 DEF Idle
  <2>3. shown \notin {"WAITING_HUMAN", "BLOCKED"}
    BY <1>1, <2>2 DEF Due
  <2> QED BY <2>1, <2>3 DEF BlocksHuman
<1> QED BY <1>2, <1>3, <1>4

-----------------------------------------------------------------------------
(* What becomes of an inbox and of the verdicts owed *)

(* A verdict came after the agent's latest run began.                       *)
AnsweredSince(a) == \E k \in Owed(a) : ask[k].when = "during"

(* A settle that consumes leaves the mail that came during the run and the  *)
(* verdicts the run was not given, and no other agent's.                    *)
LEMMA SettledBoxes ==
  ASSUME TypeOK, NEW a \in Agent, NEW outcome, NEW to, Succeed(a, outcome, to)
  PROVE  /\ \A b \in Agent : b # a => /\ Pending(b)' = Pending(b)
                                    /\ Inbox(b, {"QUEUED"})' = Inbox(b, {"QUEUED"})
                                    /\ Owed(b)' = Owed(b)
                                    /\ AnsweredSince(b)' = AnsweredSince(b)
         /\ Consumes(outcome) => /\ Pending(a)' = Inbox(a, {"QUEUED"})
                                 /\ Owed(a)' = Owed(a) \ Carried(a)
<1>1. ASSUME NEW b \in Agent, b # a
      PROVE  /\ Pending(b)' = Pending(b) /\ Inbox(b, {"QUEUED"})' = Inbox(b, {"QUEUED"})
             /\ Owed(b)' = Owed(b) /\ AnsweredSince(b)' = AnsweredSince(b)
  <2>1. \A m \in Mail : mail[m].to = b => mail'[m] = mail[m]
    BY <1>1, SettledRows DEF Mine, Inbox
  <2>2. \A m \in Mail : mail'[m].to = mail[m].to
    BY SettledRows
  <2>3. \A k \in Ask : ask[k].of = b => ask'[k] = ask[k]
    BY <1>1, SettledRows DEF Carried, Owed
  <2>4. \A k \in Ask : ask'[k].of = ask[k].of
    BY SettledRows
  <2>5. Pending(b)' = Pending(b) /\ Inbox(b, {"QUEUED"})' = Inbox(b, {"QUEUED"})
    BY <2>1, <2>2 DEF Pending, Inbox
  <2>6. Owed(b)' = Owed(b) /\ AnsweredSince(b)' = AnsweredSince(b)
    BY <2>3, <2>4 DEF Owed, AnsweredSince
  <2> QED BY <2>5, <2>6
<1>2. ASSUME Consumes(outcome)
      PROVE  Pending(a)' = Inbox(a, {"QUEUED"}) /\ Owed(a)' = Owed(a) \ Carried(a)
  <2>1. ASSUME NEW m \in Mail
        PROVE  m \in Pending(a)' <=> m \in Inbox(a, {"QUEUED"})
    BY <1>2, SettledRows DEF Pending, Inbox, Mine
  <2>2. ASSUME NEW k \in Ask
        PROVE  k \in Owed(a)' <=> k \in Owed(a) \ Carried(a)
    BY <1>2, SettledRows DEF Owed, Carried
  <2>3. Pending(a)' = Inbox(a, {"QUEUED"})
    BY <2>1 DEF Pending, Inbox
  <2>4. Owed(a)' = Owed(a) \ Carried(a)
    BY <2>2 DEF Owed
  <2> QED BY <2>3, <2>4
<1> QED BY <1>1, <1>2

(* A delivery adds to one inbox.                                            *)
LEMMA DeliveredBoxes ==
  ASSUME TypeOK, NEW m \in Mail, NEW a \in Agent, NEW kind, NEW why,
         DeliverAndWake(m, a, kind, why), NEW b \in Agent
  PROVE  /\ b # a => Pending(b)' = Pending(b)
         /\ Inbox(b, {"QUEUED"}) \subseteq Inbox(b, {"QUEUED"})'
         /\ Inbox(a, {"QUEUED"})' # {}
<1>1. b # a => Pending(b)' = Pending(b)
  BY DeliveredRows DEF Pending, Inbox
<1>2. Inbox(b, {"QUEUED"}) \subseteq Inbox(b, {"QUEUED"})'
  BY DeliveredRows DEF Inbox
<1>3. m \in Inbox(a, {"QUEUED"})'
  BY DeliveredRows DEF Inbox
<1> QED BY <1>1, <1>2, <1>3

(* A dispatch leases one inbox and settles no verdict.                      *)
LEMMA DispatchedBoxes ==
  ASSUME TypeOK, Selection, Dispatch, NEW b \in Agent
  PROVE  /\ b # cur => /\ Pending(b)' = Pending(b)
                       /\ Inbox(b, {"QUEUED"})' = Inbox(b, {"QUEUED"})
         /\ Owed(b)' = Owed(b) /\ AnsweredSince(b)' = AnsweredSince(b)
<1>1. ASSUME b # cur
      PROVE  Pending(b)' = Pending(b) /\ Inbox(b, {"QUEUED"})' = Inbox(b, {"QUEUED"})
  BY <1>1, DispatchedRows DEF Pending, Inbox
<1>2. Owed(b)' = Owed(b) /\ AnsweredSince(b)' = AnsweredSince(b)
  BY DispatchedRows DEF Owed, AnsweredSince
<1> QED BY <1>1, <1>2

(* Handing over the capsule moves no row.                                   *)
LEMMA ReadyBoxes ==
  ASSUME TypeOK, NEW a \in Agent, SessionReady(a), NEW b \in Agent
  PROVE  /\ Pending(b)' = Pending(b) /\ Inbox(b, {"QUEUED"})' = Inbox(b, {"QUEUED"})
         /\ Owed(b)' = Owed(b) /\ AnsweredSince(b)' = AnsweredSince(b)
<1>1. Pending(b)' = Pending(b) /\ Inbox(b, {"QUEUED"})' = Inbox(b, {"QUEUED"})
  BY ReadyRows DEF Pending, Inbox
<1>2. Owed(b)' = Owed(b) /\ AnsweredSince(b)' = AnsweredSince(b)
  BY ReadyRows DEF Owed, AnsweredSince
<1> QED BY <1>1, <1>2

(* When a run opens, what was answered is what it will be given.            *)
LEMMA OpenedBoxes ==
  ASSUME TypeOK, Selection, OpenRun, NEW b \in Agent
  PROVE  /\ Owed(b)' = Owed(b)
         /\ AnsweredSince(b)' => b # cur /\ AnsweredSince(b)
BY OpenedRows DEF Owed, AnsweredSince

(* A question that is filed is no verdict yet.                              *)
LEMMA FiledBoxes ==
  ASSUME TypeOK, NEW k \in Ask, NEW a \in Agent, FileQuestion(k, a), NEW b \in Agent
  PROVE  Owed(b)' = Owed(b) /\ AnsweredSince(b)' = AnsweredSince(b)
BY FiledQuestion DEF Owed, AnsweredSince

(* An answer is owed to the asker alone, a withdrawal to nobody.            *)
LEMMA DecidedBoxes ==
  ASSUME TypeOK, NEW k \in Ask, Answer(k) \/ CancelAsk(k), NEW b \in Agent
  PROVE  ~Answer(k) \/ b # ask[k].of =>
           Owed(b)' = Owed(b) /\ AnsweredSince(b)' = AnsweredSince(b)
BY DecidedRows DEF Owed, AnsweredSince

(* Inboxes and verdicts are nowhere but in their two tables.                *)
LEMMA KeptBoxes ==
  ASSUME NEW b \in Agent
  PROVE  /\ UNCHANGED mail => /\ Pending(b)' = Pending(b)
                              /\ Inbox(b, {"QUEUED"})' = Inbox(b, {"QUEUED"})
         /\ UNCHANGED ask => Owed(b)' = Owed(b) /\ AnsweredSince(b)' = AnsweredSince(b)
BY DEF Pending, Inbox, Owed, AnsweredSince

-----------------------------------------------------------------------------
(* Nobody sleeps on what he was sent *)

(* A verdict has a time that it was given at.                               *)
Answered == \A k \in Ask : ask[k].state = "APPROVED" => ask[k].when \in {"before", "during"}

(* An agent that nothing will wake has nothing to be woken for.             *)
Quiet(a) ==
  status[a] = "ACTIVE" /\ turn[a] = "none" /\ due[a] = "never"
    => Pending(a) = {} /\ Owed(a) = {}

(* A verdict that came during a run will be noticed when the run is         *)
(* settled: the bump it made is still the agent's reason, or mail that      *)
(* came later overwrote the reason and is still queued.                     *)
Noted(a) ==
  turn[a] \notin {"none", "waiting"} /\ AnsweredSince(a)
    => reason[a] = "human" \/ Inbox(a, {"QUEUED"}) # {}

(* No verdict slips between the tick's look at the agent in hand and what   *)
(* the tick does about it: a run that was opened has the bump of what came  *)
(* since; an agent found without work still has none.                       *)
InHand ==
  /\ pc = "reserve" /\ AnsweredSince(cur) => reason[cur] = "human"
  /\ pc = "backoff" => Pending(cur) = {} /\ Owed(cur) = {}

(* Only an answer approves, and it says when.                               *)
LEMMA AnsweredStep ==
  ASSUME TypeOK, Selection, Answered, [Next]_vars
  PROVE  Answered'
<1>1. UNCHANGED <<ask>> => Answered'
  BY DEF Answered
<1>2. CASE Start \/ ReconcileDone \/ Select \/ BackoffWithoutRun \/ PauseExhausted \/
           LoopEnds \/ TickEnds \/ Crash
  BY <1>1, <1>2 DEF Start, ReconcileDone, Select, BackoffWithoutRun, PauseExhausted,
     LoopEnds, TickEnds, Crash, agentVars, runVars
<1>3. ASSUME NEW a \in Agent, Adopt(a) \/ Skip(a) \/ Precondition(a) \/ PaneDies(a) \/
             PollFails(a) \/ ReadExit(a) \/ Activate(a) \/ PauseAgent(a) \/
             RetireAgent(a) \/ ComesDue(a)
      PROVE  Answered'
  BY <1>1, <1>3 DEF Adopt, Skip, Precondition, PaneDies, PollFails, ReadExit, Activate,
     PauseAgent, RetireAgent, ComesDue, agentVars, runVars, supVars
<1>4. ASSUME NEW a \in Agent, NEW r \in Result, PaneExits(a, r)
      PROVE  Answered'
  BY <1>1, <1>4 DEF PaneExits, agentVars, supVars
<1>5. ASSUME NEW a \in Agent, NEW m \in Mail, NEW b \in Agent, FileSend(a, m, b)
      PROVE  Answered'
  BY <1>1, <1>5 DEF FileSend, runVars, supVars
<1>6. ASSUME NEW a \in Agent, NEW m \in Mail, HumanMessage(a, m)
      PROVE  Answered'
  BY <1>1, <1>6 DEF HumanMessage, runVars, supVars
<1>7. ASSUME NEW l \in Lane, LaneReopens(l)
      PROVE  Answered'
  BY <1>1, <1>7 DEF LaneReopens, agentVars, runVars, supVars
<1>8. ASSUME NEW a \in Agent, SettleLost(a)
      PROVE  Answered'
  <2>1. Succeed(a, "RETRYABLE_ERROR", "none")
    BY <1>8 DEF SettleLost, Selection
  <2> QED BY <2>1, SettledRows DEF Answered
<1>9. CASE OpenRun
  BY <1>9, OpenedRows DEF Answered
<1>10. CASE BudgetExhausted
  <2>1. cur \in Agent /\ Succeed(cur, "NO_WORK", "none")
    BY <1>10 DEF BudgetExhausted, Selection
  <2> QED BY <2>1, SettledRows DEF Answered
<1>11. CASE Dispatch
  BY <1>11, DispatchedRows DEF Answered
<1>12. ASSUME NEW a \in Agent, SessionReady(a)
      PROVE  Answered'
  BY <1>12, ReadyRows DEF Answered
<1>13. ASSUME NEW a \in Agent, SessionFails(a)
      PROVE  Answered'
  <2>1. Succeed(a, "RETRYABLE_ERROR", "none")
    BY <1>13 DEF SessionFails, Selection
  <2> QED BY <2>1, SettledRows DEF Answered
<1>14. ASSUME NEW a \in Agent, NEW k \in Ask, FileAsk(a, k)
      PROVE  Answered'
  <2>1. FileQuestion(k, a)
    BY <1>14 DEF FileAsk
  <2> QED BY <2>1, FiledQuestion DEF Answered
<1>15. ASSUME NEW a \in Agent, NEW outcome \in Outcome, Settle(a, outcome)
      PROVE  Answered'
  <2>1. Succeed(a, outcome, IF outcome = "BLOCKED" THEN "waiting" ELSE "none")
    BY <1>15 DEF Settle, Selection
  <2> QED BY <2>1, SettledRows DEF Answered
<1>16. ASSUME NEW a \in Agent, NEW k \in Ask, Promote(a, k)
      PROVE  Answered'
  <2>1. FileQuestion(k, a)
    BY <1>16 DEF Promote
  <2> QED BY <2>1, FiledQuestion DEF Answered
<1>17. ASSUME NEW k \in Ask, Answer(k)
      PROVE  Answered'
  BY <1>17, DecidedRows DEF Answered
<1>18. ASSUME NEW k \in Ask, CancelAsk(k)
      PROVE  Answered'
  BY <1>18, DecidedRows DEF Answered
<1>19. CASE UNCHANGED vars
  BY <1>1, <1>19 DEF vars, agentVars, runVars, supVars
<1> QED BY <1>2, <1>3, <1>4, <1>5, <1>6, <1>7, <1>8, <1>9, <1>10, <1>11, <1>12, <1>13,
           <1>14, <1>15, <1>16, <1>17, <1>18, <1>19
        DEF Next, Reconciling, Ticking, Settling, Filing, Pane, Server, Clock

(* The settle looks at the bump and at the inbox, so it leaves an agent     *)
(* without a wake only when both are empty; everything else it consumes.    *)
LEMMA SettledCalm ==
  ASSUME TypeOK, Answered, NEW a \in Agent, NEW outcome \in Outcome,
         NEW to \in {"none", "waiting"}, Succeed(a, outcome, to),
         turn[a] \notin {"none", "waiting"}, NEW c \in Agent, Quiet(c), Noted(c)
  PROVE  Quiet(c)' /\ Noted(c)'
<1>1. CASE c # a
  <2>1. /\ turn'[c] = turn[c] /\ status'[c] = status[c] /\ due'[c] = due[c]
        /\ reason'[c] = reason[c]
    BY <1>1, SettledRows, SettledWake
  <2>2. /\ Pending(c)' = Pending(c) /\ Inbox(c, {"QUEUED"})' = Inbox(c, {"QUEUED"})
        /\ Owed(c)' = Owed(c) /\ AnsweredSince(c)' = AnsweredSince(c)
    BY <1>1, SettledBoxes
  <2> QED BY <2>1, <2>2 DEF Quiet, Noted
<1>2. CASE c = a
  <2>1. turn'[a] \in {"none", "waiting"}
    BY SettledRows
  <2>2. ASSUME due'[a] = "never"
        PROVE  Pending(a)' = {} /\ Owed(a)' = {}
    <3>1. Consumes(outcome) /\ ~HumanBumped(a) /\ Inbox(a, {"QUEUED"}) = {}
      BY <2>2, SettledWake
    <3>2. Pending(a)' = {} /\ Owed(a)' = Owed(a) \ Carried(a)
      BY <3>1, SettledBoxes
    <3>3. ~AnsweredSince(a)
      BY <1>2, <3>1 DEF Noted, HumanBumped, AnsweredSince, Owed
    <3>4. Owed(a) \subseteq Carried(a)
      BY <3>3 DEF Answered, AnsweredSince, Carried, Owed
    <3> QED BY <3>2, <3>4
  <2> QED BY <1>2, <2>1, <2>2 DEF Quiet, Noted
<1> QED BY <1>1, <1>2

(* Every delivery and every verdict bumps its agent in the transaction      *)
(* that writes it, and mail and verdicts that came too late for a run are   *)
(* noticed by its settle. A dispatch leases mail that hid a bump only       *)
(* after the run has noted the bump anew (InHand).                          *)
LEMMA CalmStep ==
  ASSUME TypeOK, Selection, Answered, InHand, NEW c \in Agent, Quiet(c), Noted(c),
         [Next]_vars
  PROVE  Quiet(c)' /\ Noted(c)'
<1>1. UNCHANGED <<status, due, reason, turn, mail, ask>> => Quiet(c)' /\ Noted(c)'
  BY DEF Quiet, Noted, Pending, Inbox, Owed, AnsweredSince
<1>2. CASE Start \/ ReconcileDone \/ Select \/ LoopEnds \/ TickEnds
  BY <1>1, <1>2 DEF Start, ReconcileDone, Select, LoopEnds, TickEnds, agentVars, runVars
<1>3. ASSUME NEW a \in Agent, Adopt(a) \/ Skip(a) \/ Precondition(a)
      PROVE  Quiet(c)' /\ Noted(c)'
  BY <1>1, <1>3 DEF Adopt, Skip, Precondition, agentVars, runVars
<1>4. ASSUME NEW l \in Lane, LaneReopens(l)
      PROVE  Quiet(c)' /\ Noted(c)'
  BY <1>1, <1>4 DEF LaneReopens, agentVars, runVars, supVars
<1>5. ASSUME NEW a \in Agent, SettleLost(a)
      PROVE  Quiet(c)' /\ Noted(c)'
  <2>1. /\ Succeed(a, "RETRYABLE_ERROR", "none")
        /\ a \in Agent /\ "RETRYABLE_ERROR" \in Outcome
        /\ turn[a] \notin {"none", "waiting"}
    BY <1>5 DEF SettleLost, Selection, Outcome, Lost
  <2> QED BY <2>1, SettledCalm
<1>6. CASE BackoffWithoutRun
  <2>1. /\ SetAgent(cur, status[cur], NextWake(Policy[cur], "NO_WORK"))
        /\ cur \in Agent /\ UNCHANGED <<turn, mail, ask>>
    BY <1>6 DEF BackoffWithoutRun, Selection, runVars
  <2>2. /\ Pending(c)' = Pending(c) /\ Inbox(c, {"QUEUED"})' = Inbox(c, {"QUEUED"})
        /\ Owed(c)' = Owed(c) /\ AnsweredSince(c)' = AnsweredSince(c)
    BY <2>1, KeptBoxes
  <2>3. CASE c = cur
    <3>1. Pending(c) = {} /\ Owed(c) = {}
      BY <1>6, <2>3 DEF BackoffWithoutRun, InHand
    <3>2. ~AnsweredSince(c)
      BY <3>1 DEF AnsweredSince
    <3> QED BY <2>2, <3>1, <3>2 DEF Quiet, Noted
  <2>4. CASE c # cur
    BY <2>1, <2>2, <2>4, SetColumns DEF Quiet, Noted
  <2> QED BY <2>3, <2>4
<1>7. CASE OpenRun
  <2>1. UNCHANGED <<status, due, reason, mail>>
    BY <1>7 DEF OpenRun, agentVars
  <2>2. /\ Pending(c)' = Pending(c) /\ Inbox(c, {"QUEUED"})' = Inbox(c, {"QUEUED"})
        /\ Owed(c)' = Owed(c) /\ (AnsweredSince(c)' => c # cur /\ AnsweredSince(c))
    BY <1>7, <2>1, KeptBoxes, OpenedBoxes
  <2>3. turn'[c] = IF c = cur THEN "opened" ELSE turn[c]
    BY <1>7, OpenedRows
  <2> QED BY <2>1, <2>2, <2>3 DEF Quiet, Noted
<1>8. CASE BudgetExhausted
  <2>1. /\ Succeed(cur, "NO_WORK", "none")
        /\ cur \in Agent /\ "NO_WORK" \in Outcome /\ turn[cur] \notin {"none", "waiting"}
    BY <1>8 DEF BudgetExhausted, Selection, Outcome
  <2> QED BY <2>1, SettledCalm
<1>9. CASE PauseExhausted
  <2>1. /\ SetAgent(cur, "PAUSED", Wake("never", reason[cur]))
        /\ cur \in Agent /\ UNCHANGED <<turn, mail, ask>>
    BY <1>9 DEF PauseExhausted, Selection, runVars
  <2>2. /\ Pending(c)' = Pending(c) /\ Inbox(c, {"QUEUED"})' = Inbox(c, {"QUEUED"})
        /\ Owed(c)' = Owed(c) /\ AnsweredSince(c)' = AnsweredSince(c)
    BY <2>1, KeptBoxes
  <2>3. /\ reason'[c] = reason[c]
        /\ IF c = cur THEN status'[c] = "PAUSED"
           ELSE status'[c] = status[c] /\ due'[c] = due[c]
    BY <2>1, SetColumns DEF Wake
  <2> QED BY <2>1, <2>2, <2>3 DEF Quiet, Noted
<1>10. CASE Dispatch
  <2>1. UNCHANGED <<status, due, reason>>
    BY <1>10 DEF Dispatch, agentVars
  <2>2. /\ Owed(c)' = Owed(c) /\ AnsweredSince(c)' = AnsweredSince(c)
        /\ c # cur => /\ Pending(c)' = Pending(c)
                      /\ Inbox(c, {"QUEUED"})' = Inbox(c, {"QUEUED"})
    BY <1>10, DispatchedBoxes
  <2>3. turn'[c] = IF c = cur THEN "session" ELSE turn[c]
    BY <1>10, DispatchedRows
  <2>4. c = cur /\ AnsweredSince(c) => reason[c] = "human"
    BY <1>10 DEF Dispatch, InHand
  <2> QED BY <2>1, <2>2, <2>3, <2>4 DEF Quiet, Noted
<1>11. ASSUME NEW a \in Agent, SessionReady(a)
      PROVE  Quiet(c)' /\ Noted(c)'
  <2>1. UNCHANGED <<status, due, reason>>
    BY <1>11 DEF SessionReady, agentVars
  <2>2. /\ Pending(c)' = Pending(c) /\ Inbox(c, {"QUEUED"})' = Inbox(c, {"QUEUED"})
        /\ Owed(c)' = Owed(c) /\ AnsweredSince(c)' = AnsweredSince(c)
    BY <1>11, ReadyBoxes
  <2>3. IF c = a THEN turn[c] = "session" /\ turn'[c] = "running" ELSE turn'[c] = turn[c]
    BY <1>11, ReadyRows
  <2> QED BY <2>1, <2>2, <2>3 DEF Quiet, Noted
<1>12. ASSUME NEW a \in Agent, SessionFails(a)
      PROVE  Quiet(c)' /\ Noted(c)'
  <2>1. /\ Succeed(a, "RETRYABLE_ERROR", "none")
        /\ a \in Agent /\ "RETRYABLE_ERROR" \in Outcome
        /\ turn[a] \notin {"none", "waiting"}
    BY <1>12 DEF SessionFails, Selection, Outcome
  <2> QED BY <2>1, SettledCalm
<1>13. ASSUME NEW a \in Agent, NEW r \in Result, PaneExits(a, r)
      PROVE  Quiet(c)' /\ Noted(c)'
  <2>1. UNCHANGED <<status, due, reason, mail, ask>>
    BY <1>13 DEF PaneExits, agentVars
  <2>2. /\ Pending(c)' = Pending(c) /\ Inbox(c, {"QUEUED"})' = Inbox(c, {"QUEUED"})
        /\ Owed(c)' = Owed(c) /\ AnsweredSince(c)' = AnsweredSince(c)
    BY <2>1, KeptBoxes
  <2>3. turn'[c] = turn[c] \/ {turn[c], turn'[c]} \cap {"none", "waiting"} = {}
    BY <1>13 DEF PaneExits, TypeOK
  <2> QED BY <2>1, <2>2, <2>3 DEF Quiet, Noted
<1>14. ASSUME NEW a \in Agent, PaneDies(a)
      PROVE  Quiet(c)' /\ Noted(c)'
  <2>1. UNCHANGED <<status, due, reason, mail, ask>>
    BY <1>14 DEF PaneDies, agentVars
  <2>2. /\ Pending(c)' = Pending(c) /\ Inbox(c, {"QUEUED"})' = Inbox(c, {"QUEUED"})
        /\ Owed(c)' = Owed(c) /\ AnsweredSince(c)' = AnsweredSince(c)
    BY <2>1, KeptBoxes
  <2>3. turn'[c] = turn[c] \/ {turn[c], turn'[c]} \cap {"none", "waiting"} = {}
    BY <1>14 DEF PaneDies, TypeOK
  <2> QED BY <2>1, <2>2, <2>3 DEF Quiet, Noted
<1>15. ASSUME NEW a \in Agent, PollFails(a)
      PROVE  Quiet(c)' /\ Noted(c)'
  <2>1. UNCHANGED <<status, due, reason, mail, ask>>
    BY <1>15 DEF PollFails, agentVars
  <2>2. /\ Pending(c)' = Pending(c) /\ Inbox(c, {"QUEUED"})' = Inbox(c, {"QUEUED"})
        /\ Owed(c)' = Owed(c) /\ AnsweredSince(c)' = AnsweredSince(c)
    BY <2>1, KeptBoxes
  <2>3. turn'[c] = turn[c] \/ {turn[c], turn'[c]} \cap {"none", "waiting"} = {}
    BY <1>15 DEF PollFails, TypeOK
  <2> QED BY <2>1, <2>2, <2>3 DEF Quiet, Noted
<1>16. ASSUME NEW a \in Agent, ReadExit(a)
      PROVE  Quiet(c)' /\ Noted(c)'
  <2>1. UNCHANGED <<status, due, reason, mail, ask>>
    BY <1>16 DEF ReadExit, agentVars
  <2>2. /\ Pending(c)' = Pending(c) /\ Inbox(c, {"QUEUED"})' = Inbox(c, {"QUEUED"})
        /\ Owed(c)' = Owed(c) /\ AnsweredSince(c)' = AnsweredSince(c)
    BY <2>1, KeptBoxes
  <2>3. turn'[c] = turn[c] \/ {turn[c], turn'[c]} \cap {"none", "waiting"} = {}
    BY <1>16 DEF ReadExit, TypeOK
  <2> QED BY <2>1, <2>2, <2>3 DEF Quiet, Noted
<1>17. ASSUME NEW a \in Agent, NEW m \in Mail, NEW b \in Agent, FileSend(a, m, b)
      PROVE  Quiet(c)' /\ Noted(c)'
  <2>1. DeliverAndWake(m, b, "agent_to_agent", "event") /\ UNCHANGED <<turn, ask>>
    BY <1>17 DEF FileSend, runVars
  <2>2. Owed(c)' = Owed(c) /\ AnsweredSince(c)' = AnsweredSince(c)
    BY <2>1, KeptBoxes
  <2>3. /\ c # b => Pending(c)' = Pending(c)
        /\ Inbox(c, {"QUEUED"}) \subseteq Inbox(c, {"QUEUED"})'
        /\ Inbox(b, {"QUEUED"})' # {}
    BY <2>1, DeliveredBoxes
  <2>4. /\ status'[c] = status[c]
        /\ IF c = b /\ status[c] = "ACTIVE" THEN due'[c] = "now"
           ELSE due'[c] = due[c] /\ reason'[c] = reason[c]
    <3>1. CASE status[b] = "ACTIVE"
      BY <2>1, <3>1, BumpColumns DEF DeliverAndWake
    <3>2. CASE status[b] # "ACTIVE"
      BY <2>1, <3>2 DEF DeliverAndWake, agentVars
    <3> QED BY <3>1, <3>2
  <2> QED BY <2>1, <2>2, <2>3, <2>4 DEF Quiet, Noted
<1>18. ASSUME NEW a \in Agent, NEW k \in Ask, FileAsk(a, k)
      PROVE  Quiet(c)' /\ Noted(c)'
  <2>1. FileQuestion(k, a) /\ UNCHANGED <<status, due, reason, turn, mail>>
    BY <1>18 DEF FileAsk, agentVars, runVars
  <2>2. /\ Pending(c)' = Pending(c) /\ Inbox(c, {"QUEUED"})' = Inbox(c, {"QUEUED"})
        /\ Owed(c)' = Owed(c) /\ AnsweredSince(c)' = AnsweredSince(c)
    BY <2>1, KeptBoxes, FiledBoxes
  <2> QED BY <2>1, <2>2 DEF Quiet, Noted
<1>19. ASSUME NEW a \in Agent, NEW outcome \in Outcome, Settle(a, outcome)
      PROVE  Quiet(c)' /\ Noted(c)'
  <2>1. /\ Succeed(a, outcome, IF outcome = "BLOCKED" THEN "waiting" ELSE "none")
        /\ a \in Agent /\ outcome \in Outcome /\ turn[a] \notin {"none", "waiting"}
    BY <1>19 DEF Settle, Selection, Outcome
  <2> QED BY <2>1, SettledCalm
<1>20. CASE Crash
  <2>1. UNCHANGED <<status, due, reason, mail, ask>>
    BY <1>20 DEF Crash, agentVars
  <2>2. /\ Pending(c)' = Pending(c) /\ Inbox(c, {"QUEUED"})' = Inbox(c, {"QUEUED"})
        /\ Owed(c)' = Owed(c) /\ AnsweredSince(c)' = AnsweredSince(c)
    BY <2>1, KeptBoxes
  <2>3. turn'[c] = turn[c] \/ {turn[c], turn'[c]} \cap {"none", "waiting"} = {}
    BY <1>20 DEF Crash, AfterCrash
  <2> QED BY <2>1, <2>2, <2>3 DEF Quiet, Noted
<1>21. ASSUME NEW a \in Agent, NEW m \in Mail, HumanMessage(a, m)
      PROVE  Quiet(c)' /\ Noted(c)'
  <2>1. DeliverAndWake(m, a, "human", "human") /\ UNCHANGED <<turn, ask>>
    BY <1>21 DEF HumanMessage, runVars
  <2>2. Owed(c)' = Owed(c) /\ AnsweredSince(c)' = AnsweredSince(c)
    BY <2>1, KeptBoxes
  <2>3. /\ c # a => Pending(c)' = Pending(c)
        /\ Inbox(c, {"QUEUED"}) \subseteq Inbox(c, {"QUEUED"})'
        /\ Inbox(a, {"QUEUED"})' # {}
    BY <2>1, DeliveredBoxes
  <2>4. /\ status'[c] = status[c]
        /\ IF c = a /\ status[c] = "ACTIVE" THEN due'[c] = "now"
           ELSE due'[c] = due[c] /\ reason'[c] = reason[c]
    <3>1. CASE status[a] = "ACTIVE"
      BY <2>1, <3>1, BumpColumns DEF DeliverAndWake
    <3>2. CASE status[a] # "ACTIVE"
      BY <2>1, <3>2 DEF DeliverAndWake, agentVars
    <3> QED BY <3>1, <3>2
  <2> QED BY <2>1, <2>2, <2>3, <2>4 DEF Quiet, Noted
<1>22. ASSUME NEW a \in Agent, NEW k \in Ask, Promote(a, k)
      PROVE  Quiet(c)' /\ Noted(c)'
  <2>1. FileQuestion(k, a) /\ UNCHANGED <<status, due, reason, turn, mail>>
    BY <1>22 DEF Promote, agentVars, runVars
  <2>2. /\ Pending(c)' = Pending(c) /\ Inbox(c, {"QUEUED"})' = Inbox(c, {"QUEUED"})
        /\ Owed(c)' = Owed(c) /\ AnsweredSince(c)' = AnsweredSince(c)
    BY <2>1, KeptBoxes, FiledBoxes
  <2> QED BY <2>1, <2>2 DEF Quiet, Noted
<1>23. ASSUME NEW k \in Ask, Answer(k)
      PROVE  Quiet(c)' /\ Noted(c)'
  <2>1. /\ BumpWake(ask[k].of, "human") /\ ask[k].of \in Agent /\ UNCHANGED mail
        /\ c # ask[k].of => turn'[c] = turn[c]
    BY <1>23, DecidedRows DEF Answer
  <2>2. c # ask[k].of => /\ Pending(c)' = Pending(c)
                        /\ Inbox(c, {"QUEUED"})' = Inbox(c, {"QUEUED"})
                        /\ Owed(c)' = Owed(c) /\ AnsweredSince(c)' = AnsweredSince(c)
    BY <1>23, <2>1, KeptBoxes, DecidedBoxes
  <2>3. /\ status'[c] = status[c]
        /\ IF c = ask[k].of THEN due'[c] = "now" /\ reason'[c] = "human"
           ELSE due'[c] = due[c] /\ reason'[c] = reason[c]
    BY <2>1, BumpColumns
  <2> QED BY <2>1, <2>2, <2>3 DEF Quiet, Noted
<1>24. ASSUME NEW k \in Ask, CancelAsk(k)
      PROVE  Quiet(c)' /\ Noted(c)'
  <2>1. /\ ask[k].of \in Agent /\ UNCHANGED mail /\ ~Answer(k)
        /\ turn'[c] = IF c = ask[k].of /\ turn[c] = "waiting" THEN "none" ELSE turn[c]
    <3>1. /\ ask[k] \in AskRow
          /\ ask'[k] = [ask[k] EXCEPT !.state = "CANCELLED", !.when = "during"]
      BY <1>24 DEF CancelAsk, TypeOK
    <3>2. ask'[k].state = "CANCELLED"
      BY <3>1, AskColumns
    <3>3. UNCHANGED mail
      BY <1>24 DEF CancelAsk
    <3> QED BY <1>24, <3>2, <3>3, DecidedRows
  <2>2. /\ Pending(c)' = Pending(c) /\ Inbox(c, {"QUEUED"})' = Inbox(c, {"QUEUED"})
        /\ Owed(c)' = Owed(c) /\ AnsweredSince(c)' = AnsweredSince(c)
    BY <1>24, <2>1, KeptBoxes, DecidedBoxes
  <2>3. /\ status'[c] = status[c]
        /\ IF c = ask[k].of /\ status[c] = "ACTIVE"
           THEN due'[c] = "now" /\ reason'[c] = "human"
           ELSE due'[c] = due[c] /\ reason'[c] = reason[c]
    <3>1. CASE status[ask[k].of] = "ACTIVE"
      BY <1>24, <2>1, <3>1, BumpColumns DEF CancelAsk
    <3>2. CASE status[ask[k].of] # "ACTIVE"
      BY <1>24, <3>2 DEF CancelAsk, agentVars
    <3> QED BY <3>1, <3>2
  <2>4. c = ask[k].of /\ status[c] # "ACTIVE" => status'[c] # "ACTIVE"
    BY <2>3
  <2> QED BY <2>1, <2>2, <2>3, <2>4 DEF Quiet, Noted
<1>25. ASSUME NEW a \in Agent, Activate(a)
      PROVE  Quiet(c)' /\ Noted(c)'
  <2>1. SetAgent(a, "ACTIVE", Wake("now", "human")) /\ UNCHANGED <<turn, mail, ask>>
    BY <1>25 DEF Activate, runVars
  <2>2. /\ Pending(c)' = Pending(c) /\ Inbox(c, {"QUEUED"})' = Inbox(c, {"QUEUED"})
        /\ Owed(c)' = Owed(c) /\ AnsweredSince(c)' = AnsweredSince(c)
    BY <2>1, KeptBoxes
  <2>3. IF c = a THEN due'[c] = "now" /\ reason'[c] = "human"
        ELSE status'[c] = status[c] /\ due'[c] = due[c] /\ reason'[c] = reason[c]
    BY <2>1, SetColumns DEF Wake
  <2> QED BY <2>1, <2>2, <2>3 DEF Quiet, Noted
<1>26. ASSUME NEW a \in Agent, PauseAgent(a)
      PROVE  Quiet(c)' /\ Noted(c)'
  <2>1. /\ SetAgent(a, "PAUSED", Wake("never", reason[a]))
        /\ a \in Agent /\ UNCHANGED <<turn, mail, ask>>
    BY <1>26 DEF PauseAgent, Selection, runVars
  <2>2. /\ Pending(c)' = Pending(c) /\ Inbox(c, {"QUEUED"})' = Inbox(c, {"QUEUED"})
        /\ Owed(c)' = Owed(c) /\ AnsweredSince(c)' = AnsweredSince(c)
    BY <2>1, KeptBoxes
  <2>3. /\ reason'[c] = reason[c]
        /\ IF c = a THEN status'[c] = "PAUSED"
           ELSE status'[c] = status[c] /\ due'[c] = due[c]
    BY <2>1, SetColumns DEF Wake
  <2> QED BY <2>1, <2>2, <2>3 DEF Quiet, Noted
<1>27. ASSUME NEW a \in Agent, RetireAgent(a)
      PROVE  Quiet(c)' /\ Noted(c)'
  <2>1. UNCHANGED <<reason, turn, mail, ask>>
    BY <1>27 DEF RetireAgent, runVars
  <2>2. /\ Pending(c)' = Pending(c) /\ Inbox(c, {"QUEUED"})' = Inbox(c, {"QUEUED"})
        /\ Owed(c)' = Owed(c) /\ AnsweredSince(c)' = AnsweredSince(c)
    BY <2>1, KeptBoxes
  <2>3. status'[c] = "RETIRED" \/ (status'[c] = status[c] /\ due'[c] = due[c])
    BY <1>27 DEF RetireAgent, TypeOK
  <2> QED BY <2>1, <2>2, <2>3 DEF Quiet, Noted
<1>28. ASSUME NEW a \in Agent, ComesDue(a)
      PROVE  Quiet(c)' /\ Noted(c)'
  <2>1. UNCHANGED <<reason, turn, mail, ask>>
    BY <1>28 DEF ComesDue, runVars
  <2>2. /\ Pending(c)' = Pending(c) /\ Inbox(c, {"QUEUED"})' = Inbox(c, {"QUEUED"})
        /\ Owed(c)' = Owed(c) /\ AnsweredSince(c)' = AnsweredSince(c)
    BY <2>1, KeptBoxes
  <2>3. status'[c] = status[c] /\ (due'[c] = "now" \/ due'[c] = due[c])
    BY <1>28 DEF ComesDue, TypeOK
  <2> QED BY <2>1, <2>2, <2>3 DEF Quiet, Noted
<1>29. CASE UNCHANGED vars
  BY <1>1, <1>29 DEF vars, agentVars, runVars, supVars
<1> QED BY <1>2, <1>3, <1>4, <1>5, <1>6, <1>7, <1>8, <1>9, <1>10, <1>11, <1>12, <1>13,
           <1>14, <1>15, <1>16, <1>17, <1>18, <1>19, <1>20, <1>21, <1>22, <1>23, <1>24,
           <1>25, <1>26, <1>27, <1>28, <1>29
        DEF Next, Reconciling, Ticking, Settling, Filing, Pane, Server, Clock

(* The supervisor files no send and settles nothing between the look and    *)
(* the act (Places), so only the server interferes; where the agent is      *)
(* found without work it does not, by the hypothesis.                       *)
LEMMA InHandStep ==
  ASSUME TypeOK, Selection, Places, InHand, "backoff" \notin Hazards, [Next]_vars
  PROVE  InHand'
<1>1. UNCHANGED <<reason, mail, ask, pc, cur>> => InHand'
  BY DEF InHand, AnsweredSince, Pending, Inbox, Owed
<1>2. ASSUME NEW a \in Agent, Adopt(a) \/ Skip(a) \/ PaneDies(a) \/ PollFails(a) \/
             ReadExit(a) \/ RetireAgent(a) \/ ComesDue(a)
      PROVE  InHand'
  BY <1>1, <1>2 DEF Adopt, Skip, PaneDies, PollFails, ReadExit, RetireAgent, ComesDue,
     agentVars, runVars, supVars
<1>3. ASSUME NEW a \in Agent, NEW r \in Result, PaneExits(a, r)
      PROVE  InHand'
  BY <1>1, <1>3 DEF PaneExits, agentVars, supVars
<1>4. ASSUME NEW l \in Lane, LaneReopens(l)
      PROVE  InHand'
  BY <1>1, <1>4 DEF LaneReopens, agentVars, runVars, supVars
<1>5. CASE Start
  <2>1. pc' \notin {"reserve", "backoff"}
    BY <1>5 DEF Start
  <2> QED BY <2>1 DEF InHand
<1>6. ASSUME NEW a \in Agent, SettleLost(a)
      PROVE  InHand'
  <2>1. pc' \notin {"reserve", "backoff"}
    BY <1>6 DEF SettleLost
  <2> QED BY <2>1 DEF InHand
<1>7. CASE ReconcileDone
  <2>1. pc' \notin {"reserve", "backoff"}
    BY <1>7 DEF ReconcileDone
  <2> QED BY <2>1 DEF InHand
<1>8. CASE Select
  <2>1. pc' \notin {"reserve", "backoff"}
    BY <1>8 DEF Select
  <2> QED BY <2>1 DEF InHand
<1>9. ASSUME NEW a \in Agent, Precondition(a)
      PROVE  InHand'
  <2>1. pc' = "backoff" => ~HasWork(a)
    BY <1>9 DEF Precondition
  <2>2. cur' = a /\ pc' # "reserve" /\ UNCHANGED <<mail, ask>>
    BY <1>9 DEF Precondition
  <2> QED BY <2>1, <2>2 DEF HasWork, InHand, AnsweredSince, Pending, Inbox, Owed
<1>10. CASE BackoffWithoutRun
  <2>1. pc' \notin {"reserve", "backoff"}
    BY <1>10 DEF BackoffWithoutRun
  <2> QED BY <2>1 DEF InHand
<1>11. CASE OpenRun
  <2>1. pc' = "reserve" /\ UNCHANGED cur
    BY <1>11 DEF OpenRun
  <2> QED BY <1>11, <2>1, OpenedRows DEF InHand, AnsweredSince, Owed
<1>12. CASE BudgetExhausted
  <2>1. pc' \notin {"reserve", "backoff"}
    BY <1>12 DEF BudgetExhausted
  <2> QED BY <2>1 DEF InHand
<1>13. CASE PauseExhausted
  <2>1. pc' \notin {"reserve", "backoff"}
    BY <1>13 DEF PauseExhausted
  <2> QED BY <2>1 DEF InHand
<1>14. CASE Dispatch
  <2>1. pc' \notin {"reserve", "backoff"}
    BY <1>14 DEF Dispatch
  <2> QED BY <2>1 DEF InHand
<1>15. CASE LoopEnds
  <2>1. pc' \notin {"reserve", "backoff"}
    BY <1>15 DEF LoopEnds
  <2> QED BY <2>1 DEF InHand
<1>16. CASE TickEnds
  <2>1. pc' \notin {"reserve", "backoff"}
    BY <1>16 DEF TickEnds
  <2> QED BY <2>1 DEF InHand
<1>17. ASSUME NEW a \in Agent, SessionReady(a)
      PROVE  InHand'
  <2>1. pc' \notin {"reserve", "backoff"}
    BY <1>17 DEF SessionReady, Polling, supVars
  <2> QED BY <2>1 DEF InHand
<1>18. ASSUME NEW a \in Agent, SessionFails(a)
      PROVE  InHand'
  <2>1. pc' \notin {"reserve", "backoff"}
    BY <1>18 DEF SessionFails, Polling, supVars
  <2> QED BY <2>1 DEF InHand
<1>19. ASSUME NEW a \in Agent, NEW m \in Mail, NEW b \in Agent, FileSend(a, m, b)
      PROVE  InHand'
  <2>1. pc' \notin {"reserve", "backoff"}
    BY <1>19 DEF FileSend, Places, supVars
  <2> QED BY <2>1 DEF InHand
<1>20. ASSUME NEW a \in Agent, NEW k \in Ask, FileAsk(a, k)
      PROVE  InHand'
  <2>1. pc' \notin {"reserve", "backoff"}
    BY <1>20 DEF FileAsk, Places, supVars
  <2> QED BY <2>1 DEF InHand
<1>21. ASSUME NEW a \in Agent, NEW outcome \in Outcome, Settle(a, outcome)
      PROVE  InHand'
  <2>1. pc' \notin {"reserve", "backoff"}
    BY <1>21 DEF Settle, Places
  <2> QED BY <2>1 DEF InHand
<1>22. CASE Crash
  <2>1. pc' \notin {"reserve", "backoff"}
    BY <1>22 DEF Crash
  <2> QED BY <2>1 DEF InHand
<1>23. ASSUME NEW a \in Agent, NEW m \in Mail, HumanMessage(a, m)
      PROVE  InHand'
  <2>1. /\ DeliverAndWake(m, a, "human", "human") /\ UNCHANGED <<ask, pc, cur>>
        /\ ~(pc = "backoff" /\ cur = a)
    BY <1>23 DEF HumanMessage, Reachable, supVars
  <2>2. pc = "reserve" =>
          cur \in Agent /\ (reason'[cur] = reason[cur] \/ reason'[cur] = "human")
    <3>1. CASE status[a] = "ACTIVE"
      BY <2>1, <3>1, BumpColumns DEF DeliverAndWake, Selection
    <3>2. CASE status[a] # "ACTIVE"
      BY <2>1, <3>2 DEF DeliverAndWake, agentVars, Selection
    <3> QED BY <3>1, <3>2
  <2>3. pc = "backoff" =>
          \A n \in Mail : mail[n].to = cur \/ mail'[n].to = cur => mail'[n] = mail[n]
    <3>1. mail[m] \in MailRow /\ mail[m].state = "unsent"
      BY <2>1, DeliveredRows DEF TypeOK
    <3>2. mail[m].to = Unassigned
      BY <3>1 DEF MailRow
    <3>3. pc = "backoff" => mail[m].to # cur
      BY <3>2, ConstantsAssumption DEF Selection
    <3> QED BY <2>1, <3>3, DeliveredRows
  <2> QED BY <2>1, <2>2, <2>3 DEF InHand, AnsweredSince, Pending, Inbox, Owed
<1>24. ASSUME NEW a \in Agent, NEW k \in Ask, Promote(a, k)
      PROVE  InHand'
  <2>1. FileQuestion(k, a) /\ UNCHANGED <<reason, mail, pc, cur>>
    BY <1>24 DEF Promote, agentVars, supVars
  <2> QED BY <2>1, FiledQuestion DEF InHand, AnsweredSince, Pending, Inbox, Owed
<1>25. ASSUME NEW k \in Ask, Answer(k)
      PROVE  InHand'
  <2>1. /\ BumpWake(ask[k].of, "human") /\ UNCHANGED <<mail, pc, cur>>
        /\ ~(pc = "backoff" /\ cur = ask[k].of)
    BY <1>25 DEF Answer, Answerable, Reachable, supVars
  <2>2. /\ ask[k].of \in Agent /\ ask'[k].of = ask[k].of
        /\ \A q \in Ask : q # k => ask'[q] = ask[q]
    BY <1>25, DecidedRows
  <2>3. pc = "reserve" => IF cur = ask[k].of THEN reason'[cur] = "human"
                          ELSE reason'[cur] = reason[cur]
    BY <2>1, <2>2, BumpColumns DEF Selection
  <2> QED BY <2>1, <2>2, <2>3 DEF InHand, AnsweredSince, Pending, Inbox, Owed
<1>26. ASSUME NEW k \in Ask, CancelAsk(k)
      PROVE  InHand'
  <2>1. /\ UNCHANGED <<mail, pc, cur>>
        /\ ask[k].of \in Agent /\ \A q \in Ask : q # k => ask'[q] = ask[q]
    BY <1>26, DecidedRows DEF CancelAsk, supVars
  <2>2. ask'[k].state = "CANCELLED"
    <3>1. /\ ask[k] \in AskRow
          /\ ask'[k] = [ask[k] EXCEPT !.state = "CANCELLED", !.when = "during"]
      BY <1>26 DEF CancelAsk, TypeOK
    <3> QED BY <3>1, AskColumns
  <2>3. pc = "reserve" => reason'[cur] = "human" \/ reason'[cur] = reason[cur]
    <3>1. CASE status[ask[k].of] = "ACTIVE"
      BY <1>26, <2>1, <3>1, BumpColumns DEF CancelAsk, Selection
    <3>2. CASE status[ask[k].of] # "ACTIVE"
      BY <1>26, <3>2 DEF CancelAsk, agentVars
    <3> QED BY <3>1, <3>2
  <2> QED BY <2>1, <2>2, <2>3 DEF InHand, AnsweredSince, Pending, Inbox, Owed
<1>27. ASSUME NEW a \in Agent, Activate(a)
      PROVE  InHand'
  <2>1. SetAgent(a, "ACTIVE", Wake("now", "human")) /\ UNCHANGED <<mail, ask, pc, cur>>
    BY <1>27 DEF Activate, supVars
  <2>2. pc = "reserve" => reason'[cur] = "human" \/ reason'[cur] = reason[cur]
    BY <2>1, SetColumns DEF Wake, Selection
  <2> QED BY <2>1, <2>2 DEF InHand, AnsweredSince, Pending, Inbox, Owed
<1>28. ASSUME NEW a \in Agent, PauseAgent(a)
      PROVE  InHand'
  <2>1. /\ SetAgent(a, "PAUSED", Wake("never", reason[a]))
        /\ UNCHANGED <<mail, ask, pc, cur>>
    BY <1>28 DEF PauseAgent, supVars
  <2>2. pc = "reserve" => reason'[cur] = reason[cur]
    BY <2>1, SetColumns DEF Wake, Selection
  <2> QED BY <2>1, <2>2 DEF InHand, AnsweredSince, Pending, Inbox, Owed
<1>29. CASE UNCHANGED vars
  BY <1>1, <1>29 DEF vars, agentVars, runVars, supVars
<1> QED BY <1>2, <1>3, <1>4, <1>5, <1>6, <1>7, <1>8, <1>9, <1>10, <1>11, <1>12, <1>13,
           <1>14, <1>15, <1>16, <1>17, <1>18, <1>19, <1>20, <1>21, <1>22, <1>23, <1>24,
           <1>25, <1>26, <1>27, <1>28, <1>29
        DEF Next, Reconciling, Ticking, Settling, Filing, Pane, Server, Clock

(* Derive calls an agent quiet only if nothing will wake it.                *)
LEMMA QuietAgents ==
  ASSUME TypeOK, \A a \in Agent : Quiet(a)
  PROVE  QuietHasNothing
<1> SUFFICES ASSUME NEW a \in Agent, Derive(a) \in {"WAITING_EVENT", "MANUAL", "BLOCKED"}
             PROVE  status[a] = "ACTIVE" /\ turn[a] = "none" /\ due[a] = "never"
  BY DEF QuietHasNothing, Unread, Quiet
<1>1. status[a] \in Status /\ due[a] \in Due
  BY DEF TypeOK
<1>2. CASE status[a] # "ACTIVE"
  BY <1>1, <1>2 DEF Derive, Status
<1>3. CASE status[a] = "ACTIVE" /\ turn[a] # "none"
  BY <1>3 DEF Derive
<1>4. CASE status[a] = "ACTIVE" /\ turn[a] = "none"
  <2> DEFINE shown == CASE LaneShut(a)                       -> "WAITING_RESOURCE"
                        [] ~LaneShut(a) /\ due[a] = "now"   -> "DUE"
                        [] ~LaneShut(a) /\ due[a] = "later" -> "SCHEDULED"
                        [] ~LaneShut(a) /\ due[a] = "never" ->
                             IF reason[a] = "human" THEN "BLOCKED"
                             ELSE IF Policy[a] = "manual" THEN "MANUAL" ELSE "WAITING_EVENT"
  <2>1. Derive(a) = shown
    BY <1>4 DEF Derive
  <2>2. due[a] # "never" => shown \in {"WAITING_RESOURCE", "DUE", "SCHEDULED"}
    BY <1>1 DEF Due
  <2> QED BY <1>4, <2>1, <2>2
<1> QED BY <1>2, <1>3, <1>4

-----------------------------------------------------------------------------
(* The mailboxes keep the promise of Delivery *)

(* A row as Delivery sees it.                                               *)
Shown(row) == [stage |-> Stage(row), human |-> row.kind = "human", tries |-> row.attempts]

(* Every row is shown as a letter.                                          *)
LEMMA ShownType ==
  \A row \in MailRow : Shown(row) \in D!Letter
<1> SUFFICES ASSUME NEW row \in MailRow PROVE Shown(row) \in D!Letter
  OBVIOUS
<1>1. row.attempts \in 0..MaxAttempts
  <2>1. CASE row.state = "unsent"
    <3>1. row.attempts = 0
      BY <2>1 DEF MailRow
    <3> QED BY <3>1 DEF MaxAttempts
  <2>2. CASE row.state # "unsent"
    BY <2>2 DEF MailRow
  <2> QED BY <2>1, <2>2
<1>2. row.state \in {"unsent", "QUEUED", "LEASED", "ACKED", "DEAD"}
  BY DEF MailRow
<1>3. Stage(row) \in {"unsent", "owed", "handed", "done", "parked"}
  BY <1>2 DEF Stage
<1> QED BY <1>1, <1>3 DEF Shown, D!Letter

(* The stage of each row, without the other cases.                          *)
LEMMA StageOf ==
  ASSUME NEW row
  PROVE  /\ row.state = "unsent" => Stage(row) = "unsent"
         /\ row.state = "ACKED" => Stage(row) = "done"
         /\ row.state = "DEAD" => Stage(row) = "parked"
         /\ row.state \in {"QUEUED", "LEASED"} =>
              Stage(row) = IF row.read THEN "handed" ELSE "owed"
BY DEF Stage

(* The ways a row may change, each a move of Delivery or none.              *)
LEMMA LetterMoves ==
  ASSUME TypeOK, TypeOK', NEW m \in Mail,
         \/ mail'[m] = mail[m]
         \/ /\ mail[m].state = "unsent" /\ mail'[m].state = "QUEUED"
            /\ ~mail'[m].read /\ mail'[m].attempts = mail[m].attempts
         \/ /\ mail[m].state \in {"QUEUED", "LEASED"} /\ mail'[m].state = "LEASED"
            /\ mail'[m].kind = mail[m].kind /\ mail'[m].read = mail[m].read
            /\ mail'[m].attempts = IF mail[m].attempts < MaxAttempts
                                   THEN mail[m].attempts + 1 ELSE mail[m].attempts
         \/ /\ mail[m].state = "LEASED" /\ mail'[m].kind = mail[m].kind
            /\ mail'[m].attempts = mail[m].attempts
            /\ \/ mail'[m].state = "LEASED" /\ mail[m].attempts > 0 /\ mail'[m].read
               \/ /\ mail'[m].read = mail[m].read
                  /\ \/ mail'[m].state = "QUEUED"
                     \/ mail'[m].state = "ACKED" /\ mail[m].read
                     \/ mail'[m].state = "DEAD" /\ Spent(mail[m])
  PROVE  D!Step(m)
<1>1. Box[m] = Shown(mail[m]) /\ Box'[m] = Shown(mail'[m])
  BY DEF Box, Shown
<1>2. mail[m].attempts \in Nat /\ mail[m].attempts <= MaxAttempts
  BY AttemptTypes
<1>3. CASE mail'[m] = mail[m]
  BY <1>1, <1>3 DEF D!Step
<1>4. CASE /\ mail[m].state = "unsent" /\ mail'[m].state = "QUEUED"
           /\ ~mail'[m].read /\ mail'[m].attempts = mail[m].attempts
  <2>1. Stage(mail[m]) = "unsent" /\ Stage(mail'[m]) = "owed"
    BY <1>4, StageOf
  <2>2. Box[m].stage = "unsent"
    BY <1>1, <2>1 DEF Shown
  <2> DEFINE h == mail'[m].kind = "human"
  <2>3. Box'[m] = [Box[m] EXCEPT !.stage = "owed", !.human = h]
    <3> DEFINE r == [Box[m] EXCEPT !.stage = "owed", !.human = h]
    <3>1. Box[m] \in D!Letter /\ Box'[m] \in D!Letter
      BY <1>1, ShownType DEF TypeOK
    <3>2. h \in BOOLEAN
      OBVIOUS
    <3>3. Box'[m].stage = "owed" /\ Box'[m].human = h /\ Box'[m].tries = Box[m].tries
      BY <1>1, <1>4, <2>1 DEF Shown
    <3> HIDE DEF h
    <3>4. r \in D!Letter /\ r.stage = "owed" /\ r.human = h /\ r.tries = Box[m].tries
      BY <3>1, <3>2 DEF D!Letter
    <3> HIDE DEF r
    <3>5. Box'[m] = r
      BY <3>1, <3>3, <3>4 DEF D!Letter
    <3> QED BY <3>5 DEF r
  <2>4. D!Post(m)
    BY <2>2, <2>3 DEF D!Post
  <2> QED BY <2>4 DEF D!Step
<1>5. CASE /\ mail[m].state \in {"QUEUED", "LEASED"} /\ mail'[m].state = "LEASED"
           /\ mail'[m].kind = mail[m].kind /\ mail'[m].read = mail[m].read
           /\ mail'[m].attempts = IF mail[m].attempts < MaxAttempts
                                  THEN mail[m].attempts + 1 ELSE mail[m].attempts
  <2>1. Stage(mail'[m]) = Stage(mail[m]) /\ Stage(mail[m]) \in {"owed", "handed"}
    BY <1>5, StageOf
  <2>2. CASE mail[m].attempts < MaxAttempts
    <3>1. D!Outstanding(m) /\ Box[m].tries < MaxAttempts
      BY <1>1, <2>1, <2>2 DEF Shown, D!Outstanding
    <3>2. Box'[m] = [Box[m] EXCEPT !.tries = @ + 1]
      BY <1>1, <1>5, <2>1, <2>2 DEF Shown
    <3>3. D!Attempt(m)
      BY <3>1, <3>2 DEF D!Attempt
    <3> QED BY <3>3 DEF D!Step
  <2>3. CASE ~(mail[m].attempts < MaxAttempts)
    <3>1. Box'[m] = Box[m]
      BY <1>1, <1>5, <2>1, <2>3 DEF Shown
    <3> QED BY <3>1 DEF D!Step
  <2> QED BY <2>2, <2>3
<1>6. CASE /\ mail[m].state = "LEASED" /\ mail'[m].kind = mail[m].kind
           /\ mail'[m].attempts = mail[m].attempts
           /\ mail'[m].state = "LEASED" /\ mail[m].attempts > 0 /\ mail'[m].read
  <2>1. Stage(mail'[m]) = "handed"
    BY <1>6, StageOf
  <2>2. CASE mail[m].read
    <3>1. Stage(mail[m]) = "handed"
      BY <1>6, <2>2, StageOf
    <3>2. Box'[m] = Box[m]
      BY <1>1, <1>6, <2>1, <3>1 DEF Shown
    <3> QED BY <3>2 DEF D!Step
  <2>3. CASE ~mail[m].read
    <3>1. Stage(mail[m]) = "owed"
      BY <1>6, <2>3, StageOf
    <3>2. Box[m].stage = "owed" /\ Box[m].tries > 0
      BY <1>1, <1>6, <3>1 DEF Shown
    <3>3. Box'[m] = [Box[m] EXCEPT !.stage = "handed"]
      BY <1>1, <1>6, <2>1 DEF Shown
    <3>4. D!Hand(m)
      BY <3>2, <3>3 DEF D!Hand
    <3> QED BY <3>4 DEF D!Step
  <2> QED BY <2>2, <2>3
<1>7. CASE /\ mail[m].state = "LEASED" /\ mail'[m].kind = mail[m].kind
           /\ mail'[m].attempts = mail[m].attempts /\ mail'[m].read = mail[m].read
           /\ mail'[m].state = "QUEUED"
  <2>1. Stage(mail'[m]) = Stage(mail[m])
    BY <1>7, StageOf
  <2>2. Box'[m] = Box[m]
    BY <1>1, <1>7, <2>1 DEF Shown
  <2> QED BY <2>2 DEF D!Step
<1>8. CASE /\ mail[m].state = "LEASED" /\ mail'[m].kind = mail[m].kind
           /\ mail'[m].attempts = mail[m].attempts
           /\ mail'[m].state = "ACKED" /\ mail[m].read
  <2>1. Stage(mail[m]) = "handed" /\ Stage(mail'[m]) = "done"
    BY <1>8, StageOf
  <2>2. Box[m].stage = "handed" /\ Box'[m] = [Box[m] EXCEPT !.stage = "done"]
    BY <1>1, <1>8, <2>1 DEF Shown
  <2>3. D!Complete(m)
    BY <2>2 DEF D!Complete
  <2> QED BY <2>3 DEF D!Step
<1>9. CASE /\ mail[m].state = "LEASED" /\ mail'[m].kind = mail[m].kind
           /\ mail'[m].attempts = mail[m].attempts
           /\ mail'[m].state = "DEAD" /\ Spent(mail[m])
  <2>1. Stage(mail[m]) \in {"owed", "handed"} /\ Stage(mail'[m]) = "parked"
    BY <1>9, StageOf
  <2>2. mail[m].attempts = MaxAttempts /\ mail[m].kind # "human"
    BY <1>2, <1>9 DEF Spent, MaxAttempts
  <2>3. D!Outstanding(m) /\ ~Box[m].human /\ Box[m].tries = MaxAttempts
    <3>1. Box[m].stage = Stage(mail[m]) /\ Box[m].tries = mail[m].attempts
      BY <1>1 DEF Shown
    <3>2. Box[m].human = (mail[m].kind = "human")
      BY <1>1 DEF Shown
    <3>3. ~Box[m].human
      BY <2>2, <3>2
    <3> QED BY <2>1, <2>2, <3>1, <3>3 DEF D!Outstanding
  <2>4. Box'[m] = [Box[m] EXCEPT !.stage = "parked"]
    BY <1>1, <1>9, <2>1 DEF Shown
  <2>5. D!Park(m)
    BY <2>3, <2>4 DEF D!Park
  <2> QED BY <2>5 DEF D!Step
<1> QED BY <1>3, <1>4, <1>5, <1>6, <1>7, <1>8, <1>9

(* Every step of the fleet changes every row in one of these ways.          *)
(* Acknowledging needs MailRead: the row was handed to the turn. Parking    *)
(* needs the cap and a sender that is no human.                             *)
LEMMA LetterStep ==
  ASSUME TypeOK, TypeOK', Selection, LeasedHasLiveRun, Tried, MailRead, NEW m \in Mail,
         [Next]_vars
  PROVE  D!Step(m)
<1>1. UNCHANGED <<mail>> => D!Step(m)
  BY LetterMoves
<1>2. CASE Start \/ ReconcileDone \/ Select \/ BackoffWithoutRun \/ OpenRun \/
           PauseExhausted \/ LoopEnds \/ TickEnds \/ Crash
  BY <1>1, <1>2 DEF Start, ReconcileDone, Select, BackoffWithoutRun, OpenRun,
     PauseExhausted, LoopEnds, TickEnds, Crash, agentVars, runVars
<1>3. ASSUME NEW a \in Agent, Adopt(a) \/ Skip(a) \/ Precondition(a) \/ PaneDies(a) \/
             PollFails(a) \/ ReadExit(a) \/ Activate(a) \/ PauseAgent(a) \/
             RetireAgent(a) \/ ComesDue(a)
      PROVE  D!Step(m)
  BY <1>1, <1>3 DEF Adopt, Skip, Precondition, PaneDies, PollFails, ReadExit, Activate,
     PauseAgent, RetireAgent, ComesDue, agentVars, runVars, supVars
<1>4. ASSUME NEW a \in Agent, NEW r \in Result, PaneExits(a, r)
      PROVE  D!Step(m)
  BY <1>1, <1>4 DEF PaneExits, agentVars, supVars
<1>5. ASSUME NEW a \in Agent, NEW k \in Ask, FileAsk(a, k) \/ Promote(a, k)
      PROVE  D!Step(m)
  BY <1>1, <1>5 DEF FileAsk, Promote, agentVars, runVars, supVars
<1>6. ASSUME NEW k \in Ask, Answer(k) \/ CancelAsk(k)
      PROVE  D!Step(m)
  BY <1>1, <1>6 DEF Answer, CancelAsk, supVars
<1>7. ASSUME NEW l \in Lane, LaneReopens(l)
      PROVE  D!Step(m)
  BY <1>1, <1>7 DEF LaneReopens, agentVars, runVars, supVars
<1>8. ASSUME NEW a \in Agent, SettleLost(a)
      PROVE  D!Step(m)
  <2>1. Succeed(a, "RETRYABLE_ERROR", "none")
    BY <1>8 DEF SettleLost, Selection
  <2>2. ~Consumes("RETRYABLE_ERROR")
    BY <1>8 DEF Consumes
  <2>3. m \in Mine(a) => mail[m].state = "LEASED"
    BY DEF Mine, Inbox
  <2> QED BY <2>1, <2>2, <2>3, SettledRows, LetterMoves
<1>9. CASE BudgetExhausted
  <2>1. cur \in Agent /\ Succeed(cur, "NO_WORK", "none")
    BY <1>9 DEF BudgetExhausted, Selection
  <2>2. Mine(cur) = {}
    BY <1>9 DEF BudgetExhausted, Selection, LeasedHasLiveRun, Mine, Inbox
  <2>3. m \in Mine(cur) => mail[m].state = "LEASED"
    BY DEF Mine, Inbox
  <2> QED BY <2>1, <2>2, <2>3, SettledRows, LetterMoves
<1>10. CASE Dispatch
  <2>1. m \in Pending(cur) => mail[m].state \in {"QUEUED", "LEASED"}
    BY DEF Pending, Inbox
  <2> QED BY <1>10, <2>1, DispatchedRows, LetterMoves
<1>11. ASSUME NEW a \in Agent, SessionReady(a)
      PROVE  D!Step(m)
  <2>1. m \in Mine(a) => mail[m].state = "LEASED" /\ mail[m].attempts > 0
    BY DEF Mine, Inbox, Tried
  <2> QED BY <1>11, <2>1, ReadyRows, LetterMoves
<1>12. ASSUME NEW a \in Agent, SessionFails(a)
      PROVE  D!Step(m)
  <2>1. Succeed(a, "RETRYABLE_ERROR", "none")
    BY <1>12 DEF SessionFails, Selection
  <2>2. ~Consumes("RETRYABLE_ERROR")
    BY <1>12 DEF Consumes
  <2>3. m \in Mine(a) => mail[m].state = "LEASED"
    BY DEF Mine, Inbox
  <2> QED BY <2>1, <2>2, <2>3, SettledRows, LetterMoves
<1>13. ASSUME NEW a \in Agent, NEW n \in Mail, NEW b \in Agent, FileSend(a, n, b)
      PROVE  D!Step(m)
  <2>1. DeliverAndWake(n, b, "agent_to_agent", "event")
    BY <1>13 DEF FileSend
  <2>2. mail[n].state = "unsent" => ~mail[n].read
    BY DEF TypeOK, MailRow
  <2> QED BY <2>1, <2>2, DeliveredRows, LetterMoves
<1>14. ASSUME NEW a \in Agent, NEW outcome \in Outcome, Settle(a, outcome)
      PROVE  D!Step(m)
  <2>1. Succeed(a, outcome, IF outcome = "BLOCKED" THEN "waiting" ELSE "none")
    BY <1>14 DEF Settle, Selection
  <2>2. m \in Mine(a) => mail[m].read
    BY <1>14 DEF Settle, MailRead
  <2>3. m \in Mine(a) => mail[m].state = "LEASED"
    BY DEF Mine, Inbox
  <2> QED BY <2>1, <2>2, <2>3, SettledRows, LetterMoves
<1>15. ASSUME NEW a \in Agent, NEW n \in Mail, HumanMessage(a, n)
      PROVE  D!Step(m)
  <2>1. DeliverAndWake(n, a, "human", "human")
    BY <1>15 DEF HumanMessage
  <2>2. mail[n].state = "unsent" => ~mail[n].read
    BY DEF TypeOK, MailRow
  <2> QED BY <2>1, <2>2, DeliveredRows, LetterMoves
<1>16. CASE UNCHANGED vars
  BY <1>1, <1>16 DEF vars, agentVars, runVars, supVars
<1> QED BY <1>2, <1>3, <1>4, <1>5, <1>6, <1>7, <1>8, <1>9, <1>10, <1>11, <1>12, <1>13,
           <1>14, <1>15, <1>16
        DEF Next, Reconciling, Ticking, Settling, Filing, Pane, Server, Clock

(* So every step of the fleet is a step of Delivery or none at all.         *)
LEMMA BoxStep ==
  ASSUME TypeOK, TypeOK', Selection, LeasedHasLiveRun, Tried, MailRead, [Next]_vars
  PROVE  [D!Next]_Box
<1>1. \A m \in Mail : D!Step(m)
  BY LetterStep
<1>2. Box' = [m \in Mail |-> Shown(mail'[m])] /\ \A m \in Mail : mail'[m] \in MailRow
  BY DEF Box, Shown, TypeOK
<1>3. Box' \in [Mail -> D!Letter]
  BY <1>2, ShownType
<1> QED BY <1>1, <1>3 DEF D!Next

-----------------------------------------------------------------------------
(* The theorems *)

(* Both, for every agent.                                                   *)
Calm == \A c \in Agent : Quiet(c) /\ Noted(c)

(* Nothing is owed to anybody before the first step.                        *)
LEMMA PromisesInit ==
  ASSUME Init
  PROVE  /\ Places /\ Watching /\ Tried /\ MailRead /\ VerdictRead
         /\ Reported /\ WaitingHasQuestion /\ Idle
         /\ Answered /\ InHand /\ Calm
<1>1. /\ \A a \in Agent : turn[a] = "none"
      /\ \A m \in Mail : mail[m].state = "unsent"
      /\ \A k \in Ask : ask[k].state = "unfiled" /\ ~ask[k].consumed
      /\ pc = "down"
  BY DEF Init
<1>2. Places /\ Watching /\ Tried
  BY <1>1 DEF Places, Watching, Tried
<1>3. MailRead /\ VerdictRead
  BY <1>1 DEF MailRead, AckedWasRead, VerdictRead, ConsumedWasRead
<1>4. Reported /\ WaitingHasQuestion
  BY <1>1 DEF Reported, WaitingHasQuestion
<1>5. Idle
  <2>1. \A a \in Agent : reason[a] # "human"
    BY DEF Init
  <2> QED BY <2>1 DEF Idle
<1>6. \A a \in Agent : Pending(a) = {} /\ Owed(a) = {}
  BY <1>1 DEF Pending, Inbox, Owed
<1>7. Answered /\ InHand
  BY <1>1 DEF Answered, InHand
<1>8. Calm
  BY <1>1, <1>6 DEF Calm, Quiet, Noted
<1> QED BY <1>2, <1>3, <1>4, <1>5, <1>7, <1>8

(* What acknowledging mail rests on, as one invariant.                      *)
LEMMA ReadInvariant ==
  ASSUME "session" \notin Hazards
  PROVE  Spec => [](Watching /\ Tried /\ MailRead)
<1>1. Init => Watching /\ Tried /\ MailRead
  BY PromisesInit
<1>2. /\ TypeOK /\ Selection /\ LeasedHasLiveRun /\ (Watching /\ Tried /\ MailRead)
      /\ [Next]_vars
      => (Watching /\ Tried /\ MailRead)'
  BY WatchingStep, TriedStep, MailReadStep
<1> QED BY <1>1, <1>2, TypeCorrect, LeasesNeverStranded, PTL DEF Spec

(* Mail that is acknowledged was in the capsule of a prompt that ran, in    *)
(* every fleet whose supervisor does not die while ensureSession's job is   *)
(* recorded; the other interferences are allowed.                           *)
THEOREM AcksAreHonest ==
  "session" \notin Hazards => (Spec => []AckedWasRead)
<1> SUFFICES ASSUME "session" \notin Hazards PROVE Spec => []AckedWasRead
  OBVIOUS
<1>1. MailRead => AckedWasRead
  BY DEF MailRead
<1> QED BY <1>1, ReadInvariant, PTL

(* Under the same hypothesis the mailboxes implement Delivery: each step    *)
(* of the fleet moves every letter as Delivery allows, so a letter is       *)
(* retired only by a turn that was handed it and parked only at the cap,    *)
(* never when a human wrote it.                                             *)
THEOREM MailIsDelivered ==
  "session" \notin Hazards => (Spec => AtLeastOnce)
<1> SUFFICES ASSUME "session" \notin Hazards PROVE Spec => AtLeastOnce
  OBVIOUS
<1>1. Init => D!Init
  <2> SUFFICES ASSUME Init PROVE D!Init
    OBVIOUS
  <2>1. ASSUME NEW m \in Mail
        PROVE  /\ Stage(mail[m]) = "unsent" /\ (mail[m].kind = "human") = TRUE
               /\ mail[m].attempts = 0
    <3>1. mail[m].state = "unsent" /\ mail[m].kind = "human" /\ mail[m].attempts = 0
      BY DEF Init
    <3> QED BY <3>1, StageOf
  <2> QED BY <2>1 DEF D!Init, Box
<1>2. /\ TypeOK /\ Selection /\ TypeOK' /\ LeasedHasLiveRun
      /\ (Watching /\ Tried /\ MailRead) /\ [Next]_vars
      => [D!Next]_Box
  BY BoxStep
<1> QED BY <1>1, <1>2, TypeCorrect, LeasesNeverStranded, ReadInvariant, PTL
        DEF Spec, AtLeastOnce, D!Spec

(* A verdict that is consumed was in the capsule of a prompt that ran, if   *)
(* in addition the daily budget refuses no run; a run that it refuses       *)
(* consumes what nobody read.                                               *)
THEOREM VerdictsAreRead ==
  {"session", "budget"} \cap Hazards = {} => (Spec => []ConsumedWasRead)
<1> SUFFICES ASSUME {"session", "budget"} \cap Hazards = {} PROVE Spec => []ConsumedWasRead
  OBVIOUS
<1>1. Init => Watching /\ VerdictRead
  BY PromisesInit
<1>2. TypeOK /\ Selection /\ (Watching /\ VerdictRead) /\ [Next]_vars
        => (Watching /\ VerdictRead)'
  BY WatchingStep, VerdictReadStep
<1>3. VerdictRead => ConsumedWasRead
  BY DEF VerdictRead
<1> QED BY <1>1, <1>2, <1>3, TypeCorrect, PTL DEF Spec

(* A run that waits for a human has a question the human can answer, if no  *)
(* verdict comes between the turn's question and its settle and no turn     *)
(* says BLOCKED without asking; crashes, lost sessions and refused runs     *)
(* are allowed.                                                             *)
THEOREM WaitersAreAsking ==
  {"verdict", "unasked"} \cap Hazards = {} => (Spec => []WaitingHasQuestion)
<1> SUFFICES ASSUME {"verdict", "unasked"} \cap Hazards = {} PROVE Spec => []WaitingHasQuestion
  OBVIOUS
<1>1. Init => Reported /\ WaitingHasQuestion
  BY PromisesInit
<1>2. TypeOK /\ Selection /\ (Reported /\ WaitingHasQuestion) /\ [Next]_vars
        => (Reported /\ WaitingHasQuestion)'
  BY ReportedStep, WaitingHasQuestionStep
<1> QED BY <1>1, <1>2, TypeCorrect, PTL DEF Spec

(* Under the same hypothesis the badge of an agent always has a question    *)
(* of that agent behind it.                                                 *)
THEOREM BadgesAreAnswerable ==
  {"verdict", "unasked"} \cap Hazards = {} => (Spec => []BadgeHasQuestion)
<1> SUFFICES ASSUME {"verdict", "unasked"} \cap Hazards = {} PROVE Spec => []BadgeHasQuestion
  OBVIOUS
<1>1. Init => Idle
  BY PromisesInit
<1>2. TypeOK /\ Selection /\ Idle /\ [Next]_vars => Idle'
  BY IdleStep
<1>3. TypeOK /\ Idle /\ WaitingHasQuestion => BadgeHasQuestion
  BY BadgesPoint
<1> QED BY <1>1, <1>2, <1>3, TypeCorrect, WaitersAreAsking, PTL DEF Spec

(* An agent that is shown to wait for an event, for somebody to start it    *)
(* or for a human has no unread mail and no verdict it was not told,        *)
(* unless the server commits between a tick's look at the agent and its     *)
(* backing off; every other interference is allowed.                        *)
THEOREM QuietMeansNothingWaits ==
  "backoff" \notin Hazards => (Spec => []QuietHasNothing)
<1> SUFFICES ASSUME "backoff" \notin Hazards PROVE Spec => []QuietHasNothing
  OBVIOUS
<1>1. Init => Places /\ Answered /\ InHand /\ Calm
  BY PromisesInit
<1>2. /\ TypeOK /\ Selection /\ (Places /\ Answered /\ InHand /\ Calm) /\ [Next]_vars
      => (Places /\ Answered /\ InHand /\ Calm)'
  BY PlacesStep, AnsweredStep, InHandStep, CalmStep DEF Calm
<1>3. TypeOK /\ Calm => QuietHasNothing
  BY QuietAgents DEF Calm
<1> QED BY <1>1, <1>2, <1>3, TypeCorrect, PTL DEF Spec
=============================================================================
