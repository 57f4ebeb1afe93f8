----------------------------- MODULE TurnProofs -----------------------------
(***************************************************************************)
(* Proofs about Turn, for every number of runs and lines.  What needs no   *)
(* assumption on the interference is one invariant, TurnInv: where the     *)
(* supervisor can be and which job it records (Control), what the files    *)
(* and processes of a job can look like together (Jobs), and what was      *)
(* written, read and filed (Copies, Held, Told).  Filling, Truth, Unacted  *)
(* and Noticed each add what rests on an interference staying away.        *)
(***************************************************************************)
EXTENDS Turn, TLAPS

(* Where the supervisor can be, and which job the run in hand records.      *)
Control ==
  /\ at # NoJob => at[1] = no /\ dir[at] # "absent"
  /\ open \/ Watched \/ sup = "finalise" => open /\ no \in Run
  /\ \A j \in Job : dir[j] = "here" => open /\ at = j
  /\ \A j \in Job : dir[j] # "absent" =>
       j[1] < no \/ (j[1] = no /\ at # NoJob /\ (j[2] = "prompt" => at = j))
  /\ sup \in {"type", "watch"} => HasDir /\ at = <<no, want>>
  /\ sup = "type" => wrapper[at] = "none"
  /\ sup = "launch" => \/ want = "ensure" /\ at = NoJob
                       \/ want = "prompt" /\ at = <<no, "ensure">> /\ dir[at] = "removed"
  /\ sup \in {"apply", "settle"} => ~HasDir /\ result # "none"
  /\ sup = "apply" \/ (sup = "settle" /\ result = "ok") => at = Prompt(no)
  /\ sup = "finalise" => HasDir /\ Exited(at) /\ result # "none"

(* What the processes and the files of a job can look like together.        *)
JobOK(j) ==
  /\ dir[j] = "absent" => wrapper[j] = "none"
  /\ dir[j] # "here" => beat[j] = "none" /\ exit[j] = "absent" /\ flushed[j] = 0
  /\ wrapper[j] \in {"none", "typed"} => harness[j] = "none"
  /\ wrapper[j] \in {"none", "typed", "spawning"} =>
       beat[j] = "none" /\ exit[j] = "absent" /\ said[j] = 0
  /\ harness[j] = "none" \/ j[2] = "ensure" => said[j] = 0
  /\ code[j] # "none" <=> harness[j] = "ended"
  /\ wrapper[j] = "closing" => harness[j] = "ended"
  /\ flushed[j] <= said[j]
  /\ Exited(j) => /\ wrapper[j] \in {"closing", "gone"} /\ harness[j] = "ended"
                  /\ flushed[j] = said[j]
                  /\ exit[j] # "empty" => exit[j] = code[j] /\ wrapper[j] = "gone"

Jobs == \A j \in Job : JobOK(j)

(* The two halves of TypeOK.                                                *)
StoreTypes ==
  /\ no \in 0..MaxRuns /\ open \in BOOLEAN /\ at \in Job \cup {NoJob}
  /\ outcome \in [Run -> {"none", "ok", "bad", "retry"}]
  /\ filed \in [Run -> [1..MaxLines -> Nat]] /\ sent \in [Run -> Nat]
  /\ sup \in {"down", "reconcile", "finalise", "tick", "launch", "type", "watch",
              "apply", "settle"}
  /\ want \in {"ensure", "prompt"}
  /\ text \in 0..MaxLines /\ result \in {"none", "ok", "bad"}

JobTypes ==
  /\ dir \in [Job -> {"absent", "here", "removed"}]
  /\ beat \in [Job -> {"none", "fresh", "stale"}]
  /\ exit \in [Job -> {"absent", "empty", "ok", "bad"}]
  /\ flushed \in [Job -> 0..MaxLines]
  /\ wrapper \in [Job -> {"none", "typed", "spawning", "up", "closing", "gone"}]
  /\ harness \in [Job -> {"none", "queued", "working", "ended"}]
  /\ said \in [Job -> 0..MaxLines] /\ code \in [Job -> {"none", "ok", "bad"}]
  /\ termed \subseteq Job

(* TypeOK is proved in these halves: the provers choke on the whole.        *)
LEMMA Halves == TypeOK <=> StoreTypes /\ JobTypes
BY DEF TypeOK, StoreTypes, JobTypes

(* Job is a set of pairs, which the provers have to be told.                *)
LEMMA JobFacts ==
  /\ NoJob \notin Job
  /\ \A j \in Job : j[1] \in Run /\ j[2] \in {"ensure", "prompt"} /\ j = <<j[1], j[2]>>
  /\ \A r \in Run, w \in {"ensure", "prompt"} : <<r, w>> \in Job
  /\ Run \subseteq Nat /\ 0 \notin Run
BY ConstantsAssumption DEF Job, Run, NoJob, Prompt

(* Filing, sending, removing a job's directory and killing its processes    *)
(* each keep the types of what they write.                                  *)
LEMMA FiledTypes ==
  ASSUME filed \in [Run -> [1..MaxLines -> Nat]], NEW n, FileReports(n)
  PROVE  filed' \in [Run -> [1..MaxLines -> Nat]]
<1>1. \A f \in [1..MaxLines -> Nat] :
        [l \in 1..MaxLines |-> IF l > n \/ Already(f[l]) THEN f[l] ELSE f[l] + 1]
          \in [1..MaxLines -> Nat]
  OBVIOUS
<1>2. no \in Run => [l \in 1..MaxLines |-> IF l > n \/ Already(filed[no][l])
                       THEN filed[no][l] ELSE filed[no][l] + 1] \in [1..MaxLines -> Nat]
  BY <1>1
<1> QED BY <1>2 DEF FileReports

LEMMA SentTypes ==
  ASSUME sent \in [Run -> Nat], no \in Run, NEW res, FileSends(res)
  PROVE  sent' \in [Run -> Nat]
BY DEF FileSends

LEMMA RemovedTypes ==
  ASSUME JobTypes, NEW j \in Job, RemoveDir(j)
  PROVE  /\ dir' \in [Job -> {"absent", "here", "removed"}]
         /\ beat' \in [Job -> {"none", "fresh", "stale"}]
         /\ exit' \in [Job -> {"absent", "empty", "ok", "bad"}]
         /\ flushed' \in [Job -> 0..MaxLines]
BY ConstantsAssumption DEF JobTypes, RemoveDir

LEMMA KilledTypes ==
  ASSUME JobTypes, NEW j \in Job, KillTurn(j)
  PROVE  termed' \subseteq Job
BY DEF JobTypes, KillTurn

(* What is launched is the next job of the run in hand, and a new one.      *)
LEMMA Launched ==
  ASSUME StoreTypes, JobTypes, Control, Launch
  PROVE  /\ open /\ no \in Run /\ at' = <<no, want>>
         /\ at' \in Job /\ at' # NoJob /\ at' # at
         /\ dir'[at'] = "here" /\ dir[at'] = "absent"
         /\ \A j \in Job : dir[j] # "here"
         /\ \A j \in Job : j # at' => dir'[j] = dir[j]
         /\ \A j \in Job : dir[j] # "absent" => j[1] < no \/ j = <<no, "ensure">>
<1>1. open /\ no \in Run /\ at' = <<no, want>>
  BY DEF Launch, Control, Watched
<1>2. want \in {"ensure", "prompt"}
  BY DEF StoreTypes
<1>3. at' \in Job /\ at' # NoJob
  BY <1>1, <1>2, JobFacts
<1>4. dir' = [dir EXCEPT ![at'] = "here"]
  BY DEF Launch
<1>5. dir'[at'] = "here" /\ \A j \in Job : j # at' => dir'[j] = dir[j]
  BY <1>3, <1>4 DEF JobTypes
<1>6. at # at'
  BY <1>1, <1>3 DEF Launch, Control
<1>7. \A j \in Job : dir[j] # "here"
  BY JobFacts DEF Launch, Control
<1>8. dir[at'] = "absent"
  BY <1>1, <1>3, <1>6, <1>7, JobFacts DEF Launch, Control, Prompt
<1>9. \A j \in Job : dir[j] # "absent" => j[1] < no \/ j = <<no, "ensure">>
  BY JobFacts DEF Launch, Control, Prompt
<1> QED BY <1>1, <1>3, <1>5, <1>6, <1>7, <1>8, <1>9

(* The tables of the store and what the supervisor holds keep their types.  *)
LEMMA StoreTypesStep ==
  ASSUME StoreTypes, JobTypes, Control, [Next]_vars
  PROVE  StoreTypes'
<1>1. UNCHANGED <<storeVars, supVars>> => StoreTypes'
  BY DEF StoreTypes, storeVars, supVars
<1>2. CASE KillOrphan
  BY <1>1, <1>2 DEF KillOrphan, storeVars, supVars
<1>3. ASSUME NEW j \in Job,
             WrapperStarts(j) \/ WrapperPublishes(j) \/ Flush(j) \/
             WrapperCloses(j) \/ ExitCreated(j) \/ WrapperExits(j) \/
             HarnessWorks(j) \/ HarnessSays(j) \/ WrapperDies(j) \/ Beat(j) \/
             BeatAges(j) \/ (\E c \in {"ok", "bad"} : HarnessEnds(j, c))
      PROVE  StoreTypes'
  BY <1>1, <1>3 DEF WrapperStarts, WrapperPublishes, Flush, WrapperCloses, ExitCreated,
     WrapperExits, HarnessWorks, HarnessSays, WrapperDies, Beat, BeatAges, HarnessEnds,
     storeVars, supVars, fileVars, procVars
<1>4. CASE Start
  BY <1>4 DEF Start, storeVars, fileVars, procVars, StoreTypes
<1>5. CASE NothingOpen
  BY <1>5 DEF NothingOpen, storeVars, fileVars, procVars, StoreTypes
<1>6. CASE SettleLost
  BY <1>6 DEF SettleLost, fileVars, procVars, HasDir, SettleRun, StoreTypes, Control
<1>7. CASE Finalise
  BY <1>7, FiledTypes, SentTypes DEF Finalise, fileVars, procVars, HasDir, Exited,
     ReadCode, Recorded, StoreTypes, JobTypes, Control, Watched
<1>8. CASE Finalised
  BY <1>8 DEF Finalised, procVars, SettleRun, StoreTypes, Control
<1>9. CASE Adopt
  BY <1>9, FiledTypes DEF Adopt, fileVars, procVars, StoreTypes
<1>10. CASE OpenRun
  BY <1>10, ConstantsAssumption DEF OpenRun, fileVars, procVars, StoreTypes, Run
<1>11. CASE TickEnds
  BY <1>11 DEF TickEnds, storeVars, fileVars, procVars, StoreTypes
<1>12. CASE Launch
  BY <1>12, JobFacts DEF Launch, procVars, StoreTypes, Control, Watched
<1>13. CASE LaunchFails
  BY <1>13, ConstantsAssumption DEF LaunchFails, storeVars, fileVars, procVars,
     StoreTypes
<1>14. CASE SendKeys
  BY <1>14 DEF SendKeys, storeVars, fileVars, StoreTypes
<1>15. CASE PollTail
  BY <1>15, FiledTypes DEF PollTail, supVars, fileVars, procVars, StoreTypes
<1>16. CASE PollExit
  <2>1. ReadCode(at) \in {"ok", "bad"} /\ at \in Job
    BY <1>16 DEF PollExit, Exited, ReadCode, StoreTypes, JobTypes, Control, HasDir
  <2>2. flushed[at] \in 0..MaxLines
    BY <2>1 DEF JobTypes
  <2> QED BY <1>16, <2>1, <2>2, ConstantsAssumption DEF PollExit, StoreTypes, storeVars
<1>17. CASE PollFails
  BY <1>17, ConstantsAssumption DEF PollFails, storeVars, StoreTypes
<1>18. CASE Apply
  BY <1>18, FiledTypes, SentTypes DEF Apply, fileVars, procVars, StoreTypes, JobTypes,
     Control, Watched
<1>19. CASE Settle
  <2>1. result \in {"ok", "bad"}
    BY <1>19 DEF Settle, StoreTypes, Control
  <2>2. outcome' \in [Run -> {"none", "ok", "bad", "retry"}] /\ open' \in BOOLEAN
    BY <1>19, <2>1 DEF Settle, SettleRun, StoreTypes
  <2>3. text' \in 0..MaxLines
    BY <1>19, ConstantsAssumption DEF Settle
  <2>4. UNCHANGED <<no, at, filed, sent, want>> /\ sup' = "tick" /\ result' = "none"
    BY <1>19 DEF Settle
  <2> QED BY <2>2, <2>3, <2>4 DEF StoreTypes
<1>20. CASE Crash
  BY <1>20, ConstantsAssumption DEF Crash, storeVars, fileVars, procVars, StoreTypes
<1>21. CASE UNCHANGED vars
  BY <1>1, <1>21 DEF vars, storeVars, supVars, fileVars, procVars
<1> QED BY <1>2, <1>3, <1>4, <1>5, <1>6, <1>7, <1>8, <1>9, <1>10, <1>11, <1>12, <1>13,
       <1>14, <1>15, <1>16, <1>17, <1>18, <1>19, <1>20, <1>21
       DEF Next, Reconciling, Dispatching, Wrapping, Working

(* The files and the processes of every job keep their types.               *)
LEMMA JobTypesStep ==
  ASSUME StoreTypes, JobTypes, Control, Jobs, [Next]_vars
  PROVE  JobTypes'
<1>1. UNCHANGED <<fileVars, procVars>> => JobTypes'
  BY DEF JobTypes, fileVars, procVars
<1>2. CASE Start \/ NothingOpen \/ SettleLost \/ Finalise \/ Adopt \/ OpenRun \/
           TickEnds \/ LaunchFails \/ PollTail \/ Apply \/ Settle \/ Crash
  BY <1>1, <1>2 DEF Start, NothingOpen, SettleLost, Finalise, Adopt, OpenRun, TickEnds,
     LaunchFails, PollTail, Apply, Settle, Crash, storeVars, supVars, fileVars, procVars
<1>3. CASE Finalised
  <2>1. at \in Job
    BY <1>3 DEF Finalised, HasDir, StoreTypes, Control
  <2> QED BY <1>3, <2>1, RemovedTypes DEF Finalised, JobTypes, procVars
<1>4. CASE KillOrphan
  <2>1. at \in Job
    BY <1>4 DEF KillOrphan, Recorded, HasDir, StoreTypes, Control
  <2> QED BY <1>4, <2>1, RemovedTypes, KilledTypes DEF KillOrphan, JobTypes
<1>5. CASE Launch
  BY <1>5, JobFacts DEF Launch, procVars, JobTypes, StoreTypes, Control, Watched
<1>6. CASE SendKeys
  BY <1>6, ConstantsAssumption DEF SendKeys, storeVars, fileVars, JobTypes, StoreTypes,
     Control
<1>7. CASE PollExit
  <2>1. at \in Job
    BY <1>7 DEF PollExit, HasDir, StoreTypes, Control
  <2> QED BY <1>7, <2>1, RemovedTypes DEF PollExit, JobTypes, procVars
<1>8. CASE PollFails
  <2>1. at \in Job
    BY <1>8 DEF PollFails, HasDir, StoreTypes, Control
  <2> QED BY <1>8, <2>1, RemovedTypes, KilledTypes DEF PollFails, JobTypes
<1>9. ASSUME NEW j \in Job, WrapperStarts(j) PROVE JobTypes'
  BY <1>9 DEF WrapperStarts, storeVars, supVars, fileVars, JobTypes
<1>10. ASSUME NEW j \in Job, WrapperPublishes(j) PROVE JobTypes'
  BY <1>10 DEF WrapperPublishes, storeVars, supVars, Writes, JobTypes
<1>11. ASSUME NEW j \in Job, Flush(j) PROVE JobTypes'
  BY <1>11 DEF Flush, storeVars, supVars, procVars, JobTypes
<1>12. ASSUME NEW j \in Job, WrapperCloses(j) PROVE JobTypes'
  BY <1>12 DEF WrapperCloses, storeVars, supVars, Writes, JobTypes
<1>13. ASSUME NEW j \in Job, ExitCreated(j) PROVE JobTypes'
  BY <1>13 DEF ExitCreated, storeVars, supVars, procVars, JobTypes
<1>14. ASSUME NEW j \in Job, WrapperExits(j) PROVE JobTypes'
  BY <1>14 DEF WrapperExits, storeVars, supVars, Writes, JobTypes, Jobs, JobOK
<1>15. ASSUME NEW j \in Job, HarnessWorks(j) PROVE JobTypes'
  BY <1>15 DEF HarnessWorks, storeVars, supVars, fileVars, JobTypes
<1>16. ASSUME NEW j \in Job, HarnessSays(j) PROVE JobTypes'
  BY <1>16, ConstantsAssumption DEF HarnessSays, storeVars, supVars, fileVars, JobTypes
<1>17. ASSUME NEW j \in Job, NEW c \in {"ok", "bad"}, HarnessEnds(j, c) PROVE JobTypes'
  BY <1>17 DEF HarnessEnds, storeVars, supVars, fileVars, JobTypes
<1>18. ASSUME NEW j \in Job, WrapperDies(j) PROVE JobTypes'
  BY <1>18 DEF WrapperDies, storeVars, supVars, fileVars, JobTypes
<1>19. ASSUME NEW j \in Job, Beat(j) PROVE JobTypes'
  BY <1>19 DEF Beat, storeVars, supVars, procVars, Writes, JobTypes
<1>20. ASSUME NEW j \in Job, BeatAges(j) PROVE JobTypes'
  BY <1>20 DEF BeatAges, storeVars, supVars, procVars, JobTypes
<1>21. CASE UNCHANGED vars
  BY <1>1, <1>21 DEF vars, storeVars, supVars, fileVars, procVars
<1> QED BY <1>2, <1>3, <1>4, <1>5, <1>6, <1>7, <1>8, <1>9, <1>10, <1>11, <1>12, <1>13,
       <1>14, <1>15, <1>16, <1>17, <1>18, <1>19, <1>20, <1>21
       DEF Next, Reconciling, Dispatching, Wrapping, Working

(* Where the supervisor can be: each of its steps, and a crash, leads from  *)
(* one of these places to another, and no process moves it.                 *)
LEMMA ControlStep ==
  ASSUME StoreTypes, JobTypes, Control, Jobs, [Next]_vars
  PROVE  Control'
<1>1. UNCHANGED <<no, open, at, sup, want, result, dir, exit, wrapper>> => Control'
  BY DEF Control, StoreTypes, JobTypes, HasDir, Exited, Watched, Prompt
<1>2. CASE PollTail
  BY <1>1, <1>2 DEF PollTail, supVars, fileVars, procVars
<1>3. ASSUME NEW j \in Job,
             Flush(j) \/ HarnessWorks(j) \/ HarnessSays(j) \/ Beat(j) \/
             BeatAges(j) \/ (\E c \in {"ok", "bad"} : HarnessEnds(j, c))
      PROVE  Control'
  BY <1>1, <1>3 DEF Flush, HarnessWorks, HarnessSays, Beat, BeatAges, HarnessEnds,
     storeVars, supVars, fileVars, procVars
<1>4. CASE Start
  BY <1>4, JobFacts DEF Start, storeVars, fileVars, procVars, Control, StoreTypes,
     JobTypes, HasDir, Exited, Watched, Prompt
<1>5. CASE NothingOpen
  BY <1>5, JobFacts DEF NothingOpen, storeVars, fileVars, procVars, Control, StoreTypes,
     JobTypes, HasDir, Exited, Watched, Prompt
<1>6. CASE SettleLost
  BY <1>6, JobFacts DEF SettleLost, fileVars, procVars, HasDir, SettleRun, Control,
     StoreTypes, JobTypes, Exited, Watched, Prompt
<1>7. CASE Finalise
  BY <1>7, JobFacts DEF Finalise, fileVars, procVars, HasDir, Exited, Torn, ReadCode,
     Already, FileReports, Acts, FileSends, Recorded, Control, StoreTypes, JobTypes,
     Watched, Prompt
<1>8. CASE Finalised
  BY <1>8, JobFacts DEF Finalised, procVars, RemoveDir, SettleRun, Control, StoreTypes,
     JobTypes, HasDir, Exited, Watched, Prompt
<1>9. CASE Adopt
  BY <1>9, JobFacts DEF Adopt, fileVars, procVars, HasDir, Exited, Alive, Already,
     FileReports, Recorded, Control, StoreTypes, JobTypes, Watched, Prompt
<1>10. CASE KillOrphan
  BY <1>10, JobFacts DEF KillOrphan, storeVars, supVars, HasDir, Exited, Alive,
     RemoveDir, KillTurn, Recorded, Control, StoreTypes, JobTypes, Watched, Prompt
<1>11. CASE OpenRun
  <2>1. no' \in Run /\ no \in Nat
    BY <1>11, ConstantsAssumption DEF OpenRun, StoreTypes, Run
  <2>2. \A j \in Job : dir[j] # "here" /\ (dir[j] # "absent" => j[1] < no')
    BY <1>11, <2>1, JobFacts DEF OpenRun, Control
  <2> QED BY <1>11, <2>1, <2>2, JobFacts DEF OpenRun, Control, fileVars, procVars, HasDir,
            Exited, Watched
<1>12. CASE TickEnds
  BY <1>12, JobFacts DEF TickEnds, storeVars, fileVars, procVars, Control, StoreTypes,
     JobTypes, HasDir, Exited, Watched, Prompt
<1>13. CASE Launch
  <2>1. no \in Run /\ open /\ at' = <<no, want>> /\ at' \in Job /\ at' # NoJob
    BY <1>13, Launched
  <2>2. /\ dir'[at'] = "here" /\ dir[at'] = "absent"
        /\ \A j \in Job : j # at' => dir'[j] = dir[j]
    BY <1>13, Launched
  <2>3. /\ \A j \in Job : dir[j] # "here"
        /\ \A j \in Job : dir[j] # "absent" => j[1] < no \/ j = <<no, "ensure">>
    BY <1>13, Launched
  <2>4. wrapper'[at'] = "none"
    BY <1>13, <2>1, <2>2 DEF Launch, procVars, Jobs, JobOK
  <2> QED BY <1>13, <2>1, <2>2, <2>3, <2>4, JobFacts
         DEF Launch, Control, Watched, HasDir, Exited, Prompt
<1>14. CASE LaunchFails
  BY <1>14, JobFacts DEF LaunchFails, storeVars, fileVars, procVars, Control,
     StoreTypes, JobTypes, HasDir, Exited, Watched, Prompt
<1>15. CASE SendKeys
  BY <1>15, JobFacts DEF SendKeys, storeVars, fileVars, Control, StoreTypes, JobTypes,
     HasDir, Exited, Watched, Prompt
<1>16. CASE PollExit
  BY <1>16, JobFacts DEF PollExit, storeVars, procVars, Exited, Torn, ReadCode,
     RemoveDir, Control, StoreTypes, JobTypes, HasDir, Watched, Prompt
<1>17. CASE PollFails
  BY <1>17, JobFacts DEF PollFails, storeVars, Exited, RemoveDir, KillTurn, Control,
     StoreTypes, JobTypes, HasDir, Watched, Prompt
<1>18. CASE Apply
  BY <1>18, JobFacts DEF Apply, fileVars, procVars, Already, FileReports, Acts,
     FileSends, Control, StoreTypes, JobTypes, HasDir, Exited, Watched, Prompt
<1>19. CASE Settle
  BY <1>19, JobFacts DEF Settle, fileVars, procVars, SettleRun, Control, StoreTypes,
     JobTypes, HasDir, Exited, Watched, Prompt
<1>20. CASE Crash
  BY <1>20, JobFacts DEF Crash, storeVars, fileVars, procVars, HasDir, MayDie, Watched,
     Control, StoreTypes, JobTypes, Exited, Prompt
<1>21. ASSUME NEW j \in Job, WrapperStarts(j) PROVE Control'
  BY <1>21, JobFacts DEF WrapperStarts, storeVars, supVars, fileVars, Control,
     StoreTypes, JobTypes, HasDir, Exited, Watched, Prompt
<1>22. ASSUME NEW j \in Job, WrapperPublishes(j) PROVE Control'
  BY <1>22, JobFacts DEF WrapperPublishes, storeVars, supVars, Writes, Control,
     StoreTypes, JobTypes, HasDir, Exited, Watched, Prompt
<1>23. ASSUME NEW j \in Job, WrapperCloses(j) PROVE Control'
  BY <1>23, JobFacts DEF WrapperCloses, storeVars, supVars, Writes, Control, StoreTypes,
     JobTypes, HasDir, Exited, Watched, Prompt
<1>24. ASSUME NEW j \in Job, ExitCreated(j) PROVE Control'
  BY <1>24, JobFacts DEF ExitCreated, storeVars, supVars, procVars, Exited, FlushedAll,
     Control, StoreTypes, JobTypes, HasDir, Watched, Prompt
<1>25. ASSUME NEW j \in Job, WrapperExits(j) PROVE Control'
  <2>1. \A i \in Job : Exited(i) => Exited(i)'
    BY <1>25 DEF WrapperExits, Writes, Exited, JobTypes
  <2>2. \A i \in Job : wrapper[i] = "none" => wrapper'[i] = "none"
    BY <1>25 DEF WrapperExits, JobTypes
  <2> QED BY <1>25, <2>1, <2>2 DEF WrapperExits, storeVars, supVars, Control, Watched,
         HasDir,
            Prompt, StoreTypes
<1>26. ASSUME NEW j \in Job, WrapperDies(j) PROVE Control'
  BY <1>26, JobFacts DEF WrapperDies, storeVars, supVars, fileVars, Torn, Control,
     StoreTypes, JobTypes, HasDir, Exited, Watched, Prompt
<1>27. CASE UNCHANGED vars
  BY <1>1, <1>27 DEF vars, storeVars, supVars, fileVars, procVars
<1> QED BY <1>2, <1>3, <1>4, <1>5, <1>6, <1>7, <1>8, <1>9, <1>10, <1>11, <1>12, <1>13,
       <1>14, <1>15, <1>16, <1>17, <1>18, <1>19, <1>20, <1>21, <1>22, <1>23, <1>24,
       <1>25, <1>26, <1>27
       DEF Next, Reconciling, Dispatching, Wrapping, Working

(* What a job's files and processes can look like together: a wrapper       *)
(* writes its files in order, and whoever removes the directory removes     *)
(* them all.                                                                *)
LEMMA JobsStep ==
  ASSUME StoreTypes, JobTypes, Control, Jobs, [Next]_vars
  PROVE  Jobs'
<1>1. UNCHANGED <<dir, beat, exit, flushed, wrapper, harness, said, code>> => Jobs'
  BY DEF Jobs, JobOK, StoreTypes, JobTypes, Exited
<1>2. CASE Start \/ NothingOpen \/ SettleLost \/ Finalise \/ Adopt \/ OpenRun \/
           TickEnds \/ LaunchFails \/ PollTail \/ Apply \/ Settle \/ Crash
  BY <1>1, <1>2 DEF Start, NothingOpen, SettleLost, Finalise, Adopt, OpenRun, TickEnds,
     LaunchFails, PollTail, Apply, Settle, Crash, storeVars, supVars, fileVars, procVars
<1>3. CASE Finalised
  BY <1>3 DEF Finalised, procVars, RemoveDir, SettleRun, Jobs, JobOK, StoreTypes,
     JobTypes, Exited
<1>4. CASE KillOrphan
  BY <1>4 DEF KillOrphan, storeVars, supVars, HasDir, Exited, Alive, RemoveDir,
     KillTurn, Recorded, Jobs, JobOK, StoreTypes, JobTypes
<1>5. CASE Launch
  BY <1>5, JobFacts DEF Launch, procVars, Jobs, JobOK, StoreTypes, JobTypes, Exited,
     Control
<1>6. CASE SendKeys
  BY <1>6 DEF SendKeys, storeVars, fileVars, Jobs, JobOK, StoreTypes, JobTypes, Exited,
     Control, HasDir
<1>7. CASE PollExit
  BY <1>7 DEF PollExit, storeVars, procVars, Exited, Torn, ReadCode, RemoveDir, Jobs,
     JobOK, StoreTypes, JobTypes
<1>8. CASE PollFails
  BY <1>8 DEF PollFails, storeVars, Exited, RemoveDir, KillTurn, Jobs, JobOK,
     StoreTypes, JobTypes
<1>9. ASSUME NEW j \in Job, WrapperStarts(j) PROVE Jobs'
  BY <1>9 DEF WrapperStarts, storeVars, supVars, fileVars, Jobs, JobOK, StoreTypes,
     JobTypes, Exited
<1>10. ASSUME NEW j \in Job, WrapperPublishes(j) PROVE Jobs'
  BY <1>10 DEF WrapperPublishes, storeVars, supVars, Writes, Jobs, JobOK, StoreTypes,
     JobTypes, Exited
<1>11. ASSUME NEW j \in Job, Flush(j) PROVE Jobs'
  BY <1>11 DEF Flush, storeVars, supVars, procVars, Jobs, JobOK, StoreTypes, JobTypes,
     Exited
<1>12. ASSUME NEW j \in Job, WrapperCloses(j) PROVE Jobs'
  BY <1>12 DEF WrapperCloses, storeVars, supVars, Writes, Jobs, JobOK, StoreTypes,
     JobTypes, Exited
<1>13. ASSUME NEW j \in Job, ExitCreated(j) PROVE Jobs'
  BY <1>13 DEF ExitCreated, storeVars, supVars, procVars, Exited, FlushedAll, Jobs,
     JobOK, StoreTypes, JobTypes
<1>14. ASSUME NEW j \in Job, WrapperExits(j) PROVE Jobs'
  BY <1>14 DEF WrapperExits, storeVars, supVars, Exited, Writes, FlushedAll, Jobs,
     JobOK, StoreTypes, JobTypes
<1>15. ASSUME NEW j \in Job, HarnessWorks(j) PROVE Jobs'
  BY <1>15 DEF HarnessWorks, storeVars, supVars, fileVars, Jobs, JobOK, StoreTypes,
     JobTypes, Exited
<1>16. ASSUME NEW j \in Job, HarnessSays(j) PROVE Jobs'
  BY <1>16 DEF HarnessSays, storeVars, supVars, fileVars, Jobs, JobOK, StoreTypes,
     JobTypes, Exited
<1>17. ASSUME NEW j \in Job, NEW c \in {"ok", "bad"}, HarnessEnds(j, c) PROVE Jobs'
  BY <1>17 DEF HarnessEnds, storeVars, supVars, fileVars, Jobs, JobOK, StoreTypes,
     JobTypes, Exited
<1>18. ASSUME NEW j \in Job, WrapperDies(j) PROVE Jobs'
  BY <1>18 DEF WrapperDies, storeVars, supVars, fileVars, Torn, Jobs, JobOK, StoreTypes,
     JobTypes, Exited
<1>19. ASSUME NEW j \in Job, Beat(j) PROVE Jobs'
  BY <1>19 DEF Beat, storeVars, supVars, procVars, Writes, Jobs, JobOK, StoreTypes,
     JobTypes, Exited
<1>20. ASSUME NEW j \in Job, BeatAges(j) PROVE Jobs'
  BY <1>20 DEF BeatAges, storeVars, supVars, procVars, Jobs, JobOK, StoreTypes,
     JobTypes, Exited
<1>21. CASE UNCHANGED vars
  BY <1>1, <1>21 DEF vars, storeVars, supVars, fileVars, procVars
<1> QED BY <1>2, <1>3, <1>4, <1>5, <1>6, <1>7, <1>8, <1>9, <1>10, <1>11, <1>12, <1>13,
       <1>14, <1>15, <1>16, <1>17, <1>18, <1>19, <1>20, <1>21
       DEF Next, Reconciling, Dispatching, Wrapping, Working

-----------------------------------------------------------------------------
(* No line is in the thread twice, or before the harness wrote it.          *)
Copies ==
  \A r \in Run, l \in 1..MaxLines :
    filed[r][l] \in {0, 1} /\ (filed[r][l] = 1 => l <= said[Prompt(r)])

(* What the supervisor holds of a turn is what its harness wrote.           *)
Held == text # 0 => sup \in {"apply", "settle"} /\ at = Prompt(no) /\ text <= said[at]

Lines == Copies /\ Held

Over(j)      == harness[j] \in {"none", "ended"}
Marked(r, n) == \A l \in 1..MaxLines : filed[r][l] = IF l <= n THEN 1 ELSE 0
AllSaid(r)   == Over(Prompt(r)) /\ Marked(r, said[Prompt(r)])

(* A run that is, or is about to be, settled as a success has said all it   *)
(* will say, and all of it is filed; the run in hand is not settled.        *)
Told ==
  /\ open => outcome[no] = "none"
  /\ \A r \in Run : r > no => outcome[r] = "none"
  /\ sup = "apply" /\ result = "ok" => Over(at) /\ text = said[at]
  /\ sup \in {"settle", "finalise"} /\ result = "ok" => AllSaid(no)
  /\ \A r \in Run : outcome[r] = "ok" => AllSaid(r)

(* The recorded job has flushed no more than the run's prompt has said, and *)
(* once it exited all of that, be it the prompt's job or ensureSession's.   *)
LEMMA Capture ==
  ASSUME StoreTypes, JobTypes, Control, Jobs, HasDir
  PROVE  /\ at \in Job /\ no \in Run /\ open /\ flushed[at] \in Nat
         /\ flushed[at] <= said[Prompt(no)]
         /\ Exited(at) => flushed[at] = said[Prompt(no)] /\ Over(Prompt(no))
<1>1. at \in Job /\ at[1] = no /\ open /\ no \in Run
  BY JobFacts DEF HasDir, StoreTypes, Control
<1>2. Prompt(no) \in Job /\ said[Prompt(no)] \in Nat /\ flushed[at] \in Nat
  <2>1. Prompt(no) \in Job
    BY <1>1, JobFacts DEF Prompt
  <2> QED BY <1>1, <2>1, ConstantsAssumption DEF JobTypes
<1>3. CASE at = Prompt(no)
  BY <1>1, <1>2, <1>3 DEF Jobs, JobOK, Over
<1>4. CASE at # Prompt(no)
  <2>1. at[2] = "ensure"
    BY <1>1, <1>4, JobFacts DEF Prompt
  <2>2. dir[Prompt(no)] = "absent"
    BY <1>1, <1>2, <1>4, JobFacts DEF Control, Prompt, JobTypes
  <2>3. /\ said[at] = 0 /\ said[Prompt(no)] = 0
        /\ harness[Prompt(no)] = "none" /\ flushed[at] <= said[at]
    BY <1>1, <1>2, <2>1, <2>2 DEF Jobs, JobOK
  <2> QED BY <1>1, <1>2, <2>3 DEF Over
<1> QED BY <1>3, <1>4

(* Filing the first n lines of the run in hand, again or not.               *)
LEMMA Reports ==
  ASSUME StoreTypes, JobTypes, Copies, no \in Run, NEW n \in Nat, n <= said[Prompt(no)],
         FileReports(n), UNCHANGED <<no, said>>
  PROVE  /\ Copies'
         /\ n = said[Prompt(no)] => Marked(no, said[Prompt(no)])'
         /\ \A r \in Run \ {no} : filed'[r] = filed[r]
<1> DEFINE row == [l \in 1..MaxLines |-> IF l > n \/ Already(filed[no][l])
                                         THEN filed[no][l] ELSE filed[no][l] + 1]
<1>1. filed' = [filed EXCEPT ![no] = row]
  BY DEF FileReports
<1>2. \A r \in Run \ {no} : filed'[r] = filed[r]
  BY <1>1 DEF StoreTypes
<1>3. filed'[no] = row
  BY <1>1 DEF StoreTypes
<1>4. \A l \in 1..MaxLines : row[l] = IF l <= n THEN 1 ELSE filed[no][l]
  BY DEF Copies, Already
<1> HIDE DEF row
<1>5. ASSUME NEW r \in Run, NEW l \in 1..MaxLines
      PROVE  filed'[r][l] \in {0, 1} /\ (filed'[r][l] = 1 => l <= said[Prompt(r)])
  <2>1. CASE r = no
    <3>1. filed'[r][l] = IF l <= n THEN 1 ELSE filed[r][l]
      BY <1>3, <1>4, <2>1
    <3>2. said[Prompt(no)] \in Nat
      <4>1. Prompt(no) \in Job
        BY JobFacts DEF Prompt
      <4> QED BY <4>1, ConstantsAssumption DEF JobTypes
    <3>3. filed[r][l] \in {0, 1} /\ (filed[r][l] = 1 => l <= said[Prompt(r)])
      BY DEF Copies
    <3>4. CASE l <= n
      BY <2>1, <3>1, <3>2, <3>4, ConstantsAssumption
    <3>5. CASE ~(l <= n)
      BY <3>1, <3>3, <3>5
    <3> QED BY <3>4, <3>5
  <2>2. CASE r # no
    BY <1>2, <2>2 DEF Copies
  <2> QED BY <2>1, <2>2
<1>6. n = said[Prompt(no)] => Marked(no, said[Prompt(no)])'
  <2> SUFFICES ASSUME n = said[Prompt(no)], NEW l \in 1..MaxLines
               PROVE  filed'[no][l] = IF l <= n THEN 1 ELSE 0
    BY DEF Marked, Prompt
  <2>1. filed'[no][l] = IF l <= n THEN 1 ELSE filed[no][l]
    BY <1>3, <1>4
  <2> QED BY <2>1 DEF Copies
<1> QED BY <1>2, <1>5, <1>6 DEF Copies, Prompt

(* Filing the text so far, again and again, never files a line twice, nor   *)
(* one the harness has not written (ingestMarkers, called by the poll, by   *)
(* applyResult and by the reconciler).                                      *)
LEMMA CopiesStep ==
  ASSUME StoreTypes, JobTypes, Control, Jobs, Copies, Held, [Next]_vars
  PROVE  Copies'
<1>1. UNCHANGED <<filed, said>> => Copies'
  BY DEF Copies, Prompt
<1>2. CASE Start \/ NothingOpen \/ SettleLost \/ Finalised \/ KillOrphan \/ OpenRun \/ TickEnds \/
           Launch \/ LaunchFails \/ SendKeys \/ PollExit \/ PollFails \/ Settle \/ Crash
  BY <1>1, <1>2 DEF Start, NothingOpen, SettleLost, Finalised, KillOrphan, OpenRun,
     TickEnds, Launch, LaunchFails, SendKeys, PollExit, PollFails, Settle, Crash,
     storeVars, supVars, fileVars, procVars
<1>3. ASSUME NEW j \in Job,
             WrapperStarts(j) \/ WrapperPublishes(j) \/ Flush(j) \/
             WrapperCloses(j) \/ ExitCreated(j) \/ WrapperExits(j) \/
             HarnessWorks(j) \/ WrapperDies(j) \/ Beat(j) \/ BeatAges(j) \/
             (\E c \in {"ok", "bad"} : HarnessEnds(j, c))
      PROVE  Copies'
  BY <1>1, <1>3 DEF WrapperStarts, WrapperPublishes, Flush, WrapperCloses, ExitCreated,
     WrapperExits, HarnessWorks, WrapperDies, Beat, BeatAges, HarnessEnds, storeVars,
     supVars, fileVars, procVars
<1>4. CASE Finalise
  <2>1. at \in Job /\ no \in Run /\ flushed[at] \in Nat /\ flushed[at] <= said[Prompt(no)]
    BY <1>4, Capture DEF Finalise, Recorded
  <2> QED BY <1>4, <2>1, Reports DEF Finalise, procVars
<1>5. CASE Adopt
  <2>1. at \in Job /\ no \in Run /\ flushed[at] \in Nat /\ flushed[at] <= said[Prompt(no)]
    BY <1>5, Capture DEF Adopt, Recorded
  <2> QED BY <1>5, <2>1, Reports DEF Adopt, procVars
<1>6. CASE PollTail
  <2>1. HasDir
    BY <1>6 DEF PollTail, Control
  <2>2. no \in Run /\ flushed[at] \in Nat /\ flushed[at] <= said[Prompt(no)]
    BY <2>1, Capture
  <2> QED BY <1>6, <2>2, Reports DEF PollTail, procVars, supVars
<1>7. CASE Apply
  <2>1. no \in Run /\ at = Prompt(no) /\ at \in Job
    BY <1>7, JobFacts DEF Apply, Control, Watched, Prompt
  <2>2. text \in Nat /\ text <= said[at]
    BY <1>7, <2>1, ConstantsAssumption DEF Apply, Held, StoreTypes, JobTypes
  <2> QED BY <1>7, <2>1, <2>2, Reports DEF Apply, procVars
<1>8. ASSUME NEW j \in Job, HarnessSays(j) PROVE Copies'
  <2>1. Prompt(no) # j \/ Prompt(no) = j
    OBVIOUS
  <2>2. \A i \in Job : said[i] \in Nat /\ said[i] <= said'[i]
    BY <1>8, ConstantsAssumption DEF HarnessSays, JobTypes
  <2>3. \A r \in Run : Prompt(r) \in Job
    BY JobFacts DEF Prompt
  <2>4. \A i \in Job : said'[i] \in Nat
    BY <1>8, ConstantsAssumption DEF HarnessSays, JobTypes
  <2>5. UNCHANGED filed
    BY <1>8 DEF HarnessSays, storeVars
  <2> QED BY <2>2, <2>3, <2>4, <2>5 DEF Copies
<1>9. CASE UNCHANGED vars
  BY <1>1, <1>9 DEF vars, storeVars, supVars, fileVars, procVars
<1> QED BY <1>2, <1>3, <1>4, <1>5, <1>6, <1>7, <1>8, <1>9
       DEF Next, Reconciling, Dispatching, Wrapping, Working

(* What the supervisor keeps of a turn between its last poll and its        *)
(* settle was written by the prompt's harness; a crash forgets it.          *)
LEMMA HeldStep ==
  ASSUME StoreTypes, JobTypes, Control, Jobs, Held, [Next]_vars
  PROVE  Held'
<1>1. UNCHANGED <<no, sup, at, text, said>> => Held'
  BY DEF Held
<1>2. CASE KillOrphan \/ PollTail
  BY <1>1, <1>2 DEF KillOrphan, PollTail, storeVars, supVars, fileVars, procVars
<1>3. ASSUME NEW j \in Job,
             WrapperStarts(j) \/ WrapperPublishes(j) \/ Flush(j) \/
             WrapperCloses(j) \/ ExitCreated(j) \/ WrapperExits(j) \/
             HarnessWorks(j) \/ WrapperDies(j) \/ Beat(j) \/ BeatAges(j) \/
             (\E c \in {"ok", "bad"} : HarnessEnds(j, c))
      PROVE  Held'
  BY <1>1, <1>3 DEF WrapperStarts, WrapperPublishes, Flush, WrapperCloses, ExitCreated,
     WrapperExits, HarnessWorks, WrapperDies, Beat, BeatAges, HarnessEnds, storeVars,
     supVars, fileVars, procVars
<1>4. CASE Start
  BY <1>4 DEF Start, storeVars, fileVars, procVars, Held
<1>5. CASE NothingOpen
  BY <1>5 DEF NothingOpen, storeVars, fileVars, procVars, Held
<1>6. CASE SettleLost
  BY <1>6 DEF SettleLost, fileVars, procVars, HasDir, SettleRun, Held
<1>7. CASE Finalise
  BY <1>7 DEF Finalise, fileVars, procVars, HasDir, Exited, Torn, ReadCode, Already,
     FileReports, Acts, FileSends, Recorded, Held
<1>8. CASE Finalised
  BY <1>8 DEF Finalised, procVars, RemoveDir, SettleRun, Held
<1>9. CASE Adopt
  BY <1>9 DEF Adopt, fileVars, procVars, HasDir, Exited, Alive, Already, FileReports,
     Recorded, Held
<1>10. CASE OpenRun
  BY <1>10 DEF OpenRun, fileVars, procVars, Held, Control, Watched
<1>11. CASE TickEnds
  BY <1>11 DEF TickEnds, storeVars, fileVars, procVars, Held
<1>12. CASE Launch
  BY <1>12 DEF Launch, procVars, Held, Control, Watched
<1>13. CASE LaunchFails
  BY <1>13 DEF LaunchFails, storeVars, fileVars, procVars, Held
<1>14. CASE SendKeys
  BY <1>14 DEF SendKeys, storeVars, fileVars, Held
<1>15. CASE PollExit
  <2>1. HasDir /\ at \in Job /\ at = <<no, want>>
    BY <1>15 DEF PollExit, Control, HasDir, StoreTypes
  <2>2. CASE at[2] = "ensure"
    BY <1>15, <2>2 DEF PollExit, Held
  <2>3. CASE at[2] # "ensure"
    <3>1. at = Prompt(no)
      BY <2>1, <2>3, JobFacts DEF Prompt
    <3>2. sup' = "apply" /\ text' = flushed[at] /\ UNCHANGED <<no, at, said>>
      BY <1>15, <2>3 DEF PollExit, storeVars, procVars
    <3>3. flushed[at] <= said[at]
      BY <2>1 DEF Jobs, JobOK
    <3> QED BY <3>1, <3>2, <3>3 DEF Held, Prompt
  <2> QED BY <2>2, <2>3
<1>16. CASE PollFails
  BY <1>16 DEF PollFails, storeVars, Exited, RemoveDir, KillTurn, Held
<1>17. CASE Apply
  BY <1>17 DEF Apply, fileVars, procVars, Already, FileReports, Acts, FileSends, Held
<1>18. CASE Settle
  BY <1>18 DEF Settle, fileVars, procVars, SettleRun, Held
<1>19. CASE Crash
  BY <1>19 DEF Crash, storeVars, fileVars, procVars, HasDir, MayDie, Watched, Held
<1>20. ASSUME NEW j \in Job, HarnessSays(j) PROVE Held'
  <2>1. \A i \in Job : said[i] \in Nat /\ said'[i] \in Nat /\ said[i] <= said'[i]
    BY <1>20, ConstantsAssumption DEF HarnessSays, JobTypes
  <2>2. text # 0 => at \in Job
    BY JobFacts DEF Held, Control, Watched, Prompt
  <2>3. UNCHANGED <<no, sup, at, text>> /\ text \in Nat
    BY <1>20, ConstantsAssumption DEF HarnessSays, storeVars, supVars, StoreTypes
  <2> QED BY <2>1, <2>2, <2>3 DEF Held, Prompt
<1>21. CASE UNCHANGED vars
  BY <1>1, <1>21 DEF vars, storeVars, supVars, fileVars, procVars
<1> QED BY <1>2, <1>3, <1>4, <1>5, <1>6, <1>7, <1>8, <1>9, <1>10, <1>11, <1>12, <1>13,
       <1>14, <1>15, <1>16, <1>17, <1>18, <1>19, <1>20, <1>21
       DEF Next, Reconciling, Dispatching, Wrapping, Working

(* Every step on the way to a success files what is left to file, watched   *)
(* (PollExit, Apply, Settle) or not (Finalise, Finalised), and no harness   *)
(* of a run so settled starts to write again.                               *)
LEMMA ToldStep ==
  ASSUME StoreTypes, JobTypes, Control, Jobs, Copies, Held, Told, [Next]_vars
  PROVE  Told'
<1>1. UNCHANGED <<no, open, outcome, filed, sup, text, result, at, said, harness>> => Told'
  BY DEF Told, AllSaid, Marked, Over
<1>2. CASE KillOrphan
  BY <1>1, <1>2 DEF KillOrphan, storeVars, supVars
<1>3. ASSUME NEW j \in Job,
             WrapperPublishes(j) \/ Flush(j) \/ WrapperCloses(j) \/ ExitCreated(j) \/
             WrapperExits(j) \/ WrapperDies(j) \/ Beat(j) \/ BeatAges(j)
      PROVE  Told'
  BY <1>1, <1>3 DEF WrapperPublishes, Flush, WrapperCloses, ExitCreated, WrapperExits,
     WrapperDies, Beat, BeatAges, storeVars, supVars, fileVars, procVars
<1>4. CASE Start
  BY <1>4 DEF Start, storeVars, fileVars, procVars, Told, AllSaid, Marked, Over
<1>5. CASE NothingOpen
  BY <1>5 DEF NothingOpen, storeVars, fileVars, procVars, Told, AllSaid, Marked, Over
<1>6. CASE SettleLost
  <2>1. no \in Run /\ open
    BY <1>6 DEF SettleLost, Control
  <2>2. /\ UNCHANGED <<no, filed, said, harness>> /\ sup' = "tick" /\ ~open'
        /\ outcome' = [outcome EXCEPT ![no] = "retry"]
    BY <1>6 DEF SettleLost, SettleRun, procVars
  <2>3. \A r \in Run : AllSaid(r) => AllSaid(r)'
    BY <2>2 DEF AllSaid, Over, Marked, Prompt
  <2>4. \A r \in Run : outcome'[r] = IF r # no THEN outcome[r] ELSE "retry"
    BY <2>1, <2>2 DEF StoreTypes
  <2>5. /\ \A r \in Run : r > no => outcome[r] = "none"
        /\ \A r \in Run : outcome[r] = "ok" => AllSaid(r)
    BY DEF Told
  <2> QED BY <2>1, <2>2, <2>3, <2>4, <2>5, JobFacts DEF Told
<1>7. CASE Finalise
  <2>1. /\ at \in Job /\ no \in Run /\ flushed[at] \in Nat /\ open /\ outcome[no] = "none"
        /\ flushed[at] <= said[Prompt(no)]
        /\ Exited(at) => flushed[at] = said[Prompt(no)] /\ Over(Prompt(no))
    BY <1>7, Capture DEF Finalise, Recorded, Told
  <2>2. \A r \in Run \ {no} : filed'[r] = filed[r]
    BY <1>7, <2>1, Reports DEF Finalise, procVars
  <2>3. AllSaid(no)'
    BY <1>7, <2>1, Reports DEF Finalise, procVars, AllSaid, Over, Marked, Prompt, Recorded
  <2>4. \A r \in Run : outcome[r] = "ok" => AllSaid(r)'
    BY <1>7, <2>1, <2>2 DEF Told, AllSaid, Over, Marked, Prompt, Finalise, procVars
  <2> QED BY <1>7, <2>3, <2>4 DEF Finalise, Told
<1>8. CASE Finalised
  <2>1. no \in Run /\ open /\ outcome[no] = "none"
    BY <1>8 DEF Finalised, Control, Told
  <2>2. result = "ok" => AllSaid(no)
    BY <1>8 DEF Finalised, Told
  <2>3. /\ UNCHANGED <<no, filed, said, harness>> /\ sup' = "tick" /\ ~open'
        /\ outcome' = [outcome EXCEPT ![no] = IF result = "ok" THEN "ok" ELSE "bad"]
    BY <1>8 DEF Finalised, SettleRun, procVars
  <2>4. \A r \in Run : AllSaid(r) => AllSaid(r)'
    BY <2>3 DEF AllSaid, Over, Marked, Prompt
  <2>5. \A r \in Run : outcome'[r] = IF r # no THEN outcome[r]
                                     ELSE IF result = "ok" THEN "ok" ELSE "bad"
    BY <2>1, <2>3 DEF StoreTypes
  <2> HIDE DEF Told
  <2>6. /\ \A r \in Run : r > no => outcome[r] = "none"
        /\ \A r \in Run : outcome[r] = "ok" => AllSaid(r)
    BY DEF Told
  <2> QED BY <2>1, <2>2, <2>3, <2>4, <2>5, <2>6, JobFacts DEF Told
<1>9. CASE Adopt
  <2>1. /\ at \in Job /\ no \in Run /\ flushed[at] \in Nat /\ open /\ outcome[no] = "none"
        /\ flushed[at] <= said[Prompt(no)]
        /\ Exited(at) => flushed[at] = said[Prompt(no)] /\ Over(Prompt(no))
    BY <1>9, Capture DEF Adopt, Recorded, Told
  <2>2. \A r \in Run \ {no} : filed'[r] = filed[r]
    BY <1>9, <2>1, Reports DEF Adopt, procVars
  <2>4. \A r \in Run : outcome[r] = "ok" => AllSaid(r)'
    BY <1>9, <2>1, <2>2 DEF Told, AllSaid, Over, Marked, Prompt, Adopt, procVars
  <2> QED BY <1>9, <2>4 DEF Adopt, Told
<1>10. CASE OpenRun
  <2>1. no' = no + 1 /\ no' \in Run /\ no \in Nat /\ sup' = "launch"
    BY <1>10, ConstantsAssumption DEF OpenRun, Run, StoreTypes
  <2>2. UNCHANGED <<outcome, filed, said, harness>>
    BY <1>10 DEF OpenRun, procVars
  <2>3. \A r \in Run : AllSaid(r) => AllSaid(r)'
    BY <2>2 DEF AllSaid, Over, Marked, Prompt
  <2> QED BY <2>1, <2>2, <2>3, JobFacts DEF Told
<1>11. CASE TickEnds
  BY <1>11 DEF TickEnds, storeVars, fileVars, procVars, Told, AllSaid, Marked, Over
<1>12. CASE Launch
  BY <1>12 DEF Launch, procVars, Told, AllSaid, Marked, Over
<1>13. CASE LaunchFails
  BY <1>13 DEF LaunchFails, storeVars, fileVars, procVars, Told, AllSaid, Marked, Over
<1>14. CASE SendKeys
  BY <1>14 DEF SendKeys, storeVars, fileVars, Told, AllSaid, Marked, Over
<1>15. CASE PollTail
  <2>1. HasDir /\ outcome[no] = "none" /\ sup = "watch"
    BY <1>15 DEF PollTail, Control, Told, Watched
  <2>2. no \in Run /\ flushed[at] \in Nat /\ flushed[at] <= said[Prompt(no)]
    BY <2>1, Capture
  <2>3. \A r \in Run \ {no} : filed'[r] = filed[r]
    BY <1>15, <2>2, Reports DEF PollTail, procVars, supVars
  <2>4. \A r \in Run : outcome[r] = "ok" => AllSaid(r)'
    BY <1>15, <2>1, <2>3 DEF Told, AllSaid, Over, Marked, Prompt, PollTail, procVars
  <2> QED BY <1>15, <2>1, <2>4 DEF PollTail, Told, supVars
<1>16. CASE PollExit
  <2>1. at = <<no, want>> /\ HasDir
    BY <1>16 DEF PollExit, Control
  <2>2. at \in Job /\ Exited(at)
    BY <1>16, <2>1 DEF PollExit, StoreTypes, HasDir
  <2>3. flushed[at] = said[at] /\ Over(at)
    BY <2>2 DEF Jobs, JobOK, Over
  <2>4. UNCHANGED <<no, at, open, outcome, filed, said, harness>>
    BY <1>16 DEF PollExit, storeVars, procVars
  <2>5. \A r \in Run : AllSaid(r) => AllSaid(r)'
    BY <2>4 DEF AllSaid, Over, Marked, Prompt
  <2>6. sup' = "apply" => text' = flushed[at]
    BY <1>16 DEF PollExit
  <2>7. sup' = "settle" => result' # "ok"
    BY <1>16 DEF PollExit
  <2>8. sup' \in {"launch", "settle", "apply"}
    BY <1>16 DEF PollExit
  <2> QED BY <2>3, <2>4, <2>5, <2>6, <2>7, <2>8 DEF Told, Over
<1>17. CASE PollFails
  BY <1>17 DEF PollFails, storeVars, Exited, RemoveDir, KillTurn, Told, AllSaid, Marked,
     Over
<1>18. CASE Apply
  <2>1. no \in Run /\ at = Prompt(no) /\ at \in Job /\ outcome[no] = "none"
    BY <1>18, JobFacts DEF Apply, Control, Watched, Prompt, Told
  <2>2. text \in Nat /\ text <= said[at]
    BY <1>18, <2>1, ConstantsAssumption DEF Apply, Held, StoreTypes, JobTypes
  <2>3. /\ \A r \in Run \ {no} : filed'[r] = filed[r]
        /\ text = said[Prompt(no)] => Marked(no, said[Prompt(no)])'
    BY <1>18, <2>1, <2>2, Reports DEF Apply, procVars
  <2>4. \A r \in Run : outcome[r] = "ok" => AllSaid(r)'
    BY <1>18, <2>1, <2>3 DEF Told, AllSaid, Over, Marked, Prompt, Apply, procVars
  <2>5. result = "ok" => AllSaid(no)'
    BY <1>18, <2>1, <2>3 DEF Told, AllSaid, Over, Prompt, Apply, procVars
  <2> QED BY <1>18, <2>4, <2>5 DEF Apply, Told
<1>19. CASE Settle
  <2>1. no \in Run /\ open /\ outcome[no] = "none"
    BY <1>19 DEF Settle, Control, Told, Watched
  <2>2. result = "ok" => AllSaid(no)
    BY <1>19 DEF Settle, Told
  <2>3. /\ UNCHANGED <<no, filed, said, harness>> /\ sup' = "tick" /\ ~open'
        /\ outcome' = [outcome EXCEPT ![no] = result]
    BY <1>19 DEF Settle, SettleRun, procVars
  <2>4. \A r \in Run : AllSaid(r) => AllSaid(r)'
    BY <2>3 DEF AllSaid, Over, Marked, Prompt
  <2>5. \A r \in Run : outcome'[r] = IF r # no THEN outcome[r] ELSE result
    BY <2>1, <2>3 DEF StoreTypes
  <2>6. /\ \A r \in Run : r > no => outcome[r] = "none"
        /\ \A r \in Run : outcome[r] = "ok" => AllSaid(r)
    BY DEF Told
  <2> QED BY <2>1, <2>2, <2>3, <2>4, <2>5, <2>6, JobFacts DEF Told
<1>20. CASE Crash
  BY <1>20 DEF Crash, storeVars, fileVars, procVars, HasDir, MayDie, Watched, Told,
     AllSaid, Marked, Over
<1>21. ASSUME NEW j \in Job, WrapperStarts(j) PROVE Told'
  <2>1. \A i \in Job : Over(i) /\ ~Over(i)' => i = j /\ dir[j] = "here"
    BY <1>21 DEF WrapperStarts, Over, JobTypes
  <2>2. \A i \in Job : Over(i) /\ ~Over(i)' => i = at /\ open /\ HasDir
    BY <2>1, JobFacts DEF Control, HasDir
  <2>3. /\ wrapper[j] = "typed"
        /\ UNCHANGED <<no, open, outcome, filed, sup, text, result, at, said>>
    BY <1>21 DEF WrapperStarts, storeVars, supVars
  <2>4. \A i \in Job : Over(i) /\ ~Over(i)' => sup \notin {"apply", "settle", "finalise"}
    BY <2>1, <2>2, <2>3 DEF Control, Jobs, JobOK, Exited
  <2>5. \A r \in Run : Prompt(r) \in Job
    BY JobFacts DEF Prompt
  <2>6. \A r \in Run : Marked(r, said[Prompt(r)])' <=> Marked(r, said[Prompt(r)])
    BY <2>3 DEF Marked, Prompt
  <2>7. \A r \in Run : outcome[r] = "ok" => AllSaid(r)'
    BY <2>2, <2>3, <2>5, <2>6, JobFacts DEF Told, AllSaid, Control, Prompt
  <2>8. sup \in {"settle", "finalise"} /\ result = "ok" => AllSaid(no)'
    BY <2>3, <2>4, <2>5, <2>6 DEF Told, AllSaid, Control, Watched, Prompt
  <2>9. sup = "apply" /\ result = "ok" => Over(at)' /\ text = said[at]
    BY <2>3, <2>4, <2>5 DEF Told, Over, Control, Watched
  <2> QED BY <2>3, <2>7, <2>8, <2>9 DEF Told, Over
<1>22. ASSUME NEW j \in Job, HarnessWorks(j) PROVE Told'
  <2>1. UNCHANGED <<no, open, outcome, filed, sup, text, result, at, said>>
    BY <1>22 DEF HarnessWorks, storeVars, supVars
  <2>2. \A i \in Job : Over(i) => Over(i)'
    BY <1>22 DEF HarnessWorks, Over, JobTypes
  <2>3. \A r \in Run : Prompt(r) \in Job
    BY JobFacts DEF Prompt
  <2>4. \A r \in Run : AllSaid(r) => AllSaid(r)'
    BY <2>1, <2>2, <2>3 DEF AllSaid, Marked, Prompt
  <2>5. sup \in {"apply", "settle", "finalise"} => no \in Run
    BY DEF Control, Watched
  <2> QED BY <2>1, <2>2, <2>3, <2>4, <2>5 DEF Told, Control
<1>23. ASSUME NEW j \in Job, HarnessSays(j) PROVE Told'
  <2>1. UNCHANGED <<no, open, outcome, filed, sup, text, result, at, harness>>
    BY <1>23 DEF HarnessSays, storeVars, supVars
  <2>2. \A i \in Job : Over(i) => Over(i)' /\ said'[i] = said[i]
    BY <1>23 DEF HarnessSays, Over, JobTypes
  <2>3. \A r \in Run : Prompt(r) \in Job
    BY JobFacts DEF Prompt
  <2>4. \A r \in Run : AllSaid(r) => AllSaid(r)'
    BY <2>1, <2>2, <2>3 DEF AllSaid, Marked, Prompt
  <2>5. sup \in {"apply", "settle", "finalise"} => no \in Run
    BY DEF Control, Watched
  <2> QED BY <2>1, <2>2, <2>3, <2>4, <2>5 DEF Told, Control
<1>24. ASSUME NEW j \in Job, NEW c \in {"ok", "bad"}, HarnessEnds(j, c) PROVE Told'
  <2>1. UNCHANGED <<no, open, outcome, filed, sup, text, result, at, said>>
    BY <1>24 DEF HarnessEnds, storeVars, supVars
  <2>2. \A i \in Job : Over(i) => Over(i)'
    BY <1>24 DEF HarnessEnds, Over, JobTypes
  <2>3. \A r \in Run : Prompt(r) \in Job
    BY JobFacts DEF Prompt
  <2>4. \A r \in Run : AllSaid(r) => AllSaid(r)'
    BY <2>1, <2>2, <2>3 DEF AllSaid, Marked, Prompt
  <2>5. sup \in {"apply", "settle", "finalise"} => no \in Run
    BY DEF Control, Watched
  <2> QED BY <2>1, <2>2, <2>3, <2>4, <2>5 DEF Told, Control
<1>25. CASE UNCHANGED vars
  BY <1>1, <1>25 DEF vars, storeVars, supVars, fileVars, procVars
<1> QED BY <1>2, <1>3, <1>4, <1>5, <1>6, <1>7, <1>8, <1>9, <1>10, <1>11, <1>12, <1>13,
       <1>14, <1>15, <1>16, <1>17, <1>18, <1>19, <1>20, <1>21, <1>22, <1>23, <1>24,
       <1>25
       DEF Next, Reconciling, Dispatching, Wrapping, Working

-----------------------------------------------------------------------------
(* Unless it may be read torn, an empty exit file is one being written.     *)
Filling == \A j \in Job : exit[j] = "empty" => wrapper[j] = "closing"

(* A wrapper whose exit file must not be read torn stays there to fill it.  *)
LEMMA FillingStep ==
  ASSUME StoreTypes, JobTypes, Control, Jobs, Filling, "torn" \notin Hazards, [Next]_vars
  PROVE  Filling'
<1>1. UNCHANGED <<exit, wrapper>> => Filling'
  BY DEF Filling, JobTypes
<1>2. CASE Start \/ NothingOpen \/ SettleLost \/ Finalise \/ Adopt \/ OpenRun \/
           TickEnds \/ Launch \/ LaunchFails \/ PollTail \/ Apply \/ Settle \/ Crash
  BY <1>1, <1>2 DEF Start, NothingOpen, SettleLost, Finalise, Adopt, OpenRun, TickEnds,
     Launch, LaunchFails, PollTail, Apply, Settle, Crash, storeVars, supVars, fileVars,
     procVars
<1>3. ASSUME NEW j \in Job,
             Flush(j) \/ HarnessWorks(j) \/ HarnessSays(j) \/ Beat(j) \/
             BeatAges(j) \/ (\E c \in {"ok", "bad"} : HarnessEnds(j, c))
      PROVE  Filling'
  BY <1>1, <1>3 DEF Flush, HarnessWorks, HarnessSays, Beat, BeatAges, HarnessEnds,
     storeVars, supVars, fileVars, procVars
<1>4. CASE Finalised
  BY <1>4 DEF Finalised, procVars, RemoveDir, SettleRun, Filling, JobTypes
<1>5. CASE KillOrphan
  BY <1>5 DEF KillOrphan, storeVars, supVars, HasDir, Exited, Alive, RemoveDir,
     KillTurn, Recorded, Filling, JobTypes
<1>6. CASE SendKeys
  <2>1. at \in Job /\ wrapper[at] = "none"
    BY <1>6 DEF SendKeys, Control, HasDir, StoreTypes
  <2>2. exit[at] = "absent"
    BY <2>1 DEF Jobs, JobOK
  <2> QED BY <1>6, <2>1, <2>2 DEF SendKeys, Filling, JobTypes, fileVars
<1>7. CASE PollExit
  BY <1>7 DEF PollExit, storeVars, procVars, Exited, Torn, ReadCode, RemoveDir, Filling,
     JobTypes
<1>8. CASE PollFails
  BY <1>8 DEF PollFails, storeVars, Exited, RemoveDir, KillTurn, Filling, JobTypes
<1>9. ASSUME NEW j \in Job, WrapperStarts(j) PROVE Filling'
  BY <1>9 DEF WrapperStarts, storeVars, supVars, fileVars, Filling, JobTypes
<1>10. ASSUME NEW j \in Job, WrapperPublishes(j) PROVE Filling'
  BY <1>10 DEF WrapperPublishes, storeVars, supVars, Writes, Filling, JobTypes
<1>11. ASSUME NEW j \in Job, WrapperCloses(j) PROVE Filling'
  BY <1>11 DEF WrapperCloses, storeVars, supVars, Writes, Filling, JobTypes
<1>12. ASSUME NEW j \in Job, ExitCreated(j) PROVE Filling'
  BY <1>12 DEF ExitCreated, storeVars, supVars, procVars, Exited, FlushedAll, Filling,
     JobTypes
<1>13. ASSUME NEW j \in Job, WrapperExits(j) PROVE Filling'
  BY <1>13 DEF WrapperExits, storeVars, supVars, Exited, Writes, FlushedAll, Filling,
     JobTypes, Jobs, JobOK
<1>14. ASSUME NEW j \in Job, WrapperDies(j) PROVE Filling'
  BY <1>14 DEF WrapperDies, storeVars, supVars, fileVars, Torn, Filling, JobTypes
<1>15. CASE UNCHANGED vars
  BY <1>1, <1>15 DEF vars, storeVars, supVars, fileVars, procVars
<1> QED BY <1>2, <1>3, <1>4, <1>5, <1>6, <1>7, <1>8, <1>9, <1>10, <1>11, <1>12, <1>13,
       <1>14, <1>15
       DEF Next, Reconciling, Dispatching, Wrapping, Working

(* A supervisor that dies with ensureSession's job recorded would have the  *)
(* reconciler take that job's exit code for the turn's.                     *)
Truth ==
  /\ HasDir /\ at[2] = "ensure" => sup \in {"type", "watch"}
  /\ sup \in {"apply", "settle", "finalise"} /\ result = "ok" => code[Prompt(no)] = "ok"
  /\ TruthfulResult

(* A result that counts as a success is read from the exit file of the      *)
(* run's prompt, by the poll or by the reconciler.                          *)
LEMMA TruthStep ==
  ASSUME StoreTypes, JobTypes, Control, Jobs, Told, Filling, Truth,
         {"torn", "ensure"} \cap Hazards = {}, [Next]_vars
  PROVE  Truth'
<1>1. UNCHANGED <<no, outcome, sup, at, result, dir, code>> => Truth'
  BY DEF Truth, TruthfulResult, HasDir, Prompt
<1>2. CASE PollTail
  BY <1>1, <1>2 DEF PollTail, supVars, fileVars, procVars
<1>3. ASSUME NEW j \in Job,
             WrapperStarts(j) \/ WrapperPublishes(j) \/ Flush(j) \/
             WrapperCloses(j) \/ ExitCreated(j) \/ WrapperExits(j) \/
             HarnessWorks(j) \/ HarnessSays(j) \/ WrapperDies(j) \/ Beat(j) \/
             BeatAges(j)
      PROVE  Truth'
  BY <1>1, <1>3 DEF WrapperStarts, WrapperPublishes, Flush, WrapperCloses, ExitCreated,
     WrapperExits, HarnessWorks, HarnessSays, WrapperDies, Beat, BeatAges, storeVars,
     supVars, fileVars, procVars
<1>4. CASE Start
  BY <1>4 DEF Start, storeVars, fileVars, procVars, Truth, TruthfulResult, HasDir,
     Prompt
<1>5. CASE NothingOpen
  BY <1>5 DEF NothingOpen, storeVars, fileVars, procVars, Truth, TruthfulResult, HasDir,
     Prompt
<1>6. CASE SettleLost
  <2>1. no \in Run
    BY <1>6 DEF SettleLost, Control, Watched
  <2>2. /\ UNCHANGED <<no, at, code>> /\ sup' = "tick"
        /\ outcome' = [outcome EXCEPT ![no] = "retry"]
    BY <1>6 DEF SettleLost, SettleRun, procVars
  <2>3. HasDir' => HasDir /\ sup \notin {"type", "watch"}
    BY <1>6 DEF SettleLost, HasDir, RemoveDir, fileVars, JobTypes
  <2>4. \A r \in Run : outcome'[r] = IF r # no THEN outcome[r] ELSE "retry"
    BY <2>1, <2>2 DEF StoreTypes
  <2>5. ("retry") = "ok" => code[Prompt(no)] = "ok"
    BY <1>6 DEF SettleLost, Truth
  <2> QED BY <2>2, <2>3, <2>4, <2>5 DEF Truth, TruthfulResult, Prompt
<1>7. CASE Finalise
  <2>1. at \in Job /\ no \in Run /\ at[1] = no /\ sup = "reconcile"
    BY <1>7 DEF Finalise, Recorded, HasDir, StoreTypes, Control
  <2>2. at = Prompt(no)
    BY <1>7, <2>1, JobFacts DEF Finalise, Recorded, Truth, Prompt
  <2>3. result' = exit[at]
    BY <1>7, <2>1 DEF Finalise, ReadCode, Torn
  <2>4. result' = "ok" => code[Prompt(no)] = "ok"
    BY <2>1, <2>2, <2>3 DEF Jobs, JobOK, Exited
  <2> QED BY <1>7, <2>1, <2>2, <2>4 DEF Finalise, Truth, TruthfulResult, HasDir, Prompt,
         fileVars,
            procVars
<1>8. CASE Finalised
  <2>1. no \in Run
    BY <1>8 DEF Finalised, Control, Watched
  <2>2. /\ UNCHANGED <<no, at, code>> /\ sup' = "tick"
        /\ outcome' = [outcome EXCEPT ![no] = IF result = "ok" THEN "ok" ELSE "bad"]
    BY <1>8 DEF Finalised, SettleRun, procVars
  <2>3. HasDir' => HasDir /\ sup \notin {"type", "watch"}
    BY <1>8 DEF Finalised, HasDir, RemoveDir, fileVars, JobTypes
  <2>4. \A r \in Run : outcome'[r] = IF r # no THEN outcome[r]
                                     ELSE IF result = "ok" THEN "ok" ELSE "bad"
    BY <2>1, <2>2 DEF StoreTypes
  <2>5. (IF result = "ok" THEN "ok" ELSE "bad") = "ok" => code[Prompt(no)] = "ok"
    BY <1>8 DEF Finalised, Truth
  <2> QED BY <2>2, <2>3, <2>4, <2>5 DEF Truth, TruthfulResult, Prompt
<1>9. CASE Adopt
  BY <1>9 DEF Adopt, fileVars, procVars, HasDir, Exited, Alive, Already, FileReports,
     Recorded, Truth, TruthfulResult, Prompt
<1>10. CASE KillOrphan
  BY <1>10 DEF KillOrphan, storeVars, supVars, HasDir, Exited, Alive, RemoveDir,
     KillTurn, Recorded, Truth, TruthfulResult, Prompt, JobTypes
<1>11. CASE OpenRun
  BY <1>11 DEF OpenRun, fileVars, procVars, Truth, TruthfulResult, HasDir, Prompt,
     Control
<1>12. CASE TickEnds
  BY <1>12 DEF TickEnds, storeVars, fileVars, procVars, Truth, TruthfulResult, HasDir,
     Prompt
<1>13. CASE Launch
  BY <1>13 DEF Launch, procVars, Truth, TruthfulResult, HasDir, Prompt, Control, Watched
<1>14. CASE LaunchFails
  BY <1>14 DEF LaunchFails, storeVars, fileVars, procVars, Truth, TruthfulResult,
     HasDir, Prompt
<1>15. CASE SendKeys
  BY <1>15 DEF SendKeys, storeVars, fileVars, Truth, TruthfulResult, HasDir, Prompt
<1>16. CASE PollExit
  <2>1. at \in Job /\ at = <<no, want>> /\ Exited(at)
    BY <1>16 DEF PollExit, Control, HasDir, StoreTypes
  <2>2. UNCHANGED <<no, at, outcome, code>> /\ ~HasDir'
    BY <1>16, <2>1 DEF PollExit, storeVars, procVars, RemoveDir, HasDir, JobTypes
  <2>3. ReadCode(at) = exit[at]
    BY <1>16, <2>1 DEF PollExit, ReadCode, Torn
  <2>4. sup' = "apply" /\ result' = "ok" => at = Prompt(no) /\ exit[at] = "ok"
    BY <1>16, <2>1, <2>3, JobFacts DEF PollExit, Prompt
  <2>5. exit[at] = "ok" => code[at] = "ok"
    BY <2>1 DEF Jobs, JobOK
  <2>6. sup' = "settle" => result' = "bad"
    BY <1>16 DEF PollExit
  <2>7. sup' \in {"launch", "settle", "apply"}
    BY <1>16 DEF PollExit
  <2> QED BY <2>2, <2>4, <2>5, <2>6, <2>7 DEF Truth, TruthfulResult, Prompt
<1>17. CASE PollFails
  <2>1. at \in Job
    BY <1>17 DEF PollFails, Control, HasDir, StoreTypes
  <2>2. UNCHANGED <<no, at, outcome, code>> /\ ~HasDir' /\ result' = "bad"
    BY <1>17, <2>1 DEF PollFails, storeVars, RemoveDir, HasDir, JobTypes
  <2> QED BY <2>2 DEF Truth, TruthfulResult, Prompt
<1>18. CASE Apply
  BY <1>18 DEF Apply, fileVars, procVars, Already, FileReports, Acts, FileSends, Truth,
     TruthfulResult, HasDir, Prompt, Control
<1>19. CASE Settle
  <2>1. no \in Run
    BY <1>19 DEF Settle, Control, Watched
  <2>2. /\ UNCHANGED <<no, at, code>> /\ sup' = "tick"
        /\ outcome' = [outcome EXCEPT ![no] = result]
    BY <1>19 DEF Settle, SettleRun, procVars
  <2>3. HasDir' => HasDir /\ sup \notin {"type", "watch"}
    BY <1>19 DEF Settle, HasDir, RemoveDir, fileVars, JobTypes
  <2>4. \A r \in Run : outcome'[r] = IF r # no THEN outcome[r] ELSE result
    BY <2>1, <2>2 DEF StoreTypes
  <2>5. (result) = "ok" => code[Prompt(no)] = "ok"
    BY <1>19 DEF Settle, Truth
  <2> QED BY <2>2, <2>3, <2>4, <2>5 DEF Truth, TruthfulResult, Prompt
<1>20. CASE Crash
  BY <1>20 DEF Crash, storeVars, fileVars, procVars, HasDir, MayDie, Watched, Truth,
     TruthfulResult, Prompt, Control
<1>21. ASSUME NEW j \in Job, NEW c \in {"ok", "bad"}, HarnessEnds(j, c) PROVE Truth'
  <2>1. UNCHANGED <<no, outcome, sup, at, result, dir>>
    BY <1>21 DEF HarnessEnds, storeVars, supVars, fileVars
  <2>2. code[j] = "none" /\ code' = [code EXCEPT ![j] = c]
    BY <1>21 DEF HarnessEnds, Jobs, JobOK
  <2>3. \A i \in Job : code[i] = "ok" => code'[i] = "ok"
    BY <2>2 DEF JobTypes
  <2>4. \A r \in Run : Prompt(r) \in Job
    BY JobFacts DEF Prompt
  <2>5. sup \in {"apply", "settle", "finalise"} => no \in Run
    BY DEF Control, Watched
  <2> QED BY <2>1, <2>3, <2>4, <2>5 DEF Truth, TruthfulResult, HasDir, Prompt
<1>22. CASE UNCHANGED vars
  BY <1>1, <1>22 DEF vars, storeVars, supVars, fileVars, procVars
<1> QED BY <1>2, <1>3, <1>4, <1>5, <1>6, <1>7, <1>8, <1>9, <1>10, <1>11, <1>12, <1>13,
       <1>14, <1>15, <1>16, <1>17, <1>18, <1>19, <1>20, <1>21, <1>22
       DEF Next, Reconciling, Dispatching, Wrapping, Working

(* A run that has sent is on its way to be settled as a success, or left an *)
(* exit file that says so to the next reconciler.                           *)
Unacted ==
  /\ \A r \in Run : r > no => sent[r] = 0
  /\ open /\ sent[no] > 0 => \/ sup = "settle" /\ result = "ok"
                             \/ ~Watched /\ HasDir /\ exit[at] = "ok"
  /\ sup = "finalise" => result = exit[at]
  /\ RetriesDidNotAct

(* The lines that act are filed once, with the result that settles the      *)
(* run; whoever files them first either settles the run as a success or     *)
(* leaves its exit file to one who will.                                    *)
LEMMA UnactedStep ==
  ASSUME StoreTypes, JobTypes, Control, Jobs, Told, Filling, Unacted,
         {"torn", "acted"} \cap Hazards = {}, [Next]_vars
  PROVE  Unacted'
<1>1. UNCHANGED <<no, open, outcome, sent, sup, at, result, dir, exit>> => Unacted'
  BY DEF Unacted, RetriesDidNotAct, HasDir, Watched
<1>2. CASE PollTail
  BY <1>1, <1>2 DEF PollTail, supVars, fileVars, procVars
<1>3. ASSUME NEW j \in Job,
             WrapperStarts(j) \/ WrapperPublishes(j) \/ Flush(j) \/
             WrapperCloses(j) \/ HarnessWorks(j) \/ HarnessSays(j) \/
             WrapperDies(j) \/ Beat(j) \/ BeatAges(j) \/
             (\E c \in {"ok", "bad"} : HarnessEnds(j, c))
      PROVE  Unacted'
  BY <1>1, <1>3 DEF WrapperStarts, WrapperPublishes, Flush, WrapperCloses, HarnessWorks,
     HarnessSays, WrapperDies, Beat, BeatAges, HarnessEnds, storeVars, supVars,
     fileVars, procVars
<1>4. CASE Start
  BY <1>4 DEF Start, storeVars, fileVars, procVars, Unacted, RetriesDidNotAct, HasDir,
     Watched
<1>5. CASE NothingOpen
  BY <1>5 DEF NothingOpen, storeVars, fileVars, procVars, Unacted, RetriesDidNotAct,
     HasDir, Watched
<1>6. CASE SettleLost
  <2>1. no \in Run /\ open
    BY <1>6 DEF SettleLost, Control, Watched
  <2>2. /\ UNCHANGED <<no, sent>> /\ sup' = "tick" /\ ~open'
        /\ outcome' = [outcome EXCEPT ![no] = "retry"]
    BY <1>6 DEF SettleLost, SettleRun
  <2>3. \A r \in Run : outcome'[r] = IF r # no THEN outcome[r] ELSE "retry"
    BY <2>1, <2>2 DEF StoreTypes
  <2>4. sent[no] > 0 => ("retry") = "ok"
    BY <1>6, <2>1 DEF SettleLost, Unacted, Watched
  <2>5. sent[no] \in Nat
    BY <2>1 DEF StoreTypes
  <2>6. ("retry") # "ok" => sent[no] = 0
    BY <2>4, <2>5
  <2> QED BY <2>1, <2>2, <2>3, <2>6 DEF Unacted, RetriesDidNotAct
<1>7. CASE Finalise
  <2>1. at \in Job /\ no \in Run /\ open /\ sup = "reconcile" /\ exit[at] # "absent"
    BY <1>7 DEF Finalise, Recorded, HasDir, StoreTypes, Control, Exited
  <2>2. exit[at] # "empty"
    BY <1>7, <2>1 DEF Finalise, Torn
  <2>3. /\ result' = exit[at] /\ UNCHANGED <<no, open, at, outcome, dir, exit>>
        /\ sup' = "finalise"
    BY <1>7, <2>2 DEF Finalise, ReadCode, fileVars
  <2>4. CASE exit[at] = "ok"
    <3>1. \A r \in Run \ {no} : sent'[r] = sent[r]
      BY <1>7, <2>1 DEF Finalise, FileSends, StoreTypes
    <3>2. outcome[no] = "none"
      BY <2>1 DEF Told
    <3> QED BY <1>7, <2>1, <2>3, <2>4, <3>1, <3>2, JobFacts
            DEF Unacted, RetriesDidNotAct, Watched, HasDir, Finalise, Recorded
  <2>5. CASE exit[at] # "ok"
    BY <1>7, <2>1, <2>3, <2>5 DEF Finalise, FileSends, Acts, Unacted, RetriesDidNotAct,
       Watched, HasDir
  <2> QED BY <2>4, <2>5
<1>8. CASE Finalised
  <2>1. no \in Run /\ open
    BY <1>8 DEF Finalised, Control, Watched
  <2>2. /\ UNCHANGED <<no, sent>> /\ sup' = "tick" /\ ~open'
        /\ outcome' = [outcome EXCEPT ![no] = IF result = "ok" THEN "ok" ELSE "bad"]
    BY <1>8 DEF Finalised, SettleRun
  <2>3. \A r \in Run : outcome'[r] = IF r # no THEN outcome[r]
                                     ELSE IF result = "ok" THEN "ok" ELSE "bad"
    BY <2>1, <2>2 DEF StoreTypes
  <2>4. sent[no] > 0 => (IF result = "ok" THEN "ok" ELSE "bad") = "ok"
    BY <1>8, <2>1 DEF Finalised, Unacted, Watched
  <2>5. sent[no] \in Nat
    BY <2>1 DEF StoreTypes
  <2>6. (IF result = "ok" THEN "ok" ELSE "bad") # "ok" => sent[no] = 0
    BY <2>4, <2>5
  <2> QED BY <2>1, <2>2, <2>3, <2>6 DEF Unacted, RetriesDidNotAct
<1>9. CASE Adopt
  BY <1>9 DEF Adopt, fileVars, procVars, HasDir, Recorded, Unacted, RetriesDidNotAct,
     Watched
<1>10. CASE KillOrphan
  BY <1>10 DEF KillOrphan, storeVars, supVars, HasDir, Exited, Alive, RemoveDir,
     KillTurn, Recorded, Unacted, RetriesDidNotAct, Watched, Control, StoreTypes,
     JobTypes
<1>11. CASE OpenRun
  <2>1. no' = no + 1 /\ no' \in Run /\ no \in Nat /\ ~Watched
    BY <1>11, ConstantsAssumption DEF OpenRun, Run, StoreTypes, Watched
  <2>2. UNCHANGED <<outcome, sent>> /\ sup' = "launch"
    BY <1>11 DEF OpenRun
  <2>3. \A r \in Run : r > no' => r > no
    BY <2>1, JobFacts
  <2>4. sent'[no'] = 0
    BY <2>1, <2>2 DEF Unacted
  <2> QED BY <2>1, <2>2, <2>3, <2>4 DEF Unacted, RetriesDidNotAct
<1>12. CASE TickEnds
  BY <1>12 DEF TickEnds, storeVars, fileVars, procVars, Unacted, RetriesDidNotAct,
     HasDir, Watched
<1>13. CASE Launch
  BY <1>13 DEF Launch, procVars, Unacted, RetriesDidNotAct, HasDir, Watched
<1>14. CASE LaunchFails
  BY <1>14 DEF LaunchFails, storeVars, fileVars, procVars, Unacted, RetriesDidNotAct,
     HasDir, Watched
<1>15. CASE SendKeys
  BY <1>15 DEF SendKeys, storeVars, fileVars, Unacted, RetriesDidNotAct, HasDir, Watched
<1>16. CASE PollExit
  BY <1>16 DEF PollExit, storeVars, procVars, Exited, Torn, ReadCode, RemoveDir,
     Unacted, RetriesDidNotAct, HasDir, Watched
<1>17. CASE PollFails
  BY <1>17 DEF PollFails, storeVars, RemoveDir, Unacted, RetriesDidNotAct, HasDir,
     Watched
<1>18. CASE Apply
  <2>1. no \in Run /\ open /\ outcome[no] = "none"
    BY <1>18 DEF Apply, Control, Watched, Told
  <2>2. UNCHANGED <<no, open, outcome, result>> /\ sup' = "settle"
    BY <1>18 DEF Apply
  <2>3. CASE result = "ok"
    <3>1. \A r \in Run \ {no} : sent'[r] = sent[r]
      BY <1>18, <2>1 DEF Apply, FileSends, StoreTypes
    <3>2. \A r \in Run : r > no' => sent'[r] = 0
      BY <2>1, <2>2, <3>1, JobFacts DEF Unacted
    <3>3. RetriesDidNotAct'
      BY <2>1, <2>2, <3>1 DEF Unacted, RetriesDidNotAct
    <3>4. sup' = "settle" /\ result' = "ok"
      BY <2>2, <2>3
    <3> HIDE DEF RetriesDidNotAct
    <3> QED BY <3>2, <3>3, <3>4 DEF Unacted, Watched
  <2>4. CASE result # "ok"
    <3>1. UNCHANGED sent
      BY <1>18, <2>4 DEF Apply, FileSends, Acts
    <3> QED BY <1>18, <2>1, <2>2, <2>4, <3>1 DEF Apply, Unacted, RetriesDidNotAct, Watched
  <2> QED BY <2>3, <2>4
<1>19. CASE Settle
  <2>1. no \in Run /\ open
    BY <1>19 DEF Settle, Control, Watched
  <2>2. /\ UNCHANGED <<no, sent>> /\ sup' = "tick" /\ ~open'
        /\ outcome' = [outcome EXCEPT ![no] = result]
    BY <1>19 DEF Settle, SettleRun
  <2>3. \A r \in Run : outcome'[r] = IF r # no THEN outcome[r] ELSE result
    BY <2>1, <2>2 DEF StoreTypes
  <2>4. sent[no] > 0 => (result) = "ok"
    BY <1>19, <2>1 DEF Settle, Unacted, Watched
  <2>5. sent[no] \in Nat
    BY <2>1 DEF StoreTypes
  <2>6. (result) # "ok" => sent[no] = 0
    BY <2>4, <2>5
  <2> QED BY <2>1, <2>2, <2>3, <2>6 DEF Unacted, RetriesDidNotAct
<1>20. CASE Crash
  BY <1>20 DEF Crash, storeVars, fileVars, procVars, HasDir, MayDie, Watched, Unacted,
     RetriesDidNotAct
<1>21. ASSUME NEW j \in Job, ExitCreated(j) PROVE Unacted'
  <2>1. \A i \in Job : exit[i] # "absent" => exit'[i] = exit[i]
    BY <1>21 DEF ExitCreated, Exited, JobTypes
  <2>2. UNCHANGED <<no, open, outcome, sent, sup, at, result, dir>>
    BY <1>21 DEF ExitCreated, storeVars, supVars
  <2>3. HasDir => at \in Job
    BY DEF HasDir, StoreTypes
  <2>4. sup = "finalise" => HasDir /\ Exited(at)
    BY DEF Control
  <2> QED BY <2>1, <2>2, <2>3, <2>4 DEF Unacted, RetriesDidNotAct, HasDir, Watched, Exited
<1>22. ASSUME NEW j \in Job, WrapperExits(j) PROVE Unacted'
  <2>1. \A i \in Job :
          exit[i] = "ok" \/ (exit[i] # "empty" /\ exit[i] # "absent") => exit'[i] = exit[i]
    BY <1>22 DEF WrapperExits, Writes, JobTypes, Jobs, JobOK, Exited
  <2>2. UNCHANGED <<no, open, outcome, sent, sup, at, result, dir>>
    BY <1>22 DEF WrapperExits, storeVars, supVars
  <2>3. HasDir => at \in Job
    BY DEF HasDir, StoreTypes
  <2>4. sup = "finalise" => HasDir /\ result # "none" /\ result \in {"none", "ok", "bad"}
    BY DEF Control, StoreTypes
  <2> QED BY <2>1, <2>2, <2>3, <2>4 DEF Unacted, RetriesDidNotAct, HasDir, Watched
<1>23. CASE UNCHANGED vars
  BY <1>1, <1>23 DEF vars, storeVars, supVars, fileVars, procVars
<1> QED BY <1>2, <1>3, <1>4, <1>5, <1>6, <1>7, <1>8, <1>9, <1>10, <1>11, <1>12, <1>13,
       <1>14, <1>15, <1>16, <1>17, <1>18, <1>19, <1>20, <1>21, <1>22, <1>23
       DEF Next, Reconciling, Dispatching, Wrapping, Working

(* Unless a job may be given up before started.json, a harness at work has  *)
(* its wrapper's word in the job directory or was told to end.              *)
Noticed ==
  \A j \in Job : harness[j] \in {"queued", "working"} =>
    IF dir[j] = "here" THEN wrapper[j] = "spawning" \/ beat[j] # "none" ELSE j \in termed

(* Whoever removes a job's directory has read in it who to send SIGTERM     *)
(* to, or that there is nobody left.                                        *)
LEMMA NoticedStep ==
  ASSUME StoreTypes, JobTypes, Control, Jobs, Noticed, "spawn" \notin Hazards, [Next]_vars
  PROVE  Noticed'
<1>1. UNCHANGED <<dir, beat, wrapper, harness, termed>> => Noticed'
  BY DEF Noticed, JobTypes
<1>2. CASE Start \/ NothingOpen \/ SettleLost \/ Finalise \/ Adopt \/ OpenRun \/
           TickEnds \/ LaunchFails \/ PollTail \/ Apply \/ Settle \/ Crash
  BY <1>1, <1>2 DEF Start, NothingOpen, SettleLost, Finalise, Adopt, OpenRun, TickEnds,
     LaunchFails, PollTail, Apply, Settle, Crash, storeVars, supVars, fileVars, procVars
<1>3. ASSUME NEW j \in Job, Flush(j) \/ ExitCreated(j) \/ HarnessSays(j)
      PROVE  Noticed'
  BY <1>1, <1>3 DEF Flush, ExitCreated, HarnessSays, storeVars, supVars, fileVars,
     procVars
<1>4. CASE Finalised
  <2>1. at \in Job /\ Exited(at)
    BY <1>4 DEF Finalised, HasDir, StoreTypes, Control
  <2>2. harness[at] = "ended"
    BY <2>1 DEF Jobs, JobOK
  <2> QED BY <1>4, <2>1, <2>2 DEF Finalised, RemoveDir, Noticed, JobTypes, procVars
<1>5. CASE KillOrphan
  <2>1. at \in Job /\ wrapper[at] # "spawning"
    BY <1>5 DEF KillOrphan, Recorded, HasDir, StoreTypes, Control
  <2> QED BY <1>5, <2>1 DEF KillOrphan, Recorded, KillTurn, RemoveDir, Noticed, JobTypes,
         HasDir
<1>6. CASE Launch
  <2>1. at' \in Job /\ dir[at'] = "absent"
    BY <1>6, Launched
  <2>3. harness[at'] = "none"
    BY <2>1 DEF Jobs, JobOK
  <2> QED BY <1>6, <2>1, <2>3 DEF Launch, Noticed, JobTypes, procVars
<1>7. CASE SendKeys
  <2>1. at \in Job /\ wrapper[at] = "none"
    BY <1>7 DEF SendKeys, HasDir, StoreTypes, Control
  <2>2. harness[at] = "none"
    BY <2>1 DEF Jobs, JobOK
  <2> QED BY <1>7, <2>1, <2>2 DEF SendKeys, Noticed, JobTypes, fileVars
<1>8. CASE PollExit
  <2>1. at \in Job /\ Exited(at)
    BY <1>8 DEF PollExit, HasDir, StoreTypes, Control
  <2>2. harness[at] = "ended"
    BY <2>1 DEF Jobs, JobOK
  <2> QED BY <1>8, <2>1, <2>2 DEF PollExit, RemoveDir, Noticed, JobTypes, procVars
<1>9. CASE PollFails
  <2>1. at \in Job /\ wrapper[at] # "spawning"
    BY <1>9 DEF PollFails, HasDir, StoreTypes, Control
  <2> QED BY <1>9, <2>1 DEF PollFails, KillTurn, RemoveDir, Noticed, JobTypes, Control,
         HasDir
<1>10. ASSUME NEW j \in Job, WrapperStarts(j) PROVE Noticed'
  BY <1>10 DEF WrapperStarts, storeVars, supVars, fileVars, Noticed, JobTypes
<1>11. ASSUME NEW j \in Job, WrapperPublishes(j) PROVE Noticed'
  BY <1>11 DEF WrapperPublishes, storeVars, supVars, Writes, Noticed, JobTypes
<1>12. ASSUME NEW j \in Job, WrapperCloses(j) PROVE Noticed'
  BY <1>12, JobFacts DEF WrapperCloses, storeVars, supVars, Writes, Noticed, JobTypes
<1>13. ASSUME NEW j \in Job, WrapperExits(j) PROVE Noticed'
  BY <1>13 DEF WrapperExits, storeVars, supVars, Exited, Writes, Noticed, JobTypes
<1>14. ASSUME NEW j \in Job, HarnessWorks(j) PROVE Noticed'
  BY <1>14 DEF HarnessWorks, storeVars, supVars, fileVars, Noticed, JobTypes
<1>15. ASSUME NEW j \in Job, NEW c \in {"ok", "bad"}, HarnessEnds(j, c) PROVE Noticed'
  BY <1>15 DEF HarnessEnds, storeVars, supVars, fileVars, Noticed, JobTypes
<1>16. ASSUME NEW j \in Job, WrapperDies(j) PROVE Noticed'
  BY <1>16 DEF WrapperDies, storeVars, supVars, fileVars, Noticed, JobTypes
<1>17. ASSUME NEW j \in Job, Beat(j) PROVE Noticed'
  BY <1>17 DEF Beat, storeVars, supVars, procVars, Writes, Noticed, JobTypes
<1>18. ASSUME NEW j \in Job, BeatAges(j) PROVE Noticed'
  BY <1>18 DEF BeatAges, storeVars, supVars, procVars, Noticed, JobTypes
<1>19. CASE UNCHANGED vars
  BY <1>1, <1>19 DEF vars, storeVars, supVars, fileVars, procVars
<1> QED BY <1>2, <1>3, <1>4, <1>5, <1>6, <1>7, <1>8, <1>9, <1>10, <1>11, <1>12, <1>13,
       <1>14, <1>15, <1>16, <1>17, <1>18, <1>19
       DEF Next, Reconciling, Dispatching, Wrapping, Working

-----------------------------------------------------------------------------
(* A step of the run through the phases of Executor, or none.               *)
PhaseMoves == Phase' = Phase \/ Phase' \in E!Moves[Phase]

(* The moves of Executor, one by one.                                       *)
LEMMA MovesAre ==
  /\ E!Moves["none"] = {"opened"} /\ E!Moves["opened"] = {"session", "none"}
  /\ E!Moves["session"] = {"running", "exited", "lost", "none"}
  /\ E!Moves["running"] = {"exited", "lost", "applying"}
  /\ E!Moves["exited"] = {"applying"} /\ E!Moves["lost"] = {"none"}
  /\ E!Moves["applying"] = {"none", "waiting", "exited", "lost"}
  /\ DOMAIN E!Moves = {"none", "opened", "session", "running", "exited", "applying", "lost",
                       "waiting"}
BY DEF E!Moves

(* Every state of a turn is in a phase Executor knows.                      *)
LEMMA PhaseTypes == Phase \in DOMAIN E!Moves
BY MovesAre DEF Phase

LEMMA PhaseStep ==
  ASSUME StoreTypes, JobTypes, Control, Jobs, [Next]_vars
  PROVE  PhaseMoves
<1>1. UNCHANGED <<open, at, sup, dir, exit>> => PhaseMoves
  BY DEF PhaseMoves, Phase, HasDir, Exited, Watched
<1>2. CASE PollTail
  BY <1>1, <1>2 DEF PollTail, supVars, fileVars, procVars
<1>3. ASSUME NEW j \in Job,
             WrapperStarts(j) \/ WrapperPublishes(j) \/ Flush(j) \/
             WrapperCloses(j) \/ HarnessWorks(j) \/ HarnessSays(j) \/
             WrapperDies(j) \/ Beat(j) \/ BeatAges(j) \/
             (\E c \in {"ok", "bad"} : HarnessEnds(j, c))
      PROVE  PhaseMoves
  BY <1>1, <1>3 DEF WrapperStarts, WrapperPublishes, Flush, WrapperCloses, HarnessWorks,
     HarnessSays, WrapperDies, Beat, BeatAges, HarnessEnds, storeVars, supVars,
     fileVars, procVars
<1>4. CASE Start
  BY <1>4, MovesAre DEF Start, storeVars, fileVars, procVars, PhaseMoves, Phase, HasDir,
     Exited, Watched
<1>5. CASE NothingOpen
  BY <1>5, MovesAre DEF NothingOpen, storeVars, fileVars, procVars, PhaseMoves, Phase,
     HasDir, Exited, Watched
<1>6. CASE SettleLost
  BY <1>6, MovesAre DEF SettleLost, fileVars, procVars, HasDir, SettleRun, PhaseMoves,
     Phase, Exited, Watched, Control, StoreTypes
<1>7. CASE Finalise
  BY <1>7, MovesAre DEF Finalise, fileVars, procVars, HasDir, Exited, Already,
     FileReports, Acts, FileSends, Recorded, PhaseMoves, Phase, Watched, Control,
     StoreTypes
<1>8. CASE Finalised
  BY <1>8, MovesAre DEF Finalised, procVars, RemoveDir, SettleRun, PhaseMoves, Phase,
     HasDir, Exited, Watched, Control, StoreTypes
<1>9. CASE Adopt
  BY <1>9, MovesAre DEF Adopt, fileVars, procVars, HasDir, Exited, Alive, Already,
     FileReports, Recorded, PhaseMoves, Phase, Watched
<1>10. CASE KillOrphan
  <2>1. Phase \in {"session", "running"}
    BY <1>10, JobFacts DEF KillOrphan, Recorded, Phase, HasDir, Watched, StoreTypes
  <2>2. /\ at \in Job /\ UNCHANGED <<open, at, sup>> /\ ~HasDir'
        /\ sup = "reconcile" /\ open /\ at # NoJob
    BY <1>10 DEF KillOrphan, Recorded, RemoveDir, HasDir, storeVars, supVars, StoreTypes,
       JobTypes
  <2>3. Phase' = "lost"
    BY <2>2 DEF Phase, Watched
  <2> QED BY <2>1, <2>3, MovesAre DEF PhaseMoves
<1>11. CASE OpenRun
  BY <1>11, MovesAre DEF OpenRun, fileVars, procVars, PhaseMoves, Phase, HasDir, Exited,
     Watched, Control, StoreTypes
<1>12. CASE TickEnds
  BY <1>12, MovesAre DEF TickEnds, storeVars, fileVars, procVars, PhaseMoves, Phase,
     HasDir, Exited, Watched
<1>13. CASE Launch
  <2>1. /\ open /\ at' = <<no, want>> /\ at' \in Job /\ at' # NoJob /\ open'
        /\ dir[at'] = "absent"
    BY <1>13, Launched DEF Launch
  <2>2. dir'[at'] = "here" /\ sup' = "type" /\ UNCHANGED exit
    BY <1>13, Launched DEF Launch
  <2>3. CASE want = "ensure"
    <3>1. Phase = "opened"
      BY <1>13, <2>1, <2>3 DEF Launch, Control, Phase
    <3>2. Phase' = "session"
      BY <2>1, <2>2, <2>3 DEF Phase, Watched
    <3> QED BY <3>1, <3>2, MovesAre DEF PhaseMoves
  <2>4. CASE want = "prompt"
    <3>1. Phase = "session"
      BY <1>13, <2>1, <2>4, JobFacts DEF Launch, Control, Phase, Watched
    <3>2. exit[at'] = "absent"
      BY <2>1 DEF Jobs, JobOK
    <3>3. Phase' = "running"
      BY <2>1, <2>2, <2>4, <3>2 DEF Phase, Watched, HasDir, Exited
    <3> QED BY <3>1, <3>3, MovesAre DEF PhaseMoves
  <2> QED BY <2>3, <2>4 DEF StoreTypes
<1>14. CASE LaunchFails
  BY <1>14, MovesAre DEF LaunchFails, storeVars, fileVars, procVars, PhaseMoves, Phase,
     HasDir, Exited, Watched, Control, StoreTypes
<1>15. CASE SendKeys
  BY <1>15, MovesAre DEF SendKeys, storeVars, fileVars, PhaseMoves, Phase, HasDir,
     Exited, Watched, Control, StoreTypes
<1>16. CASE PollExit
  <2>1. at = <<no, want>> /\ HasDir /\ at \in Job /\ open /\ at # NoJob
    BY <1>16 DEF PollExit, Control, HasDir, StoreTypes
  <2>2. UNCHANGED <<open, at>> /\ dir'[at] # "here"
    BY <1>16, <2>1 DEF PollExit, RemoveDir, storeVars, JobTypes
  <2>3. CASE at[2] = "ensure"
    <3>1. Phase = "session"
      BY <1>16, <2>1, <2>3 DEF PollExit, Phase, Watched
    <3>2. sup' \in {"launch", "settle"}
      BY <1>16, <2>3 DEF PollExit
    <3>3. Phase' = "session"
      BY <2>1, <2>2, <2>3, <3>2 DEF Phase, Watched
    <3> QED BY <3>1, <3>3 DEF PhaseMoves
  <2>4. CASE at[2] # "ensure"
    <3>1. Phase = "exited"
      BY <1>16, <2>1, <2>4 DEF PollExit, Phase
    <3>2. Phase' = "applying"
      BY <1>16, <2>1, <2>2, <2>4 DEF PollExit, Phase, Watched
    <3> QED BY <3>1, <3>2, MovesAre DEF PhaseMoves
  <2> QED BY <2>3, <2>4
<1>17. CASE PollFails
  BY <1>17, MovesAre DEF PollFails, storeVars, Exited, RemoveDir, KillTurn, PhaseMoves,
     Phase, HasDir, Watched, Control, StoreTypes
<1>18. CASE Apply
  BY <1>18, MovesAre DEF Apply, fileVars, procVars, Already, FileReports, Acts,
     FileSends, PhaseMoves, Phase, HasDir, Exited, Watched, Control, StoreTypes
<1>19. CASE Settle
  BY <1>19, MovesAre DEF Settle, fileVars, procVars, SettleRun, PhaseMoves, Phase,
     HasDir, Exited, Watched, Control, StoreTypes
<1>20. CASE Crash
  <2>1. UNCHANGED <<open, at, dir, exit>> /\ sup' = "down"
    BY <1>20 DEF Crash, storeVars, fileVars
  <2>2. CASE ~open \/ at = NoJob
    BY <2>1, <2>2 DEF PhaseMoves, Phase
  <2>3. CASE open /\ at # NoJob /\ sup = "finalise"
    <3>1. Phase = "applying" /\ Phase' = "exited"
      BY <2>1, <2>3 DEF Phase, Control, HasDir, Exited, Watched
    <3> QED BY <3>1, MovesAre DEF PhaseMoves
  <2>4. CASE open /\ at # NoJob /\ Watched /\ at[2] = "ensure"
    <3>1. Phase = "session" /\ Phase' \in {"session", "exited", "lost"}
      BY <2>1, <2>4 DEF Phase, Watched
    <3> QED BY <3>1, MovesAre DEF PhaseMoves
  <2>5. CASE open /\ at # NoJob /\ sup \in {"apply", "settle"} /\ at[2] # "ensure"
    <3>1. Phase = "applying" /\ Phase' = "lost"
      BY <2>1, <2>5 DEF Phase, Watched, Control, HasDir
    <3> QED BY <3>1, MovesAre DEF PhaseMoves
  <2>6. CASE /\ open /\ at # NoJob /\ sup \notin {"finalise", "apply", "settle"}
             /\ ~(Watched /\ at[2] = "ensure")
    BY <2>1, <2>6 DEF PhaseMoves, Phase, Watched, HasDir, Exited
  <2> QED BY <2>2, <2>3, <2>4, <2>5, <2>6 DEF Watched
<1>21. ASSUME NEW j \in Job, ExitCreated(j) PROVE PhaseMoves
  BY <1>21, MovesAre, JobFacts DEF ExitCreated, storeVars, supVars, procVars, Exited,
     PhaseMoves, Phase, HasDir, Watched, Control, JobTypes
<1>22. ASSUME NEW j \in Job, WrapperExits(j) PROVE PhaseMoves
  <2>1. \A i \in Job : Exited(i)' <=> Exited(i)
    BY <1>22 DEF WrapperExits, Writes, Exited, JobTypes, Jobs, JobOK
  <2>2. UNCHANGED <<open, at, sup, dir>>
    BY <1>22 DEF WrapperExits, storeVars, supVars
  <2>3. HasDir => at \in Job
    BY DEF HasDir, StoreTypes
  <2>4. Phase' = Phase
    BY <2>1, <2>2, <2>3 DEF Phase, HasDir, Watched
  <2> QED BY <2>4 DEF PhaseMoves
<1>23. CASE UNCHANGED vars
  BY <1>1, <1>23 DEF vars, storeVars, supVars, fileVars, procVars
<1> QED BY <1>2, <1>3, <1>4, <1>5, <1>6, <1>7, <1>8, <1>9, <1>10, <1>11, <1>12, <1>13,
       <1>14, <1>15, <1>16, <1>17, <1>18, <1>19, <1>20, <1>21, <1>22, <1>23
       DEF Next, Reconciling, Dispatching, Wrapping, Working

-----------------------------------------------------------------------------
(* The invariant that needs no assumption on the interference.              *)
TurnInv ==
  /\ StoreTypes /\ JobTypes /\ Control /\ Jobs
  /\ Copies /\ Held /\ Told

(* The invariant holds before the first run,                                *)
LEMMA TurnInit == Init => TurnInv
<1> SUFFICES ASSUME Init PROVE TurnInv
  OBVIOUS
<1>1. StoreTypes
  <2>1. text \in 0..MaxLines /\ no \in 0..MaxRuns
    BY ConstantsAssumption DEF Init
  <2>2. filed \in [Run -> [1..MaxLines -> Nat]]
    BY DEF Init
  <2> QED BY <2>1, <2>2 DEF Init, StoreTypes
<1>2. JobTypes
  BY ConstantsAssumption DEF Init, JobTypes
<1>3. Control
  BY DEF Init, Control, Watched
<1>4. Jobs
  BY DEF Init, Jobs, JobOK, Exited
<1>5. Copies /\ Held
  BY DEF Init, Copies, Held
<1>6. Told
  BY DEF Init, Told
<1> QED BY <1>1, <1>2, <1>3, <1>4, <1>5, <1>6 DEF TurnInv

(* every step keeps it,                                                     *)
LEMMA TurnStep == TurnInv /\ [Next]_vars => TurnInv'
BY StoreTypesStep, JobTypesStep, ControlStep, JobsStep, CopiesStep, HeldStep, ToldStep
   DEF TurnInv

(* and so it holds in every behaviour of Turn.                              *)
LEMMA TurnInvariant == Spec => []TurnInv
BY TurnInit, TurnStep, PTL DEF Spec

(* Every file, process and table keeps its type.                            *)
THEOREM TurnTypes == Spec => []TypeOK
<1>1. TurnInv => TypeOK
  BY Halves DEF TurnInv
<1> QED BY <1>1, TurnInvariant, PTL

(* A run settled as a success has each line of its turn in the thread       *)
(* exactly once, whoever read it how often and whatever died on the way:    *)
(* no interference is assumed away (report.ts: "Each marker lands once").   *)
THEOREM ReportsLandOnce == Spec => []EachLineOnce
<1>1. TurnInv => EachLineOnce
  BY DEF TurnInv, Told, AllSaid, Marked, EachLineOnce
<1> QED BY <1>1, TurnInvariant, PTL

(* A run settled as a success is one whose prompt the harness ended with    *)
(* exit code 0, if no exit file is read before it is filled and the         *)
(* supervisor does not die while ensureSession's job is recorded; the       *)
(* other two interferences are allowed.                                     *)
THEOREM SuccessesAreTrue ==
  {"torn", "ensure"} \cap Hazards = {} => (Spec => []TruthfulResult)
<1> SUFFICES ASSUME {"torn", "ensure"} \cap Hazards = {} PROVE Spec => []TruthfulResult
  OBVIOUS
<1>1. Init => Filling /\ Truth
  BY DEF Init, Filling, Truth, TruthfulResult, HasDir
<1>2. TurnInv /\ Filling /\ Truth /\ [Next]_vars => (Filling /\ Truth)'
  BY FillingStep, TruthStep DEF TurnInv
<1>3. Truth => TruthfulResult
  BY DEF Truth
<1> QED BY <1>1, <1>2, <1>3, TurnInvariant, PTL DEF Spec

(* A run that failed or is retried has sent nothing, if no exit file is     *)
(* read before it is filled and the supervisor does not die between         *)
(* applying a result and settling its run; the other two interferences are  *)
(* allowed.                                                                 *)
THEOREM RetriesAreHarmless ==
  {"torn", "acted"} \cap Hazards = {} => (Spec => []RetriesDidNotAct)
<1> SUFFICES ASSUME {"torn", "acted"} \cap Hazards = {} PROVE Spec => []RetriesDidNotAct
  OBVIOUS
<1>1. Init => Filling /\ Unacted
  BY DEF Init, Filling, Unacted, RetriesDidNotAct
<1>2. TurnInv /\ Filling /\ Unacted /\ [Next]_vars => (Filling /\ Unacted)'
  BY FillingStep, UnactedStep DEF TurnInv
<1>3. Unacted => RetriesDidNotAct
  BY DEF Unacted
<1> QED BY <1>1, <1>2, <1>3, TurnInvariant, PTL DEF Spec

(* A harness that still runs belongs to the job the open run records or     *)
(* was told to end, if no job is given up before its started.json; the      *)
(* other three interferences are allowed.                                   *)
THEOREM NoHarnessIsForgotten == "spawn" \notin Hazards => (Spec => []NoStrayHarness)
<1> SUFFICES ASSUME "spawn" \notin Hazards PROVE Spec => []NoStrayHarness
  OBVIOUS
<1>1. Init => Noticed
  BY DEF Init, Noticed
<1>2. TurnInv /\ Noticed /\ [Next]_vars => Noticed'
  BY NoticedStep DEF TurnInv
<1>3. TurnInv /\ Noticed => NoStrayHarness
  BY DEF TurnInv, Control, Noticed, NoStrayHarness
<1> QED BY <1>1, <1>2, <1>3, TurnInvariant, PTL DEF Spec

(* Turn implements Executor: whatever dies, is killed or is adopted, and    *)
(* with every interference, the run goes through the phases Scheduler       *)
(* assumes, in their order.                                                 *)
THEOREM TurnsRunInOrder == Spec => PhasesInOrder
<1>1. Init => E!Init
  BY DEF Init, E!Init, Phase, Self
<1>2. TurnInv /\ [Next]_vars => [E!Next]_([a \in Self |-> Phase])
  <2> SUFFICES ASSUME TurnInv, [Next]_vars PROVE E!Next
    OBVIOUS
  <2>1. PhaseMoves
    BY PhaseStep DEF TurnInv
  <2>2. Phase \in DOMAIN E!Moves /\ Phase' \in DOMAIN E!Moves
    BY PhaseTypes, MovesAre DEF Phase
  <2> QED BY <2>1, <2>2 DEF E!Next, E!Step, PhaseMoves, Self
<1> QED BY <1>1, <1>2, TurnInvariant, PTL DEF Spec, PhasesInOrder, E!Spec
=============================================================================
