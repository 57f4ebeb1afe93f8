-------------------------------- MODULE Turn --------------------------------
(***************************************************************************)
(* One agent's turns as processes and files: the supervisor that launches  *)
(* and polls (acp/tmux-runner.ts), the wrapper in the agent's tmux pane    *)
(* (acp/pane.ts), the harness acpx runs in the agent's named session, and  *)
(* the reconciler that meets their job directories after a restart         *)
(* (supervisor/reconcile.ts).  A run uses two jobs, ensureSession's and    *)
(* the prompt's.  The text of a turn is a number of REPORT lines, and the  *)
(* SEND lines of its end, which are filed together.                        *)
(*                                                                         *)
(* A definition named Slip... is no part of the system: it is a plausible  *)
(* mistake in the definition below it, which the checks must notice.       *)
(***************************************************************************)
EXTENDS Naturals

CONSTANTS
  MaxRuns,   (* bound on the runs of the agent                             *)
  MaxLines,  (* bound on the REPORT lines of a turn                        *)
  Hazards    (* rare interferences this instance admits, see Hazard        *)

(* "torn": the exit file is read between its creation and its content.     *)
(* "ensure": the supervisor dies while ensureSession's job is recorded.    *)
(* "spawn": the job is given up between spawn and started.json.  "acted":  *)
(* the supervisor dies between applying a result and settling its run.     *)
Hazard == {"torn", "ensure", "spawn", "acted"}

ASSUME ConstantsAssumption ==
  MaxRuns \in Nat \ {0} /\ MaxLines \in Nat /\ Hazards \subseteq Hazard

Run   == 1..MaxRuns
Job   == Run \X {"ensure", "prompt"}
NoJob == <<0, "none">>

VARIABLES
  no, open, at,       (* the latest run, whether it is open, its job_dir    *)
  outcome,            (* how each run was settled                           *)
  filed, sent,        (* copies of each REPORT line, and of the SENDs, filed *)
  sup, want,          (* where the supervisor is, the job it launches next  *)
  text, result,       (* what it read: how many lines, which exit code      *)
  dir, beat, exit,    (* per job: the directory, heartbeat and exit in it   *)
  flushed,            (* per job: lines in stdout.ndjson                    *)
  wrapper, harness,   (* per job: the two processes                         *)
  said, code,         (* per job: lines the harness wrote, its exit status  *)
  termed              (* jobs whose processes were sent SIGTERM             *)

storeVars == <<no, open, at, outcome, filed, sent>>
supVars   == <<sup, want, text, result>>
fileVars  == <<dir, beat, exit, flushed>>
procVars  == <<wrapper, harness, said, code, termed>>
vars      == <<storeVars, supVars, fileVars, procVars>>

TypeOK ==
  /\ no \in 0..MaxRuns /\ open \in BOOLEAN /\ at \in Job \cup {NoJob}
  /\ outcome \in [Run -> {"none", "ok", "bad", "retry"}]
  /\ filed \in [Run -> [1..MaxLines -> Nat]] /\ sent \in [Run -> Nat]
  /\ sup \in {"down", "reconcile", "finalise", "tick", "launch", "type", "watch",
              "apply", "settle"}
  /\ want \in {"ensure", "prompt"}
  /\ text \in 0..MaxLines /\ result \in {"none", "ok", "bad"}
  /\ dir \in [Job -> {"absent", "here", "removed"}]
  /\ beat \in [Job -> {"none", "fresh", "stale"}]
  /\ exit \in [Job -> {"absent", "empty", "ok", "bad"}]
  /\ flushed \in [Job -> 0..MaxLines]
  /\ wrapper \in [Job -> {"none", "typed", "spawning", "up", "closing", "gone"}]
  /\ harness \in [Job -> {"none", "queued", "working", "ended"}]
  /\ said \in [Job -> 0..MaxLines] /\ code \in [Job -> {"none", "ok", "bad"}]
  /\ termed \subseteq Job

Init ==
  /\ no = 0 /\ open = FALSE /\ at = NoJob
  /\ outcome = [r \in Run |-> "none"]
  /\ filed = [r \in Run |-> [l \in 1..MaxLines |-> 0]] /\ sent = [r \in Run |-> 0]
  /\ sup = "down" /\ want = "ensure" /\ text = 0 /\ result = "none"
  /\ dir = [j \in Job |-> "absent"] /\ beat = [j \in Job |-> "none"]
  /\ exit = [j \in Job |-> "absent"] /\ flushed = [j \in Job |-> 0]
  /\ wrapper = [j \in Job |-> "none"] /\ harness = [j \in Job |-> "none"]
  /\ said = [j \in Job |-> 0] /\ code = [j \in Job |-> "none"]
  /\ termed = {}

-----------------------------------------------------------------------------
(* What both the poll and the reconciler do with a job *)

SlipHasDir == at # NoJob
HasDir    == at # NoJob /\ dir[at] = "here"
Exited(j) == exit[j] # "absent"
Alive(j)  == beat[j] = "fresh"

(* Between the exit file's creation and its content only an instance with   *)
(* that hazard lets it be read, or its writer die.                          *)
Torn(j)   == exit[j] = "empty" /\ "torn" \notin Hazards

(* Number('') is 0.                                                         *)
SlipCodeUnread(j)  == "ok"
ReadCode(j) == IF exit[j] = "empty" THEN "ok" ELSE exit[j]

RemoveDir(j) ==
  /\ dir' = [dir EXCEPT ![j] = "removed"]
  /\ beat' = [beat EXCEPT ![j] = "none"]
  /\ exit' = [exit EXCEPT ![j] = "absent"]
  /\ flushed' = [flushed EXCEPT ![j] = 0]

(* killTurn: SIGTERM to the harness's group and to the wrapper, whose ids   *)
(* are in started.json, written just before the first beat.                 *)
SlipKillTurn(j) == termed' = termed
KillTurn(j) ==
  termed' = IF beat[j] = "none" THEN termed ELSE termed \cup {j}

(* ingestMarkers is called with all the text so far, again and again; what  *)
(* this run has already filed is not filed twice.                           *)
Already(n) == n > 0

FileReports(n) ==
  filed' = [filed EXCEPT ![no] =
    [l \in 1..MaxLines |-> IF l > n \/ Already(filed[no][l]) THEN filed[no][l]
                                                             ELSE filed[no][l] + 1]]

SlipActs(res) == TRUE
Acts(res)     == res = "ok"

FileSends(res) ==
  sent' = IF ~Acts(res) \/ Already(sent[no]) THEN sent ELSE [sent EXCEPT ![no] = @ + 1]

SettleRun(res) ==
  /\ open' = FALSE
  /\ outcome' = [outcome EXCEPT ![no] = res]

-----------------------------------------------------------------------------
(* The reconciler, before the first tick and before every tick *)

Start ==
  /\ sup = "down" /\ sup' = "reconcile"
  /\ UNCHANGED <<storeVars, want, text, result, fileVars, procVars>>

NothingOpen ==
  /\ sup = "reconcile" /\ ~open /\ sup' = "tick"
  /\ UNCHANGED <<storeVars, want, text, result, fileVars, procVars>>

SettleLost ==
  /\ sup = "reconcile" /\ open /\ ~HasDir
  /\ SettleRun("retry") /\ sup' = "tick"
  /\ UNCHANGED <<no, at, filed, sent, want, text, result, fileVars, procVars>>

Recorded == sup = "reconcile" /\ open /\ HasDir

Finalise ==
  /\ Recorded /\ Exited(at) /\ ~Torn(at)
  /\ result' = ReadCode(at)
  /\ FileReports(flushed[at]) /\ FileSends(result')
  /\ sup' = "finalise"
  /\ UNCHANGED <<no, open, at, outcome, want, text, fileVars, procVars>>

Finalised ==
  /\ sup = "finalise"
  /\ SettleRun(IF result = "ok" THEN "ok" ELSE "bad") /\ RemoveDir(at)
  /\ sup' = "tick" /\ result' = "none"
  /\ UNCHANGED <<no, at, filed, sent, want, text, procVars>>

Adopt ==
  /\ Recorded /\ ~Exited(at) /\ Alive(at)
  /\ FileReports(flushed[at])
  /\ sup' = "tick"
  /\ UNCHANGED <<no, open, at, outcome, sent, want, text, result, fileVars, procVars>>

(* SettleLost follows in the same pass.                                     *)
KillOrphan ==
  /\ Recorded /\ ~Exited(at) /\ ~Alive(at)
  /\ "spawn" \in Hazards \/ wrapper[at] # "spawning"
  /\ KillTurn(at) /\ RemoveDir(at)
  /\ UNCHANGED <<storeVars, supVars, wrapper, harness, said, code>>

-----------------------------------------------------------------------------
(* A turn: ensureSession's job, then the prompt's *)

SlipOpenRun ==
  /\ sup = "tick" /\ ~open /\ no < MaxRuns
  /\ no' = no + 1 /\ open' = TRUE
  /\ sup' = "launch" /\ want' = "ensure"
  /\ UNCHANGED <<at, outcome, filed, sent, text, result, fileVars, procVars>>

OpenRun ==
  /\ sup = "tick" /\ ~open /\ no < MaxRuns
  /\ no' = no + 1 /\ open' = TRUE /\ at' = NoJob
  /\ sup' = "launch" /\ want' = "ensure"
  /\ UNCHANGED <<outcome, filed, sent, text, result, fileVars, procVars>>

TickEnds ==
  /\ sup = "tick" /\ sup' = "reconcile"
  /\ UNCHANGED <<storeVars, want, text, result, fileVars, procVars>>

(* The job dir exists and the run knows it before anything is started.      *)
Launch ==
  /\ sup = "launch"
  /\ at' = <<no, want>> /\ dir' = [dir EXCEPT ![at'] = "here"]
  /\ sup' = "type"
  /\ UNCHANGED <<no, open, outcome, filed, sent, want, text, result, beat, exit, flushed, procVars>>

(* 'tmux session unavailable'                                               *)
LaunchFails ==
  /\ sup = "launch"
  /\ sup' = "settle" /\ result' = "bad" /\ text' = 0
  /\ UNCHANGED <<storeVars, want, fileVars, procVars>>

SendKeys ==
  /\ sup = "type" /\ sup' = "watch"
  /\ wrapper' = [wrapper EXCEPT ![at] = "typed"]
  /\ UNCHANGED <<storeVars, want, text, result, fileVars, harness, said, code, termed>>

PollTail ==
  /\ sup = "watch" /\ at[2] = "prompt" /\ ~Exited(at) /\ Alive(at)
  /\ FileReports(flushed[at]) /\ filed' # filed
  /\ UNCHANGED <<no, open, at, outcome, sent, supVars, fileVars, procVars>>

PollExit ==
  /\ sup = "watch" /\ Exited(at) /\ ~Torn(at)
  /\ IF at[2] = "ensure"
     THEN /\ IF ReadCode(at) = "ok" THEN sup' = "launch" /\ want' = "prompt" /\ UNCHANGED result
                                    ELSE sup' = "settle" /\ result' = "bad" /\ UNCHANGED want
          /\ text' = 0
     ELSE /\ sup' = "apply" /\ result' = ReadCode(at) /\ text' = flushed[at]
          /\ UNCHANGED want
  /\ RemoveDir(at)
  /\ UNCHANGED <<storeVars, procVars>>

(* 'wrapper died', 'queued behind an orphaned prompt', 'pane timed out'.    *)
(* The capture of a turn given up is not read.                              *)
PollFails ==
  /\ sup = "watch" /\ ~Exited(at)
  /\ "spawn" \in Hazards \/ wrapper[at] # "spawning"
  /\ KillTurn(at) /\ RemoveDir(at)
  /\ sup' = IF at[2] = "ensure" THEN "settle" ELSE "apply"
  /\ result' = "bad" /\ text' = 0
  /\ UNCHANGED <<storeVars, want, wrapper, harness, said, code>>

Apply ==
  /\ sup = "apply" /\ sup' = "settle"
  /\ FileReports(text) /\ FileSends(result)
  /\ UNCHANGED <<no, open, at, outcome, want, text, result, fileVars, procVars>>

Settle ==
  /\ sup = "settle" /\ sup' = "tick"
  /\ SettleRun(result) /\ result' = "none" /\ text' = 0
  /\ UNCHANGED <<no, at, filed, sent, want, fileVars, procVars>>

Watched == sup \in {"launch", "type", "watch", "apply", "settle"}

(* Whether this instance lets the supervisor die here.                      *)
MayDie ==
  /\ "ensure" \in Hazards \/ ~(Watched /\ HasDir /\ at[2] = "ensure")
  /\ "acted" \in Hazards \/ ~(sup = "settle" /\ result = "ok")

Crash ==
  /\ sup # "down" /\ MayDie
  /\ sup' = "down" /\ text' = 0 /\ result' = "none" /\ want' = "ensure"
  /\ UNCHANGED <<storeVars, fileVars, procVars>>

-----------------------------------------------------------------------------
(* The wrapper in the pane *)

(* Its input files may be gone by the time the pane's shell runs it.        *)
WrapperStarts(j) ==
  /\ wrapper[j] = "typed"
  /\ IF dir[j] = "here"
     THEN /\ wrapper' = [wrapper EXCEPT ![j] = "spawning"]
          /\ harness' = [harness EXCEPT ![j] = "queued"]
     ELSE /\ wrapper' = [wrapper EXCEPT ![j] = "gone"]
          /\ UNCHANGED harness
  /\ UNCHANGED <<storeVars, supVars, fileVars, said, code, termed>>

Writes(j, file, value) ==
  file' = IF dir[j] = "here" THEN [file EXCEPT ![j] = value] ELSE file

(* started.json and the first beat.                                         *)
WrapperPublishes(j) ==
  /\ wrapper[j] = "spawning" /\ wrapper' = [wrapper EXCEPT ![j] = "up"]
  /\ Writes(j, beat, "fresh")
  /\ UNCHANGED <<storeVars, supVars, dir, exit, flushed, harness, said, code, termed>>

Beat(j) ==
  /\ wrapper[j] = "up" /\ beat[j] = "stale"
  /\ Writes(j, beat, "fresh")
  /\ UNCHANGED <<storeVars, supVars, dir, exit, flushed, procVars>>

Flush(j) ==
  /\ wrapper[j] \in {"up", "closing"} /\ dir[j] = "here" /\ flushed[j] < said[j]
  /\ flushed' = [flushed EXCEPT ![j] = said[j]]
  /\ UNCHANGED <<storeVars, supVars, dir, beat, exit, procVars>>

WrapperCloses(j) ==
  /\ wrapper[j] = "up" /\ harness[j] = "ended"
  /\ wrapper' = [wrapper EXCEPT ![j] = "closing"]
  /\ Writes(j, beat, "fresh")
  /\ UNCHANGED <<storeVars, supVars, dir, exit, flushed, harness, said, code, termed>>

SlipFlushedAll(j) == TRUE
FlushedAll(j)     == flushed[j] = said[j] \/ dir[j] # "here"

(* writeFileSync creates the file, then fills it.                           *)
ExitCreated(j) ==
  /\ wrapper[j] = "closing" /\ FlushedAll(j) /\ ~Exited(j) /\ dir[j] = "here"
  /\ exit' = [exit EXCEPT ![j] = "empty"]
  /\ UNCHANGED <<storeVars, supVars, dir, beat, flushed, procVars>>

WrapperExits(j) ==
  /\ wrapper[j] = "closing" /\ FlushedAll(j)
  /\ Exited(j) \/ dir[j] # "here"
  /\ wrapper' = [wrapper EXCEPT ![j] = "gone"]
  /\ Writes(j, exit, code[j])
  /\ UNCHANGED <<storeVars, supVars, dir, beat, flushed, harness, said, code, termed>>

(* Killed by SIGTERM, by the owner of the terminal or by the system.        *)
WrapperDies(j) ==
  /\ wrapper[j] \in {"up", "closing"} \cup (IF "spawn" \in Hazards THEN {"spawning"} ELSE {})
  /\ ~Torn(j)
  /\ wrapper' = [wrapper EXCEPT ![j] = "gone"]
  /\ UNCHANGED <<storeVars, supVars, fileVars, harness, said, code, termed>>

(* No beat for ten seconds: the wrapper is gone, or the machine slept.      *)
BeatAges(j) ==
  /\ beat[j] = "fresh" /\ beat' = [beat EXCEPT ![j] = "stale"]
  /\ UNCHANGED <<storeVars, supVars, dir, exit, flushed, procVars>>

-----------------------------------------------------------------------------
(* The harness *)

(* A session runs one prompt at a time; ensuring it does not queue.         *)
HarnessWorks(j) ==
  /\ harness[j] = "queued"
  /\ j[2] = "prompt" => \A i \in Job : i[2] = "prompt" => harness[i] # "working"
  /\ harness' = [harness EXCEPT ![j] = "working"]
  /\ UNCHANGED <<storeVars, supVars, fileVars, wrapper, said, code, termed>>

HarnessSays(j) ==
  /\ harness[j] = "working" /\ wrapper[j] = "up" /\ j[2] = "prompt"
  /\ said[j] < MaxLines
  /\ said' = [said EXCEPT ![j] = @ + 1]
  /\ UNCHANGED <<storeVars, supVars, fileVars, wrapper, harness, code, termed>>

(* Done, failed, past acpx's own --timeout, or killed.                      *)
HarnessEnds(j, c) ==
  /\ harness[j] = "working" \/ (harness[j] = "queued" /\ c = "bad")
  /\ harness' = [harness EXCEPT ![j] = "ended"]
  /\ code' = [code EXCEPT ![j] = c]
  /\ UNCHANGED <<storeVars, supVars, fileVars, wrapper, said, termed>>

-----------------------------------------------------------------------------
(* The specification *)

Reconciling == \/ Start \/ NothingOpen \/ SettleLost \/ Finalise \/ Finalised
               \/ Adopt \/ KillOrphan
Dispatching == \/ OpenRun \/ TickEnds \/ Launch \/ LaunchFails \/ SendKeys
               \/ PollTail \/ PollExit \/ PollFails \/ Apply \/ Settle
Wrapping(j) == \/ WrapperStarts(j) \/ WrapperPublishes(j) \/ Flush(j)
               \/ WrapperCloses(j) \/ ExitCreated(j) \/ WrapperExits(j)
Working(j)  == HarnessWorks(j) \/ \E c \in {"ok", "bad"} : HarnessEnds(j, c)

Next ==
  \/ Reconciling \/ Dispatching \/ Crash
  \/ \E j \in Job : \/ Wrapping(j) \/ Working(j) \/ HarnessSays(j)
                    \/ WrapperDies(j) \/ Beat(j) \/ BeatAges(j)

Spec == Init /\ [][Next]_vars

(* As in Scheduler the loop goes on and from some moment stays up.  A poll  *)
(* ends at its deadline at the latest, a wrapper that started does what is  *)
(* next, acpx ends by its own --timeout, and a wrapper that is gone stops   *)
(* beating.                                                                 *)
FairSpec ==
  /\ Spec
  /\ WF_vars(Reconciling \/ Dispatching) /\ WF_vars(PollExit \/ PollFails)
  /\ \A j \in Job : /\ WF_vars(wrapper[j] # "typed" /\ Wrapping(j)) /\ WF_vars(Working(j))
                    /\ WF_vars(wrapper[j] = "gone" /\ BeatAges(j))
  /\ <>[](sup # "down")

-----------------------------------------------------------------------------
(* Properties *)

Prompt(r) == <<r, "prompt">>

(* A run settled as a success is one whose prompt the harness ended with    *)
(* exit code 0 (outcome.ts, reconcile.ts finalise).                         *)
TruthfulResult == \A r \in Run : outcome[r] = "ok" => code[Prompt(r)] = "ok"

(* A turn that succeeded, watched or not, has each line it reported in the  *)
(* thread exactly once, however often it was read and whoever read it       *)
(* before the supervisor died (report.ts: "Each marker lands once").        *)
EachLineOnce ==
  \A r \in Run : outcome[r] = "ok" =>
    \A l \in 1..MaxLines : filed[r][l] = IF l <= said[Prompt(r)] THEN 1 ELSE 0

(* A run that is retried has sent nothing: the retry would say it again     *)
(* under a new run id, past the dedupe (outcome.ts, applyResult).           *)
RetriesDidNotAct == \A r \in Run : outcome[r] \in {"bad", "retry"} => sent[r] = 0

(* Every harness that still runs has been told to end or belongs to the job *)
(* the open run records, so none keeps the session's queue unnoticed        *)
(* (tmux-runner.ts: "Kill, do not abandon").                                *)
NoStrayHarness ==
  \A j \in Job : harness[j] \in {"queued", "working"} => j \in termed \/ (open /\ at = j)

(* Every run ends, whatever dies on the way.                                *)
RunsSettle == \A r \in Run : open /\ no = r ~> ~(open /\ no = r)

(* The phases of the run that Scheduler sees.                               *)
Phase ==
  IF ~open THEN "none"
  ELSE IF at = NoJob THEN "opened"
  ELSE IF sup = "finalise" THEN "applying"
  ELSE IF Watched /\ at[2] = "ensure" THEN "session"
  ELSE IF sup \in {"apply", "settle"} THEN "applying"
  ELSE IF ~HasDir THEN "lost"
  ELSE IF Exited(at) THEN "exited"
  ELSE IF at[2] = "ensure" THEN "session" ELSE "running"

Self == {"self"}

E == INSTANCE Executor WITH Agent <- Self, phase <- [a \in Self |-> Phase]

(* A turn goes through its phases in the order Scheduler assumes.           *)
PhasesInOrder == E!Spec
=============================================================================
