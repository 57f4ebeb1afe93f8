# Army of Agents: a verification development

TLA+ specifications of Army of Agents, TLC configurations that check them on
small instances, and TLAPS proofs for every instance: the scheduling core and the
turn executor, what the owner decides (plans, spawns and budgets, fan-ins, join
grants, notes, verdicts, rosters), and what runs beside the loop (browser and
terminal tabs, event hooks). Source paths are relative to `src/app/src/`.

## 1. The system

Two processes share one SQLite file. The **supervisor** (`supervisor/main.ts`)
reconciles, ticks, dispatches turns and settles them, forever. The **server**
(`server/main.ts`) answers a workspace: it delivers human messages, records
verdicts, and changes agents, at any moment. A **pane** (`acp/pane.ts`) is a
third process per turn, detached from the supervisor, which outlives it.

| Component | State | Operations | What makes it correct |
| --- | --- | --- | --- |
| Tick and runs (`tick.ts`, `repo.ts`, `main.ts`, `precondition.ts`, `state.ts`) | `agents` (status, next_due_at, wake_reason, streaks), `runs` | select, skip, precondition, back off, open, dispatch, settle, await | one live run per agent; no wake is lost; caps hold across restarts; every run ends |
| Wake rules (`wake.ts`) | none | computeNextWake, isDue | no hot loop; bounded delays; nobody sleeps for good by accident |
| Messages (`messages.ts`) | `messages`, `message_deliveries` | deliver, deliverAndWake, lease; ack, release and dead letter in the settle | at least once; acknowledged only when read |
| Human decisions (`hitl.ts`) | `approval_requests` | ask, answer, cancelAsk, verdictsFor | a verdict reaches the agent; a badge has an open question; a verdict is consumed only when told |
| Turn executor (`acp/tmux-runner.ts`, `pane.ts`, `session.ts`) | job dir: heartbeat, capture, exit sentinel | ensureSession, prompt, poll, kill | a finished turn is not lost, a dead one is noticed |
| Reconciliation (`reconcile.ts`) | `runs.job_dir` | settle lost, adopt, finalise, kill | no run is stranded by a restart |
| Turn result (`outcome.ts`, `report.ts`, `protocol.ts`) | thread, questions, letters | file markers, gate the lane, classify | a failed turn does not act; each line lands once |
| Budget (`budget.ts`), spawn (`orchestrator/spawn.ts`) | accounts, proposals in `meta` | ensureAccount, reserve, settle; propose, activate, reject, reap | never overspent; no capacity is conjured; activated once |
| Plans (`orchestrator/plan.ts`), backlog (`server/api.ts`) | plan list in `meta`, `backlog_items` | parse, propose, apply, reject; add, rank, promote | applied once and wholly, and only by the owner |
| Fan-in, join (`orchestrator/fanin.ts`, `join.ts`) | lists in `meta` | open, select, approve; grant, submit | what is approved is proven, and approved once; a grant is used once, in its time |
| Memory (`memory.ts`) | live and candidate notes in `meta` | propose, review, approve, reject | what becomes durable was reviewed |
| Derived status (`derived.ts`), read models (`api.ts`) | none | derive, needs-you, unread | what is shown as quiet has nothing to do; a badge has a question |
| Bootstrap, import (`orchestrator/bootstrap.ts`, `adapters/import.ts`) | `agents`, channels in `meta` | ensureOrchestrator, runImport | nothing unfamiliar is started, nothing decided is undone |
| Event hook (`hooks.ts`) | a pool of four processes | queue, start, kill, close | after the commit; a hanging hook holds nothing |
| Browser tab (`server/browser.ts`, `main.ts`) | per tab: sockets, a pump, a click; the wheel | attach, grab, click, set control, close | nothing outlives its tab |
| Terminal tab (`server/terminal.ts`, `main.ts`) | tmux sessions and clients | ensure, history, attach, input | lines are read in order and once |
| Isolation, vendor guard, files, doctor, web client, skills | files and processes | | I/O, pattern tables and views |

**How they interact.** A message, a verdict or an activation is one transaction
that also writes the agent's wake (`bumpWake`). The tick reads agents once,
handles them one at a time with an `await` at the precondition, starts turns
without waiting and finally awaits them all. A turn ends in `succeed`, one
transaction that ends the run, disposes of its mail and verdicts and writes the
next wake. A vendor's refusal gates a lane that all agents of that vendor share.
What the owner decides on is mostly a list, one JSON value in a row of `meta`;
the supervisor appends to it (a PROPOSE line, a spawn proposal, a fan-in) while the
server decides entries of it. After a crash nothing is in memory: `reconcile` reads the runs that never ended
and their job dirs.

**What is hard.** Two writers of one agent's wake; reads that are stale when
acted upon; verdicts and mail that arrive while a turn runs; a supervisor that
dies between any two steps and panes that do not; retries with a limit; a cap
that counts the runs of a process that is gone; starvation. Lists that two
processes load whole and write back whole, with or without a transaction. Tabs
that close during an `await`. `PROJECT.json` lists
each such hazard at its line with the properties that watch it.

## 2. The modules

### Scheduler

The store, the supervisor loop, the panes, the server and the clock. One action
is one SQLite transaction, or a stretch of supervisor code whose reads no other
process can invalidate; between two actions of the supervisor every action of
the server, of a pane and a crash may happen.

| State | In the code |
| --- | --- |
| `status`, `due`, `reason` | `agents.status`, `next_due_at` as never / later / now, `wake_reason` |
| `turn[a]` | the live run of agent `a`: absent, row without job, session job, prompt, exit sentinel present, heartbeat stale, result being applied, left without a job dir, `waiting_human` |
| `watched`, `result` | whether this supervisor polls the turn; what the executor left behind |
| `mail`, `ask` | deliveries and questions, each with a history bit: a prompt that carried it ran (`read`, `told`) |
| `gate` | `provider_gates`: no row, blocked_until past, blocked_until ahead |
| `pc`, `todo`, `cur`, `started`, `inFlight` | where the loop is: the rest of the snapshot, the agent in hand, the two counters |

| Actions | In the code |
| --- | --- |
| `Start`, `SettleLost`, `Adopt`, `ReconcileDone`, and `ReadExit`, `Settle` of unwatched turns | `reconcile` |
| `Select`, `Skip`, `Precondition`, `BackoffWithoutRun`, `OpenRun`, `BudgetExhausted`, `PauseExhausted`, `Dispatch`, `LoopEnds`, `TickEnds` | `tick`, in its order |
| `SessionReady`, `SessionFails`, `PollFails`, `ReadExit`, `FileSend`, `FileAsk`, `Settle` | `dispatch`, the poll of `tmuxRunner`, `applyResult`, `runOne` |
| `PaneExits`, `PaneDies` | the pane by itself |
| `HumanMessage`, `Promote`, `Answer`, `CancelAsk`, `Activate`, `PauseAgent`, `RetireAgent` | the server's routes and plan effects |
| `Crash`, `ComesDue`, `LaneReopens` | the process dies; time passes |

Abstractions. A verdict's instant matters only relative to the agent's latest
run: `OpenRun` turns "during" into "before", which is what the comparisons of
`answered_at` with `started_at` in `succeed` read. A `next_due_at` lies in the past or ahead.
Attempts are counted up to the limit, beyond which the code never distinguishes
them. The text of a turn is what it decides: any letters, any questions, any
outcome. Letters and questions come from finite sets; a letter is posted once.

**Hazards.** Five rare interferences are switched on per instance by the
constant `Hazards`: a crash while `ensureSession`'s job runs (`session`), a
question answered while its turn is about to settle BLOCKED (`verdict`), a server
write between precondition and backoff (`backoff`), BLOCKED without a question
(`unasked`), a budget that refuses (`budget`). The code admits all of them. Some
promises of its comments fail under one of them; a run of its own shows which,
and the promise is then checked with that interference off, so that every other
interleaving is still covered. A passing run that lists a hazard covers it.

Retiring an agent retires its children with it (`Parent`, `Family`).

### Views

What the workspace shows of these tables: `Derive` is `derive` of `derived.ts` in its
order, `NeedsYou` the list of open questions, `Unread` the unread count. SCHEDULED and
BACKING_OFF are one status here. Its two properties say what the words on the
screen promise: an agent shown as waiting for an event, as manual or as blocked
has neither mail nor a verdict it was not told, and a badge that asks for the human
has a question of that agent behind it.

### Executor and Turn

`Executor` is the life of a run in eight phases. It is the seam between the two
sides of the code: `Scheduler` implements it (`Seen` merges its two kinds of lost
run), and so does `Turn` (`Phase` computes it from files and processes). What
`Scheduler` assumes of a turn is therefore what `Turn` provides, in kind and order.

`Turn` follows one agent's runs through their two jobs, `ensureSession`'s and the
prompt's, as the supervisor, the pane's wrapper and the harness see them.

| State | In the code |
| --- | --- |
| `no`, `open`, `at`, `outcome` | the latest run: `ended_at IS NULL`, `job_dir`, how it was settled |
| `filed`, `sent` | how many copies of each REPORT line are in the thread, and of the turn's SENDs in inboxes |
| `sup`, `want`, `text`, `result` | where the supervisor is; what it read before it removed the directory |
| `dir`, `beat`, `exit`, `flushed` | per job: the directory, the heartbeat's age, the exit sentinel (absent, created and empty, filled), the lines in `stdout.ndjson` |
| `wrapper`, `harness`, `said`, `code`, `termed` | per job: the two processes, the lines written, the exit status, whether SIGTERM was sent |

| Actions | In the code |
| --- | --- |
| `Start`, `NothingOpen`, `SettleLost`, `Finalise`, `Finalised`, `Adopt`, `KillOrphan` | `reconcile`, `finalise`, `tailAdopted` |
| `OpenRun`, `TickEnds`, `Launch`, `LaunchFails`, `SendKeys`, `PollTail`, `PollExit`, `PollFails`, `Apply`, `Settle`, `Crash` | `dispatch`, `tmuxRunner`, `applyResult`, `runOne` |
| `WrapperStarts`, `WrapperPublishes`, `Beat`, `Flush`, `WrapperCloses`, `ExitCreated`, `WrapperExits`, `WrapperDies`, `BeatAges` | `pane.ts` |
| `HarnessWorks`, `HarnessSays`, `HarnessEnds` | acpx, which is external: one prompt of a session at a time, and it ends |

Abstractions. A heartbeat is fresh or stale; it may go stale while its wrapper
lives, as when the machine sleeps. SIGTERM is recorded and may be ignored, which is
what the code's missing SIGKILL leaves open. A poll may fail whenever the exit file
is absent, which covers its three reasons. A vendor refusal and a failed exit
are both `bad`. The SENDs of a turn are filed together.

Its `Hazards` are four more interferences: the exit sentinel read between its
creation and its content (`torn`), a crash while `ensureSession`'s job is the
recorded one (`ensure`, the same as `session` in `Scheduler`), a job given up
between the harness's spawn and `started.json` (`spawn`), a crash between
applying a successful result and settling its run (`acted`). The code admits all four;
`TruthfulResult` fails under `torn` and `ensure`, `NoStrayHarness` under
`spawn`, `RetriesDidNotAct` under `torn` and `acted`; `EachLineOnce`, `RunsSettle`
and `PhasesInOrder` hold under each of them. `TornExit` is the run that exhibits the first.

### Delivery

What the message substrate promises regardless of scheduling: a letter is
retired only by a turn that was handed it, a failed attempt leaves it owed, only
an agent's letter is parked and only after three attempts, nothing comes back.
`Scheduler!AtLeastOnce` is its specification under the mapping `Box`, which
merges QUEUED and LEASED into "owed" or, once a prompt carried the letter, "handed".

### Wakes and Backoff

`Wakes` holds the outcomes, the wake policies and `computeNextWake` with the
clock abstracted; `Scheduler` uses it. `Backoff` has the same rules with their
arithmetic in seconds for one agent, whose policy is any of `Policies`, and one
lane: streaks, ceilings, jitter, downtime, and the lane's gate, which is absent, ahead or long past.
`Power` is `**`. A turn is RATE_LIMITED because the vendor refused it, and then it has closed the lane
(`refused`), or because it says so itself, which closes nothing; either way `LaneWake` sends the agent
to the gate as it stands. `LaneCloses` is the refusal of another agent of the lane.
`AgreesWithWakes` ties the two modules together.

### Lists, OneShot and the seven trays of Desk

`Lists` is the shape of a list in `meta`: entries are numbered in the order they are
appended, a list maps a number to the state of its entry, `Kept` is
`list.slice(-cap)`. A load and a save that share no transaction are two actions
with the loaded list held in between. `OneShot` is the abstract specification of
whatever a human decides once: raised, then granted with its whole effect in one
step, or dropped, and still from then on. `Plans` and `Join` each
implement it (`PlansOnce`, `JoinedOnce`); the mapping reads the stage of
an entry from its state in the list and from how often its effect took place. `FanIn` does
not: the save of `openFanIn`, which is no transaction, undoes approvals made since its load.
What is left of "once" is `ApprovedOncePerUndoing`.

| Module | State | Actions, and the code they model |
| --- | --- | --- |
| `Plans` | agents' statuses and wakes, the list, what each plan says, the list `rejectPlan` holds, the turn being read, the thread, the backlog | `OwnerAsks` (the ask route), `TurnEnds`, `IngestPropose`, `TurnSettled`, `SupervisorDies` (a turn's PROPOSE lines and their rereading), `ApplyPlan`, `RejectLoads`, `RejectSaves`, `ActivateAgent`, `AddItem`, `PromoteItem`; `Parsed` is `parseRequest`'s precedence of verbs |
| `Ledger` | agents, parents, accounts of the day, proposals, the lists the two sides hold, live runs | `EnsureAccount`, `OpenRun`, `Reserve`, `RefuseRun`, `ApplyTurn`, `RunEnds` (budget and tick), `ResumeMember`, `ProposeLoads`, `ProposeSaves`, `Activate`, `RejectionLoads`, `RejectionSaves`, `ReapExpired` (spawn) |
| `FanIn` | the list with its selections, what `openFanIn` holds | `OpenLoads`, `OpenSaves`, `SetSelection`, `ApproveFanIn` |
| `Join` | grants, those expired, results delivered | `GrantJoin`, `GrantExpires`, `SubmitDelivers`, `SubmitSaves` |
| `Memory` | live and candidate notes, what the human was last shown | `ProposePromotion`, `PendingPromotion`, `ApprovePromotion`, `RejectPromotion` |
| `Verdicts` | a clock in milliseconds, questions with their times, a run with its start and capsule | `AskQuestion`, `Answer`, `Withdraw`, `OpenRunFor`, `AssembleCapsule`, `Settle`, `TimePasses` |
| `Seeding` | agents, channels, imported questions, what humans decided | `Import`, `ProcessStarts`, `PlanCreates`, `HumanDecides` |

`Desk` puts the seven together. None of these handlers reads another's rows except
an agent's status, which several set and none relies on, so a behaviour of `Desk` works
on one tray, chosen at its start: interleaving them would multiply the states and add
nothing to what is said of each. `MCDesk` is its instance.

**Rarities.** Five interferences that the code admits are switched on by the constant
`Rare` (`Lists`): `evict` (a plan is filed on a full list in the middle of a
rejection, whose save brings back the plan that was cut), `crash` (between a result and the
use of its grant), `twice` (a supervisor dies between a result and its settle, and
the next applies it again), `midturn` (an account is opened during its agent's turn),
`instant` (a verdict of the
millisecond its run opened in, after the capsule was assembled). Each breaks the
property of its tray: adding it to `Rare` in `Desk.cfg` exhibits how. So does
`CapsuleLimit = 2`, which gives the agent one verdict more than the capsule carries.
The instance has none of them and covers every other interleaving, among them a rejection
that loses the plans filed under it, an opening that undoes what the owner decided on other
fan-ins, a proposal of notes during a review, reservations that leak, and proposals that a
stale list makes PENDING again.

### Viewer, Terminal, Hooks and Sidecars

`Viewer` is a browser tab: the server's connection handler at each of its three awaits
(`PagesListed`, `SocketOpens`, `AttachFails`, `Attached`), the frame pump
(`ShotAnswered`, `FrameSent`, `GrabFails`, `NextFrame`), a click's calls (`Click`,
`ClickGoesOn`, `ClickEnds`), the wheel (`SetControl`, which also writes the row the
supervisor reads), the socket and the tab closing, and a restart of the server. The browser
itself is external: it answers, refuses, goes away, or says nothing.

`Terminal` is a terminal tab: `Connects` is the handler up to the spawn of tmux's client
(`EnsureSession`, `History`), `ClientDraws` that client's first screen, which comes
whenever tmux gets to it, `AgentPrints` and `SessionEnds` the agent in between. Lines
are their numbers; the screen is the last `Height` of them. `History` has tmux's clamp: asked for
the lines up to -1 of a pane that has none above its screen, it returns the screen's first.

`Hooks` has the transactions that emit, the event loop's queue of callbacks, the pool's
counter and each command's process: `Listener`, `Callback` and `StartHook`,
`Deadline`, `HookCloses`, `SupervisorRestarts`.

`Sidecars` puts the three together as `Desk` does with its trays.

### The proof modules

`SchedulerProofs`, `PromisesProofs` (which extends it, and `Views`), `TurnProofs`,
`BackoffProofs`, `OneShotProofs` (plans and join grants), `LedgerProofs`,
`DeskProofs` (which extends these two) and `SidecarsProofs` hold the theorems of section 5. `MCScheduler`, `MCBackoff` and `MCDesk` define small instances.

A definition named `Slip...` is no part of the system. It is a plausible mistake
in the definition that follows it (a dropped clause, a swapped comparison, a
missing cap); put in its place it violates the property `PROJECT.json` names
beside it, which shows that the property depends on that line of the code.

## 3. What the runs check

| Run | Instance | Properties |
| --- | --- | --- |
| `Store` | one on_message agent with a lane, 2 letters, 1 question; all hazards but `session` | `LostWakeAlarmSilent`, `LeasedHasLiveRun`, `AtLeastOnce` |
| `Promises` | one on_message agent, 1 letter, 1 question, no hazards, fair | `TypeOK`, `QuietHasNothing`, `BadgeHasQuestion`, `ConsumedWasRead`, `AckedWasRead`, `MailIsCarried`, `VerdictIsCarried`, `RunsEnd` |
| `Rivals` | a scheduled and an on_message worker, the second the first's child, one slot; `session`, `budget` | `InFlightBounded`, `PhasesInOrder` |
| `Judge` | the orchestrator and a continuous worker, 1 letter, one slot, one dispatch per tick; `unasked` | `OrchestratorIsReachable`, `AtLeastOnce` with agent-to-agent mail |
| `Backoff` | one agent of each of the four kinds of policy, refusals of an hour and of five, declared and real | `WakesInTime`, `AgreesWithWakes`, `NoOtherHotLoop`, `BackoffGrows` |
| `Turn` | two runs of one agent, two REPORT lines, no hazards, fair | `TruthfulResult`, `EachLineOnce`, `RetriesDidNotAct`, `NoStrayHarness`, `RunsSettle`, `PhasesInOrder` |
| `Desk` | every tray, no rarities | `PlansOnce`, `ProposedOnce`, `NeverOverspent`, `CarveOut`, `SpawnedOnce`, `ApprovedOncePerUndoing`, `JoinedOnce`, `ConsumedWasTold`, `DecisionsStand` |
| `Sidecars` | a browser tab, two terminal tabs, three events and a pool of two | `NoOrphanPump`, `ClosedTabsGoQuiet`, `ReadInOrder`, `HooksSeeCommits`, `PoolFrees` |

Four runs exhibit a disagreement between the code and what its comments and documents say
(`PROJECT.json`, findings):

| Run | What TLC shows |
| --- | --- |
| `VerdictRace` | A question answered while its run still executes, then BLOCKED: the run waits in `waiting_human` with nothing left to answer, and the agent is never dispatched again until somebody asks and answers something else. |
| `SessionCrash` | After a crash during session set-up the set-up job's exit is finalised as the turn: mail is acknowledged unread. |
| `LostBump` | A message between precondition and backoff loses its wake; an on_message agent sleeps with mail, and the workspace shows it as waiting for mail. |
| `TornExit` | The exit sentinel, read after its creation and before its content, is exit code 0: a failed turn is settled as a success. |

More of them can be reproduced by one change to a configuration. With `budget` among
the `Hazards` of `Promises`, `ConsumedWasRead` fails: a refusal settles NO_WORK and
consumes a verdict nobody read. With `LongTurnsSpec` instead of `FairSpec` in `Judge`,
`OrchestratorIsReachable` fails: a worker's long turn holds the tick, and the
orchestrator with it. Each rarity of `Lists`, and a capsule that is too small,
fails one property of `Desk` (section 2). And `Turn` fails under `ensure`, `spawn` and `acted`.

Four more statements of the documents are defined in the modules and fail in the instances of the
passing runs, when they are added to the configuration named:

| Statement | Add to | What TLC shows |
| --- | --- | --- |
| `Backoff!NoHotLoop`: after RATE_LIMITED "the vendor lane backs off" (`src/README.md` 125), and no agent is a "quota feedback loop" (`wake.ts` 11, `state.ts` 51) | `PROPERTIES` of `Backoff.cfg` | A turn that declares `OUTCOME: RATE_LIMITED` itself (`protocol.ts` 158, offered by `skills/army-hitl/SKILL.md` 102) closes no gate. On a lane that was refused once before, `repo.ts` 257 writes that expired moment as the next wake: the agent is due at every tick, and no streak counts it. |
| `FanIn!ApprovedIsProven`: "A change with no provenance cannot be selected" (`fanin.ts` 79) | `INVARIANTS` of `Desk.cfg` | `openFanIn` selects every change (`fanin.ts` 67), only `setSelection` asks `selectable`, and `approve` asks only that something is selected: a fan-in approved as it was opened has such a change in its selection. |
| `Memory!PromotedWasReviewed`: "a human reviews the diff before anything is promoted" (`memory.ts` 145) | `PROPERTIES` of `Desk.cfg` | Notes proposed between a human's look and the approval are promoted in place of those that were seen. |
| `Terminal!HistoryThenScreen`: capturing the screen "would print it twice" (`terminal.ts` 97) | `INVARIANTS` of `Sidecars.cfg` | Asked for the lines up to -1 of a pane without scrollback, tmux returns line 0: a viewer of a session that has not filled its screen is sent the screen's first line as history and is then drawn it again. |

`NoOtherHotLoop`, `ApprovedOncePerUndoing` and `ReadInOrder` are what holds of the first, of fan-ins and of the
last, for every history; of notes nothing does that is worth a run, and `Memory` is in `Desk` for its actions and types.

Others were met while reading and contradict no property here. An agent retired after
the tick's snapshot still runs once (`tick.ts` 110-143). Runs in `waiting_human` fill
the in-flight cap although they have no session (`tick.ts` 92-100). The streak
that the comment at `tick.ts` 189-205 wants to climb is reset, because the only
policy that reaches `backoffWithoutRun` is on_message. A retired agent can be
activated or resumed again (`plan.ts` 149 says a retirement is final). A backlog item
can be promoted twice and asks twice (`api.ts` 336). An import replaces the channels of
an earlier one by those of its newcomers alone, and files the outbox's open questions
again (`import.ts` 189). A terminal granted control stays attached read-only, so what
is typed never arrives (`terminal.ts` 143). A click that has begun goes on after the wheel was
given back (`main.ts` 386).

**Bounds.** One agent suffices for what concerns a single inbox: the code never
reads another agent's rows except in the in-flight count, the retirement of children and the order of
selection, for which two agents (one slot, one or two dispatches) are the
smallest contest. Two letters tell apart mail that was leased from mail that
came during the turn. One question passes through every state of its row; more
than one matters to the capsule, and `Verdicts` has three of them. Two
dispatches per tick let a tick handle an agent and go on. `MaxStreak` 7 takes
both backoff curves past their ceilings (60 s doubled six times is 64 minutes,
30 s doubled five times is 16), `Horizon` is the longest promise the runs
measure, `Gaps` mix a quarter of an hour and more than one. `Past` is how long ago, at most, an overdue
wake or an expired gate lies: the code compares both with now and nothing else. Two runs are what
it takes for a retry to meet the processes of the run before it; two lines tell
apart a line filed early from one filed at the end. `Rows` symmetry is
used only in `Store`, which has no liveness; letters and questions are interchangeable.

In `Desk` the lists keep two entries and three are appended, the least that cuts one off
while another is decided. The requests between them have every effect, a refusal,
a question to pass on, and targets by name and by channel; the one turn says a thing
twice. One root and one slug to spawn with two proposals make the contest for the slug; amounts of
one and two against a reservation of one make an account run dry. Three milliseconds
put a verdict before, in and after the one a run opens in. Two notes and two changes, one of them
without provenance, tell apart what was reviewed or proven from what was not. Two imports of an edited
roster, with an orchestrator of its own, are what a second import takes. In `Sidecars`
one browser tab suffices because tabs share nothing but the wheel, which no guard
but `Click`'s reads; two viewers share the sessions of tmux; a third event is
the one that finds the pool of two full. Four lines over a screen of two and a history of one let
lines scroll past what a viewer was sent.

## 4. Fairness

`LoopFairness`: the loop is `while (!stopping)`, catches everything and sleeps a
fixed interval, so a supervisor that is up takes its next step (`WF` on
everything it does, as one process: which turn is polled first is not promised).
It may crash at any time, but from some moment on stays up (`<>[](pc # "down")`;
without it no progress can be promised). Time passes. `TurnFairness`: acpx runs
under `--timeout`, the poll has a deadline of the same length, and a pane whose
process dies stops beating. `LongTurnsSpec` drops the last for ordinary workers,
whose deadline is half an hour; see section 3. In `Turn` likewise:
the loop goes on and from some moment stays up, a poll ends at its deadline at
the latest, a wrapper that has started does what is next unless it is killed,
acpx ends, and a wrapper that is gone stops beating. Nothing makes the pane's
shell run a command that was typed, and nothing makes a killed harness die. Humans promise nothing:
properties excuse an agent that is not ACTIVE or waits for an answer.

`ViewerFairness`: the server's awaits end, since each has a deadline (`CDP_TIMEOUT_MS`, the
fetch's and the handshake's), timers fire, and a closing handshake ends or times out. A
browser need never answer. `HooksFairness`: a transaction ends; callbacks, deadlines and
close events come although transactions keep the thread busy from time to time
(`SF`, because a transaction disables them while it lasts and the loop turns in
between). A command need never exit by itself. Nothing is assumed of humans, tabs, rosters or restarts.

## 5. What is proved

Every theorem is for all values of the constants, under the modules' named
assumptions (sets finite where they are counted, caps positive), which TLC evaluates
for the instances.

**The scheduling core.** For every set of agents, letters and questions, all caps and every choice of
`Hazards`, from `ConstantsAssumption` alone (`SchedulerProofs`):

- `TypeCorrect`: `Spec => [](TypeOK /\ Selection)`. `Selection` is the inductive
  strengthening: between the precondition and the dispatch the tick holds an
  agent, its counter is below the cap, and the run of that agent is absent
  (`open`) or opened (`reserve`). It is needed because `OpenRun`, `Dispatch` and
  the budget's settle write the row of the agent in hand. The argument that the
  rest of the system cannot disturb it is that no settle concerns an agent whose
  run is absent or opened while the loop is inside the tick, and that a verdict
  releases only waiting runs.
- `LeasesNeverStranded`: `Spec => []LeasedHasLiveRun`. A lease is taken only by
  `Dispatch`, which puts the run into a phase that may hold leases; such a phase
  is left only into another such phase or by `Succeed`, which disposes of every
  lease of its agent (`SettleEndsLeases`); `LeasesKept` covers the other steps.
- `RunsAreExecuted`: `Spec => PhasesInOrder`, that is, `Scheduler` implements
  `Executor`. `LegalMoves` tabulates the moves of a run that the code makes,
  `RunStep` shows action by action that each run makes one of them or none, using
  `Selection` for the run that `OpenRun`, `Dispatch` and the budget touch, and
  `FleetMoves` lifts this to the fleet.
- `TheAlarmIsSilent`: `Spec => []LostWakeAlarmSilent`. The alarm looks at agents
  without a run, which no step preserves by itself, since runs end. `Explained` asks
  more: an ACTIVE agent without a wake has an excuse, run or no run. It holds because no
  rule of `wake.ts` withholds a wake without one (`WithheldWakes`), nor does a successor's
  wake (`SettleExplained`), and a pause or a retirement takes the agent off ACTIVE.
- `CapHolds`: `Spec => []InFlightBounded`. `Slots` relates the live turns to the tick's
  counter, which is counted once and never lowered: inside the loop it stands for at least
  the live turns other than the one opened and not yet dispatched (`Counted`), and the
  agent in hand has a free slot. `NothingElseOpens` shows that turns only end in
  the other steps, whatever the server and the panes do meanwhile.

**What the core promises** (`PromisesProofs`). Each invariant of the `Promises` run holds in
every fleet, and its theorem names the interferences it assumes away, those that the
findings and hazards show to break it; the other hazards may be admitted. Each rests on
`TypeOK`, `Selection` and a strengthening of its own:

- `AcksAreHonest`: `AckedWasRead`, without `session`. Between the prompt's start and the
  settle all mail of the lease has been read (`MailRead`); that the mail is still in the lease is
  `LeasesNeverStranded`. `Watching` is why the hypothesis is needed: a session in the pane has
  a supervisor that watches it, so that none is ever adopted and its exit taken for the turn's.
- `MailIsDelivered`: `Spec => AtLeastOnce`, `Scheduler` implements `Delivery`, without
  `session`. `LetterMoves` is the table of what the code does to a letter, with what must be true
  of the letter when it does (an acknowledged one was read, a parked one is at the cap
  and no human's); each action is shown to make one of these moves for every letter.
  `Tried`, that leased mail was attempted, excludes an acknowledgement out of nowhere.
- `VerdictsAreRead`: `ConsumedWasRead`, without `session` and `budget`. `VerdictRead`
  follows the verdicts a run will be taken to have acted on from the capsule to the
  settle; that a later verdict is not among them is the comparison of
  `answered_at` with `started_at`.
- `WaitersAreAsking` and `BadgesAreAnswerable`, without `verdict` and `unasked`. A turn
  that exited has a result to settle by (`Reported`); who blocks has asked. `Idle`, that an agent with
  neither run nor wake is not kept asleep for a human's sake, takes the badge from the run to the agent.
- `QuietMeansNothingWaits`: `QuietHasNothing`, without `backoff`. The view looks at agents without a
  run, so the invariant has to follow what arrives during one. `Noted`: a verdict given
  during a run has left its bump as the reason, or mail that came later is queued, and
  `succeed` looks for both. `InHand` says the same of the agent that the tick has looked at and not yet
  acted on. `Places`: only a loop that awaits or reconciles settles.

**The turn** (`TurnProofs`). `TurnInv` relates the three parties that share a job
directory: where the supervisor is and which job its run records (`Control`), what a
job's wrapper, harness and files can look like together (`JobOK`), and the thread, what the
supervisor has read and what the harness has said (`Copies`, `Held`, `Told`). It is
inductive with every interference admitted, and gives

- `TurnTypes`, and `TurnsRunInOrder`: `Turn` implements `Executor`, as `Scheduler` does, so
  the phases one assumes are the ones the other provides;
- `ReportsLandOnce`: `EachLineOnce`. An exit file implies that the harness is over and
  everything flushed, so what is read then is all; every copy of a line in the thread is the only one.

Three more theorems assume away what breaks them. `SuccessesAreTrue` (without `torn` and
`ensure`): a result that counts as a success was read from the exit file of
the run's own prompt (`Filling`, `Truth`). `RetriesAreHarmless` (without `torn` and `acted`): a
run that has sent is on its way to be settled as a success or left the exit file from which the
reconciler will do so (`Unacted`). `NoHarnessIsForgotten` (without `spawn`): a
working harness is known to its job directory, or was told to end by whoever removed it (`Noticed`).

**Wakes** (`BackoffProofs`). The arithmetic of `computeNextWake`, for every policy, jitter, streak and
passage of time. What it needs of powers, that they are positive and grow, is proved first:
`Power` is a recursive function of the exponent, which the provers know nothing about until it is shown to
satisfy its own recursion (`Pieces`, `Powers`), and the induction over the exponents is one
over a set of naturals (`Induction`, from the well-foundedness of `<`). `ComputedWakes` then
says what each outcome computes, `Settlements` what `succeed` writes. From these:

- `BackoffTypes`: the row keeps its types. `WakesAgree`: `AgreesWithWakes`, so the wakes that
  `Scheduler` takes from `Wakes` are those of the arithmetic, for every curve.
- `OnlyLateDeclarationsLoop`: `NoOtherHotLoop`. `NoHotLoop` itself is false (section 3); the theorem
  says that there is no other way: its exception is a last turn that declared RATE_LIMITED on a lane whose gate
  had passed (`DeclaredLate`). It speaks of the step that begins a turn; `Patient` is what holds in between: the wait
  left and the time passed since the last outcome add up to what that outcome promised,
  unless somebody bumped the agent or the bound on time was reached. A real refusal leaves the gate at least the refusal
  ahead, since `gateVendor` takes the later of two moments (`Gates`).
- `BackoffNeverShrinks`: `BackoffGrows`. `Graded` remembers from which streak the current delay was
  computed; the next streak's power is no smaller, and the cap and the jitter keep that order.
- `WakesComeInTime`: `WakesInTime`, if the refusals have a longest (any finite set of them has). `Measured`
  bounds the streaks and the gate, `CeilingCovers` each outcome's delay.

What `NoOtherHotLoop` promises a continuous agent is the least of floor, base and ceiling, and the proof shows
why the ceiling is in it: `parseWake` does not look at the numbers, so a policy whose
`maxMs` is below its `baseMs` is accepted, and backs off by `maxMs` only.

**One-shot decisions** (`OneShotProofs`). `PlansAreAppliedOnce`
and `GrantsAreSpentOnce` prove the refinements of `OneShot`, each
if its rarity (`evict`, `crash`) is not admitted. The invariants relate an
entry's state in the list to how often its effect took place (APPLIED and applied
once, PENDING and never applied), which a stage alone does not tell once an entry has been cut off
the list; `PlansInv` adds what the list that a rejection holds may differ in from the
one it will overwrite, `JoinInv` that a grant whose result is delivered is used or
about to be. What cutting a list preserves are the first lemmas of the module
(`KeptEntries`, `Exchange`, `KeptLast`, `KeptAll`). `LinesAreProposedOnce` needs no
assumption: a line that filed a plan is in the thread (`Posted`), and one that is there is not filed.

**Budgets and spawns** (`LedgerProofs`). `LedgerInv` ties a proposal to the row it created:
an agent nobody activated has no row, no parent and no account (`Unborn`), an
activation is signed by its terms (`Signed`), and what a stale list can make PENDING
again has its slug taken (`Births`). From it follow `SpawnsOnce` and
`SpawningConjuresNothing`, whatever interferes. `AccountsAreNeverOverspent` adds
`Backed`, that a metered agent's dispatched run has a unit reserved, which fails exactly
when an account is opened in mid-turn or a result applied twice: those two rarities are its assumption.

**The rest of the desk** (`DeskProofs`). `VerdictsAreTold` (without `instant`, and if the capsule has room for every question:
`AllAreTold` shows that the newest verdicts are then all of them), `DecisionsAreKept`, and
`OpeningsUndoOneApproval`, with no assumption: by `Undone`, a fan-in under review has been approved at most
once for each fan-in opened after it. `DeskTypes` is the type
invariant of all seven trays, with every rarity admitted: it needs that a request asks for nothing but effects
(`Requests`), that a turn being read has a number, and that `openFanIn` still has the room it loaded the list for.

**The sidecars** (`SidecarsProofs`). `NoPumpIsOrphaned` from `Started`, which says for each
place a handler can be at what it has started; `LinesAreReadInOrder` from the fact
that what a viewer was sent had scrolled off by then, so it lies `Height` lines below everything
a client can still draw (`Gone`), or is a single line that no later line comes before (`First`); `HooksRunAfterTheCommit`. `ThePoolIsNeverOverrun`: the hook pool's counter
equals the number of commands whose close event is owed, and stays within the pool's size
(`PoolIsExact`). Its invariant `HooksInv` adds that a queued event has one callback and no command yet, without
which a command could take two slots. `SidecarsTypes` is the type invariant of the three together.

Only model-checked: liveness (`MailIsCarried`, `VerdictIsCarried`, `RunsEnd`, `OrchestratorIsReachable`,
`RunsSettle`, `ClosedTabsGoQuiet`, `PoolFrees`), since neither fairness nor ENABLED is within this prover's
reach. Every invariant, action property and refinement that a passing run checks is also
the subject of a theorem.

## 6. What is not modelled

- `expireAsks`, gated asks and action bindings: nothing in the source sets `expires_at`,
  gates an ask or binds an action, so no state of the program has them.
- Proposing and deciding a spawn, fan-in, join and promotion have no callers in the
  source but their tests, and a root's account none at all but those. They are modelled as the two processes their comments name
  would call them; which interleavings a future caller admits is up to it.
- The relay's hop limit and the per-agent sequence numbers of messages; the piped
  fallback without tmux; the reasoning-effort job; the marker grammar and the caps on markers per turn.
- The alarm scan, the event log, the thread's other text and the last-tick
  timestamp feed no decision. A second supervisor on the same store: the launcher starts one.
- An import's backlog and report files, history messages and digest, cadences; migrations.
- Which endpoint `discoverCdp` finds, what frames show, resizing of terminals.
- Isolation and worktrees, the vendor guard's patterns, files, doctor, the web client,
  skills and scripts: no state of their own, or none the others read.

## 7. Plan

What would come next:

1. What `Delivery` and `OneShot` promise on their own (a parked letter is no human's, an effect takes place once),
   so that whatever implements them inherits it by name.
2. A weaker hypothesis for the theorems that assume a hazard away: most need only that it does not strike one agent.
3. Whether a repair of each finding restores the promise its run violates, as a variant of the action concerned.
