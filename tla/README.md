# Kinu: a verification project

TLA+ models of the protocols that keep a Kinu agent's work exactly as finished
as it should be, TLC configurations that check them on small instances, and
TLAPS proofs of what matters most for every instance.

Kinu runs agents. A **workspace** (a Durable Object in the cloud, a process on
a person's machine) hosts **agents**, each with a chat of its own in its own
**isolate**. Isolates are evicted, workspaces reset and local processes killed
without notice; every promise the platform makes is therefore a row of SQLite
that some later activation finds and acts on. What is hard in this code is not
any one statement but the steps between them: what was read before an `await`
and used after it, which of two reports leaves first, who finishes the work of
a process that died.

## Inventory

Components, the state each keeps, its operations and who it talks to. Sources
are under `packages/`; the ones with a module are marked.

| Component | State | Operations | Talks to |
|---|---|---|---|
| **Driver lease** (`core/src/execution/driver-lease.ts`, `cli-backend/src/agent-host/lease-process.ts`) - modelled | one row: pid, generation, token, kind | acquire, held, release; liveness probe | the agent host, the OS |
| **Local agent host** (`cli-backend/src/agent-host/host.ts`) - its driving | passes under way, turn gate, close | drive, takeDriver, the gate of a turn, close | the lease, the session |
| **Terminal effects** (`core/src/orchestrator/terminal-effects.ts`, `terminal-transition.ts`) - modelled | `terminal_effects` rows, the response's claim, in-flight set, open closes | record, settle, drive, attempt, release, resumeAll, end, armRecovery | the chat session, the workspace's wake |
| **Chat session turn loop** (`core/src/orchestrator/chat-session.ts`, `chat-restore.ts`) - partly | queue, pump, open run, transcript | pump, openTurn, commitTurn, endTurn, follow-ups, questions | terminal effects, inbox |
| **Agent's reports and wake** (`cf-backend/src/agent-facet/agent-chat.ts`, `agent-wakes.ts`) - partly | chained reports, the one wake per agent | tell, taken, atRest, wake, arm, owes, onJob | the workspace |
| **Tool effect receipts** (`core/src/tools/effect-claim.ts`) - partly | `tool_effect_claims` | claim, settle, release with the turn | terminal transitions, tools |
| **Background jobs** (`core/src/jobs`, `core/src/execution/fiber.ts`) - modelled | `background_jobs` rows with epochs, fiber rows, attempts, controllers and cancels in memory | detach, settle, cancel, retire, complete, dismiss, recover, re-drive | tools, fibers, the agent's inbox, wake jobs |
| **Turn fence** (`core/src/subagents/turn-fence.ts`, `cf-backend/src/agent-turns.ts`) - modelled | newest opening, the cuts of this activation, executions' epochs | open, cancel, ended, lost ends, the check of a call | isolate and workspace, over RPC |
| Agent report sequence (`core/src/subagents/report-sequence.ts`) | newest report, charged run ends | accept, chargeOnce | isolate and workspace, over RPC |
| **Deliveries and Stops** (`core/src/subagents/deliveries.ts`, `delivery-coordinator.ts`, `core/src/orchestrator/inbox.ts`) - modelled | owed deliveries, Stops, the agent's marks | add, cross, paid, cancel, owe, took, cut | producers, the agent's inbox |
| Event log and drain (`core/src/events/hub`) | events, their binding to a turn, leases | publish, markConsumed, markAnswered, park, unbind, reclaim | ingress, chat session |
| Actor claims, heads, swarms, approvals, devices, triggers, outboxes, account object | see `PROJECT.json` | | |

Where behaviour is hard, and what makes each component correct:

* **Driver lease.** Two processes interleave statement by statement over one
  SQLite file; processes crash holding the row and pids are reused. Correct: two
  interactive processes never convert at once; nobody loses a row while alive
  except by the rules; a dead holder's row never locks the conversation.
* **Terminal effects.** An effect's body awaits; wakes, closes and follow-up
  turns sweep the same rows; the owner acts while a refusal is on its way; the
  isolate dies anywhere. Correct: what is owed has a wake; an effect is not run
  twice by one process; a follow-up turn ends once; a row waits on the owner only
  while the owner has something to do; a closed response owes nothing; an actor
  owes one coalesced row; receipts outlive what may need them; everything owed is
  in the end finished.
* **Background jobs.** The detach window races the work; a reclaimed job's old
  attempt answers late. Correct: one answer per call, one settle per job, every
  running job is driven again.
* **Turn fence, reports.** Openings, Stops and ends cross between two objects that
  reset independently. Correct: no stopped run re-opens, no older opening or
  report takes effect, a charge is applied once.
* **Deliveries.** A crossing's answer may be lost. Correct: each delivery is taken
  at most once, in order, and in the end taken, refused or cancelled.
* **Event log.** `markConsumed` has no guard and relies on the lease. Correct: an
  event is answered by one turn and never stranded.

## Modules

| Module | Models | Composes |
|---|---|---|
| `DriverLease` | the lease's SQL statement by statement, the host's use of it, the OS | lease, host, processes |
| `DriverLeaseProofs` | the inductive invariant and the theorems | |
| `TerminalEffects` | the ledger of what a response owes after its turn | ledger, transitions, chat loop, reports, wake, receipts |
| `TurnFence` | which execution of an agent's turn may run in the workspace | fence, Stops, the isolate's runs, the calls between them |
| `Deliveries` | what a workspace owes an agent, until it is taken, answered or cancelled | outbox, lane, Stops, wake, the isolate's inbox, the calls between them |
| `HandOver` | the abstract promise to the producers of deliveries | refined by `Deliveries` |
| `BackgroundJobs` | tool calls that go on as jobs | wrapper, runner, store, fibers, process ends, activations |
| `TerminalEffectsProofs`, `TurnFenceProofs`, `DeliveriesProofs`, `BackgroundJobsProofs` | the inductive invariant of each component, one lemma per action, and the theorems | |
| `HandOverProofs` | the proof that `Deliveries` implements `HandOver`, extending `DeliveriesProofs` | |
| `MC*` | instances for TLC | |

### DriverLease

`row` is the lease row; per process `alive`, `gen` (the identity of the run under
a pid), `recorded` (what the process could read of itself), `kind`, `hold` (the
token of `DriverLeaseHold`), `pc`, `goal`, `seen`, `mine` (the locals of
`claimOnce`) and the work it does: `driving`, `converting`, `turn`.

`ReadRow`, `Probe`, `Write`, `Confirm` are the statements of `claimOnce` and
`acquireDriverLease`, `ReleaseRead` and `ReleaseDelete` those of
`releaseDriverLease`; `AcquireHeld` and `AcquireAnew` are the two branches of
`acquire()`. `Grant` is what a caller does once granted: `drive()` enters its
first operation, the gate lets a turn start, `takeDriver()` only holds.
`NextOperation`, `PassEnds` and `FinishClose` are the checks and releases of
`runPass`, `drive` and `close`. A process that is inside an acquisition does
nothing else, because those statements run without a yield.

Tokens are UUIDs and generations start times: a fresh one is any value nobody
remembers, which keeps the state finite without bounding the behaviours. A token
carries its minter, so two processes never mint the same one.

### TerminalEffects

Durable state survives `Crash`: `claim` and `row` (the response's claim and its
effects' rows), `due`, `wake`, `run` (the open run a restart re-opens), `disk`
(follow-up turns whose opening row is written), `receipts`, `question`. The rest
is memory: `inFlight`, `drives` (calls of `drive()` up to the end of their
close), `sweeps` (calls of `resumeAll()` and what follows them), `queue`, `pump`
and `tells` (the chain of reports).

The isolate is single-threaded. While a drive or a sweep has a step it does not
wait for (`Busy`), nothing else happens; so an action of the environment never
falls inside a stretch of code that has no `await`. Writes of such a stretch
commit together, which is what a Durable Object's output gate gives.

| Code | Actions |
|---|---|
| `runPump`, `openTurn`, `runOpenedTurn` | `TakeMessage`, `TakeFollowUp`, `TakeReopened`, `OpenTurn`, `TurnArmed`, `OpenFails` |
| the turn | `RunTool`, `AskOwner`, `TurnFails` |
| `commitTurn`, `endTurn`, `settle`, the item's `settle` | `Commit` (`Record`, `CloseRun`), `Settle`, `EndTurn` |
| `drive`, `attempt` | `ArmWake`, `ArmRefused`, `InlineSync`, `BeginInline`, `BeginDetached`, `Finish` (`Disposed`, `Refused`), `Reported` |
| `end`, `closed` | `End` and the sweep it starts |
| `resumeAll`, `resume`, `replayOwedAndRearm`, `followUpCommitted` | `Resume`, `SweepEnds`, `SweepArmed` |
| `tell`, `taken`, `atRest`, `armRecovery`, `ownerActed` | `TellRest`, `AskedArmed`, `TellRefused` |
| `AgentWakes.onJob`, `AgentChat.wake` | `WakeFires` |
| the owner, the provider, the clock, eviction | `QuestionCloses`, `OwnerFixes`, `OwnerTold`, `ProviderBreaks`, `FallsDue`, `Crash` |

A report (`tells`) is a record of what it is for and for whom. They are chained in
the isolate (`telling`), leave in order, and only then change `wake`: a report of
rest says what the chat owes at the moment it leaves, every other one asks for a
wake. Two equal reports in a row are told as one.

Abstractions: an instant is due or not due; a row without a handler in this
build, a definitive failure and an actor that stood down all end a row without
completing it (`gone`); the reasons a turn ends are answered or not.

Left out, and what that means for the results: the elision of an arm whose wake
is already named (it changes no wake); the sequence numbers of reports (they are
applied in the order they leave); the standing a turn's preparation carries; a
wake kept for deliveries (it only adds wakes); Stop, cancellation, steers that
land an opening row early, and the turn that continues from an owner's answer;
the failure of an end's own commit, and of re-opening a turn; a workspace that
dies before it makes the detached settings call; the CLI's timers, which stand in
for the workspace's wake there. A pass of a wake is taken to be over before the
next wake a lap later.

### TurnFence

The workspace keeps `fence` (the row of `actor_turn_fence`: newest opening, ended
or cancelled), `stop`, and in memory `opened`, `chat` and `cuts`; the isolate its
`runs`, `seq`, `stopReq` and the execution `act`; `calls` is what is on its way.
A run is a number and `TurnOf` its turn, so that a Retry is a new run of the same
turn. Both sides fail on their own (`IsolateDies`, `WorkspaceResets`).

| Code | Actions |
|---|---|
| the isolate: `openTurn`, the claim, the end, the report of rest | `OpenTurn`, `Begin`, `Reopen`, `Claim`, `Work`, `EndTurn`, `Finish`, `Prepared`, `ReportRest` |
| `TurnFences.open`, `prepare` | `StartHeard`, `PrepareArrives`, `PrepareOpens`, `PrepareReads` |
| `AgentTurns.holds`, `cutOff`, `reread` | `WorkArrives` (`Holds`, `Known`), `WorkReopens`, `WorkRereads` |
| `hostedTurnEnded`, `agentOwes`, `closeLostChatTurn` | `EndArrives`, `RestArrives` (`Overtaken`), `OwedAnswers`, `LostEnds`, `LostCloses` |
| `stopAgent` and its crossing | `StopAgent`, `StopArrives`, `StopAnswered`, `StopAgain` |

The start, the end and the preparation of a turn are delivered in the order their
isolate sent them. All five kinds of call to the workspace (a start, a
preparation, a tool call, an end, a report of rest) may be lost with their isolate, or
arrive after its death beside those of the next one (`Strays`); what the workspace
already handles goes on. A Stop sent by an activation that died still
arrives, and nobody hears its answer.

Two stretches of the workspace's code await, and are several steps here. A call whose
turn a reset forgot is checked (`WorkArrives`), has what its turn froze read, is put
back in memory over whatever stands there (`WorkReopens`), and runs if its opening is
still the newest and unended (`WorkRereads`). That last check does not look for a
Stop: a call checked before a Stop starts after it, its abort signal already set. No
property says otherwise. A lost end moves the fence (`LostEnds`), then waits for its
room and closes the chat turn heard open (`LostCloses`), which may be another by then.
Left out: tools' own claims, model and
search turns that are not chat turns, delivered runs' reports and charges.

### Deliveries and HandOver

`rows`, `outbox`, `stop` and `wake` are the workspace's rows, `lane`, `asked` and
`crossing` its memory; `marks`, `held` and `ran` are the isolate's rows. An
`admit` call is out, then in the isolate while its handler awaits, then back with
an answer; nothing orders two calls. The schema has six kinds
of input: words, turns, runs, decisions, answers and Retries. Words, turns and Retries
are modelled, turns as two kinds because different code admits them: a person's words
(`AdmitWords`, then `WordsTaken`), a turn (`AdmitTurn`), and a turn that yields to the
owner's words, here an offer, which like a Retry awaits between the check of the marks
and the commit (`AdmitAwaits`, `OfferSettles`, `RetrySettles`). Runs, decisions and
answers are left out: a run is held in place of an earlier generation of itself, and
the owner's decisions and answers are applied to state that is not modelled.

| Code | Actions |
|---|---|
| `DeliveryCoordinator.committed`, `AgentDeliveries.add` | `Commit` |
| `drain`, `cross`, `paid` | `StartPass`, `CrossRetired`, `Cross`, `CrossAnswered`, `PassFails`, `EndPass` |
| `stopAgent`, `owe`, `stopCrossed`, the replay of an owed Stop | `StopAgent`, `SendStop`, `StopArrives`, `StopAnswered` |
| `retire`, `reconcile` | `Retire`, `RetireCancels` |
| the wake, the report of rest | `WakeFires`, `RestReported` |
| eviction, refused calls | `WorkspaceResets`, `IsolateDies`, `CallFails` |

`HandOver` has one variable of fates and one of what was taken. `Deliveries`
implements it under `Fate`, which maps a sequence to where it stands; a delivery
in none of these places maps to no fate, so losing one is a step `HandOver` has
not. A Stop is not instantaneous in it: what a Stop finds on its way may still be
taken until the agent has heard it.

What a reader should know of the promise. Words that a late crossing of a Stop
hands back before their mark moved are owed again and may be taken again, which
`HandOver` states (`HandBack`). A Stop that crosses a second time carries the same
cutoff, so it refuses nothing newer, but it again empties the agent's queue of
programmatic turns, those taken since included. The instance of `KeepsPromise` has no
offers, no call that outlives its sender's reset (`LateCalls`) and no id
committed anew while its earlier delivery is in the pass (`RepeatCrossing`):
with these the code does not keep it, see the disagreements below. The live
instance has all three. Left out: the queue and the steers of a running turn,
attachments, and what an accepted delivery then does.

### BackgroundJobs

`row` is the job's row with its epoch, `fibers` the rows of the fibers that run
its attempts, `told` what the agent was sent and `armed` the wake for resumes that
fall due; these survive `Crash`. Memory is the controller (`ctl`), the attempts'
phases (`att`), `stopped`, the watch of a context (`heard`, `silent`), the cancel
in flight and the outcome it holds back (`cancel`, `fenced`), the recoveries
(`recov`) and the rows the activation has still to sweep (`toSweep`). A job is a
search (re-driven after a crash), a process (whose end is told from outside) or a
command (never driven again).

| Code | Actions |
|---|---|
| `wrapToolsForBackground`, `detachOn`, `adopt` | `Call`, `AnswerInline`, `Expire` |
| `drive`, `runToSettlement`, the fiber | `Begin`, `Finish`, `FiberEnds`, `Return`, `Tell` |
| `settleAndWake`, `settleBounded` | `Record`, `Harvested` |
| `cancel`, `retire`, `decide`, `settleCancelled` | `AskCancel`, `Refused`, `Confirmed`, `CancelWakes` |
| `complete`, `dismiss`, `cancelCurrentWork` | `Complete`, `CompleteWakes`, `Dismiss`, `StopTurn` |
| `recoverOrphans`, `redriveOrphanedFibers`, `recoverLost`, `recoverJob`, `reattach`, `recoverDueResumes` | `Sweep`, `RedriveFiber`, `RecoverLost`, `Recovered`, `Redrive`, `Reattach`, `GiveUp`, `GiveUpWakes`, `RecoverDue`, `Due` |
| the watch, eviction, the next activation | `GoSilent`, `Crash`, `Start` |

A settle and its wake are two steps, and a crash may come between. Left out:
`createRetry`, notes, ports, live output, several processes on one store and store
writes that throw, and with these the failed send of an outcome, which drops the
fiber's row with the agent untold (`runner.ts:573`, `707`). An attempt is driven again without limit when nothing fails it;
`MaxEpoch` bounds that, so no liveness is claimed of jobs: `RunningIsCarried` is
its safety half, that somebody is there to go on.

## Runs

| Run | Question | Result |
|---|---|---|
| `lease_safety` | two processes of any kind, crashes, reused pids, unreadable generations | `TypeOK`, `InteractiveExclusive`, `LiveOwnerKeepsRow` hold; `StaleRowReplaced`: a dead holder's row is replaced while a daemon ticks |
| `lease_overlap` | is there a single driver, as the header says? | no: finding 1 |
| `terminal_followups` | two responses each owing a follow-up turn; a question; one crash or refused report | `WakeCovers`, `ParkedWaitsOnOwner`, `FollowUpOnce` hold |
| `terminal_lanes` | two responses owing the coalesced detached lane; refusals, settings changes, tools; one crash or refused report | `TypeOK`, `ParkedWaitsOnOwner`, `SettledOwesNothing`, `OneCoalesced`, `ReceiptsKept` hold |
| `terminal_awaited` | an awaited inline effect before a detached one, swept while they run | `WakeCovers`, `AnsweredOnce` hold |
| `terminal_live` | does what a response owes in both lanes, a follow-up turn and the coalesced detached effect, finish, and the response close, through a question, deferrals, and a crash or refused report? | `EffectsFinish`, `ResponsesSettle` hold |
| `deliveries_promise` | does the hand-over keep its promise to producers through a Stop, a retirement and two faults? | `TypeOK`, `OwedHasWake` and the refinement `KeepsPromise` hold |
| `deliveries_live` | offers and Retries, late calls, repeated ids: is a retired Stop in the agent's marks, is everything owed resolved? | `RetiredStopIsCut`, `OwedResolves` hold |
| `fence_turns` | a turn and its Retry, a Stop, a death of the isolate or a reset of the workspace | `TypeOK`, `StaysStopped`, `LiveIsOpen`, `WorkInOrder` hold |
| `fence_retry` | does a Retry open the agent again after a Stop, as the fence says? | no: finding 2 |
| `jobs_lifecycle` | a job of each kind with any two of a crash, a lost context, a cancel or retirement, a dismissal, a Stop of the turn | `TypeOK`, `EndsOnce`, `HolderSettles`, `OneAttempt`, `RunningIsCarried`, `SettledIsTold` hold |
| `jobs_stop` | does a detached job outlive its turn's Stop, as the read model says? | no: finding 3 |

### Bounds

Lease: two processes are enough for every pairwise race, and each may crash and
come back as another kind any number of times. `MaxDriving` is one pass at a time
in a process. The run has probes that succeed (`ProbeFails = FALSE`), which keeps
the liveness check small; the theorems hold for probes that fail as well.

`TerminalEffects`: two responses of one turn give a superseding response, a close
next to a live continuation and a sweep over more than one; `MaxFaults` is the
number of crashes and refused reports together, at any points (one reaches every
recovery path; the awaited instance has none, its question being what one process
does: `WakeCovers` is there about passes and reports that overlap, and the crash
between a commit and its wake belongs to `terminal_followups`). `MaxTells` bounds only when the outside calls in: no report of the
isolate's own is withheld. The instances differ in their effects because lanes do
not share rows. The live instance has one response that owes both lanes: an inline
follow-up turn, and the detached coalesced effect, which may complete, fail and be
tried again, defer itself to an instant, end without completing, or be lost with its
process; the response closes after both. It has no refusals: a crash at the release
after a settings change loses the wake, see below.

`TurnFence`: two runs of one turn are a turn and its Retry, or two turns one of
which supersedes the other; one Stop can fall before, between and after every
step of both; one death or reset, after which what was sent before may still
arrive. `fence_retry` has a third run, for a Retry of the second turn.

`Deliveries`: two committed deliveries give order, a repeated id and a cutoff
between them; one Stop; two faults in the safety run, so that a death can follow
a reset or a lost answer.

`BackgroundJobs`: one job, three recoveries and two faults. `Cap` is 1, and other
agents' jobs may fill it. Two faults reach a crash during the recovery from an
earlier one and a cancel that races a recovery. `RunningIsCarried` leaves
out jobs a Stop of the turn aborted (finding 3) and those whose held outcome an
older attempt replaced; `SettledIsTold` is about settles inside an attempt's
fiber. Both limits are the code's, and are listed below.

Deadlock is checked for the lease: a process can always start, ask or crash. The
other runs say `CHECK_DEADLOCK FALSE`, because an instance whose work is done and
whose bounds are spent has nothing left to do.

Each property has a mutant, a plausible slip in the code it is about (an instant
not asked, a guard dropped, an epoch not read), under which TLC finds it
violated; they stand next to the definitions they change.

### Fairness

`DriverLease`: statements in progress complete, operations and turns end, a
daemon ticks again and again. Nothing is assumed of people or of crashes.

`TerminalEffects`: code that waits for nothing goes on (weak fairness of
`AwaitFree`). Strong fairness for what happens again and again although other
steps interrupt it: a report leaves, the workspace's wake comes, the pump takes a
turn, which goes on and ends, some row's instant comes, an effect tried for ever in
the end completes (otherwise nothing could be promised; the code retries without
limit), a turn taken for an identity in the end opens, and the owner acts: closes a
question, or fixes what refuses and is heard. Where one assumption covers several
steps (the pump's, the instants, the owner's) it is of some of them, not of each. The live instances have one
response: with two, an owner who sends a message after each answer and an agent
that asks a question in every turn postpone a follow-up turn for ever, which the
code intends.

`Deliveries`: the lane and the isolate go on with what they have begun, the wake
comes while it stands, a retirement's cancel is made. Faults are bounded, so in the
end calls are answered; nothing is assumed of producers, Stops or faults.

`TurnFence` and `BackgroundJobs` are checked for safety only.

## Findings

1. `lease_overlap`: an interactive process takes a live daemon's row at any time,
   and the daemon looks at the row only between operations, so both convert at
   once until the daemon's operation ends. The header calls it a single-driver
   lease, needed because `markConsumed` has no guard.
2. `fence_retry`: the turns cut off in this activation are dropped as they close.
   A turn stopped before its preparation ends under a run the fence never
   admitted; that end is dropped as stale and the cut stays, so every call of the
   turn's Retry is refused. The fence says a Retry opens the agent again.
3. `jobs_stop`: while a call is being made a job its controller is still the
   foreground's. A Stop of the turn in that window aborts it, the job's attempt
   returns as one stopped by a cancel or a recovery, and the row stays running
   with nobody to end it, until the next activation's sweep. The read model says
   detached jobs outlive their turn.

### Disagreements kept as hazards

These came out of the same models, with a trace from TLC while the property was
stated without its present limit; `PROJECT.json` lists each as a hazard that no
property covers, with its line.

* A turn the gate admits outside a pass acquires the lease, and nothing releases
  it when that turn ends: an idle daemon holds the row.
* A settings change releases parked rows and asks for their wake through a report
  that waits its turn; an isolate that dies in between leaves them with no wake.
* An offer or a Retry admitted around a Stop can be held although the Stop came
  first, because its handler awaits between the check and the commit; an offer
  can so be held twice.
* `paid()` deletes by id: the answer of a Retry cancelled and asked again while it
  crossed deletes the second row.
* `took()` writes what was applied also for an older sequence: words marked late
  erase what a newer Retry did.
* A Stop between an opening's check and its admission leaves only a cut in memory:
  after a reset of the workspace the calls of that turn run again.
* A Stop that reaches an isolate before it takes up the run a death left open and
  unprepared cuts nothing, and the run re-opens.
* A rest does not close every turn whose end was lost, though the comment on
  `closeLostChatTurn` says an agent that rests holds no turn. A start carries no
  opening and is checked against no fence: one that outlives its isolate, and arrives
  after the next one opened the turn again, ended it and told its rest, is heard as a
  turn that nothing will end. And the wake is cancelled before the isolate is asked: a
  second death, in that question, leaves the turn open with nothing to ask again. So
  do, after two deaths, a preparation of the first isolate that is admitted between
  the question and its answer, and, with a third run, a tool call whose late reading
  put an old opening back in memory, which the rest then names. New input or a reset
  clears each.
* Two attempts of one job that answer during one cancel: the older's outcome
  replaces the newer's, and a refused cancel then replays one that its epoch
  refuses.
* A settle outside a fiber (a refused cancel's replay, a give-up of a sweep, an
  owner's cancel) has no row that remembers its wake across a crash.

## Proofs

Each theorem holds for every value of the constants that the module's named
assumption allows; TLC evaluates those assumptions on every run. They say that
the bounds are natural numbers, that a "no" value is outside the set it stands
beside, and how the sets of effects and kinds nest; `TurnFence` also assumes that
there is a run (`MaxRuns` is not 0). No bound is assumed small.

None of the properties is inductive as it stands. In every proof module `IInv`
is the conjunction of named parts that is; TLC checked it on the instances before
it was proved. One lemma per action shows that the action keeps it, the next-state
lemma puts them together, and each theorem follows from `Spec => []IInv`.

| Module | Theorem | States |
|---|---|---|
| `DriverLeaseProofs` | `TypeCorrect`, `InteractiveExclusion` | `TypeOK`, `InteractiveExclusive` |
| | `LiveOwnerKeeps` | the action property `LiveOwnerKeepsRow` |
| `TerminalEffectsProofs` | `TerminalEffectsTypeCorrect` | `TypeOK` |
| | `ClosedResponseOwesNothing`, `OneOwedPerCoalesced` | `SettledOwesNothing`, `OneCoalesced` |
| | `ParkedRowWaitsOnOwner` | `ParkedWaitsOnOwner` |
| | `FollowUpEndsOnce`, `AnsweredEffectNotRepeated` | `FollowUpOnce`, `AnsweredOnce` |
| | `LiveTurnKeepsReceipts` | `ReceiptsKept` |
| | `OwedEffectHasWake` | `WakeCovers`, where no provider refuses |
| | `EndedEffectStaysEnded` | an action property: what ended is not owed again, no claim is undone |
| `TurnFenceProofs` | `FenceTypeCorrect`, `StoppedRunStaysStopped`, `CallsRunInOrder`, `RunningTurnIsOpen` | `TypeOK`, `StaysStopped`, `WorkInOrder`, `LiveIsOpen` |
| | `RefusedForGood` | an action property: an execution once refused never stands again |
| `DeliveriesProofs` | `DeliveriesTypeCorrect`, `OwedDeliveryHasWake`, `AnsweredStopIsCut` | `TypeOK`, `OwedHasWake`, `RetiredStopIsCut` |
| `HandOverProofs` | `HandOverKept` | the refinement `KeepsPromise`, where `Plain` holds |
| | `SettledForGood` | an action property: an answered or cancelled delivery stays so |
| | `NoneLostNoneTwice` | no committed delivery is lost, none is taken twice |
| `BackgroundJobsProofs` | `JobsTypeCorrect`, `JobEndsOnce`, `JobSettledByHolder`, `JobRunsOnce`, `RunningJobIsCarried`, `SettledJobIsTold` | `TypeOK`, `EndsOnce`, `HolderSettles`, `OneAttempt`, `RunningIsCarried`, `SettledIsTold` |
| | `JobEndsForGood` | an action property: a settled row is not rewritten, a dismissed job stays gone |

**DriverLease.** That two interactive processes do not convert at once
follows from `InteractiveKeeps`, that a converting interactive process holds the
row's token; that this survives another process's compare-and-swap needs
`DecisionStands`, that a claimant about to write has either read a row that no
longer is the live owner's, or one it may take; and that needs tokens to name
their minter (`TokensNameMinter`), a fresh token to be nobody's
(`MintedIsFresh`), a claimant to hold nothing (`ClaimantHoldsNothing`), rows and
remembered rows to describe the process that wrote them while it lives
(`RowsDescribe`), and a dead process to remember nothing (`DeadForgets`).
`Counting` and `OnlyDriversAct` carry the work counters. `StepKeepsRow` derives
the action property from the invariant.

**TerminalEffects.** `DriveKept` is the heart of it: a drive's response is in
flight and has no other drive; what it has still to attempt has not answered and,
in the inline lane, is still pending; what it runs is none of the effects that
commit by themselves; a refusal it met and nobody has acted on since still waits
on the owner. From it and `AnsweredKept` (what answered completed is not owed again while
its response is open) comes `AnsweredOnce`; from it and the ledger's own part
comes `ParkedWaitsOnOwner`. `FollowUpOnce` needs `FollowUpsKept`: a follow-up
turn ended once exactly if its opening row is on disk, and one that is queued,
taken or in the open run is not on disk and is in one of these places only; that
in turn needs `PumpRun` (the pump's turn and the open run are one) and
`TurnTells` (the report an opening turn waits for is the only one of its kind,
so that a refused report never closes another turn's run). `WakeCovers` needs the
stronger `Woken`: a turn under way and a queue that may run have the wake as
well, because a report of rest may leave after they end and rows of theirs commit
in between. `Woken` holds while no provider refuses; with refusals the code
does not keep it (see the disagreements), so the theorem says where it does.

**TurnFence.** An epoch is minted once per run and once more per death
(`Minted`), and openings are numbered in the order of their runs (`Fenced`): the
one row of the fence therefore remembers enough, for a run that a Stop cancelled
is the row's, still cancelled, or behind it for good (`Cancels`). `Granted` is
what makes `LiveIsOpen` hold while answers are on their way: a grant not yet heard is of
the opening that stands, and a "nothing is owed" not yet heard names an opening
older than any claimed since. `NothingNewer` gives `WorkInOrder`.

**Deliveries.** The lane has one call it hears the answer of (`OneLaneCall`,
`Crossing`); a Stop on its way is of a generation that was asked, the newest one
carries all the newest cuts off, and one that was answered is in the isolate's
marks (`Cuts`). Calls of an activation that a reset ended and ids asked anew are
included. `lane.rest` is the set of sequences the pass has still to cross, taken
oldest first.

**HandOver.** The refinement is proved as initial states that map to initial
states and, per action of `Deliveries`, a step of `HandOver` or a stutter, under
`Plain`: no id is an offer, no call begins after the reset of its sender
(`LateCalls`), no id is asked again while the lane crosses it
(`RepeatCrossing`). With any one of the three TLC refutes `KeepsPromise`, and the code has
the disagreement, so the hypothesis is what the code justifies; the run
`deliveries_promise` is an instance of it. How many ids, rows, Stops, faults and
retirements there are is free. Each step needs `PInv` beside `IInv`. `PassKept`: the
lane goes over rows still owed, or cancelled since it read them, oldest first and
leaving none out, so that the mark of the newest taken never passes one that is owed.
`CutsKept`: a Stop's cutoff is behind everything owed since, on its way, in
the outbox and in the isolate's marks. `TakesKept`: what was taken was taken once, is behind
all that is yet to cross, and the marks or the store still know it; what is not
owed was taken, answered or cancelled. `OneRetry`: one Retry awaits in its handler.
`CallFits`: a delivery on its way is the lane's, or one a reset left at its
handler, and an answer that says "taken" is true of the delivery it names. The
abstract state is `Fate`, a function of the sequences, so that most steps change
one value of it. `SettledForGood` and `NoneLostNoneTwice` follow from the step lemmas
and from `TakesKept`.

**BackgroundJobs.** The invariant is stated of one job (`JobInv`), because every
action moves one job and `Same` is what it leaves of the others. `Controls` ties
the controller to the newest attempt, `Recovering` says that a recovery which may
still take its job found it driven by nobody, and nobody drives it since,
`Fibered` and `ToldLater` keep a fiber row for as long as somebody must still be
told, and `Kept` names who carries a running job. `RunningIsCarried` is stated,
and proved, for jobs that no Stop cut as they detached (finding 3) and whose held
outcome no older attempt replaced; `SettledIsTold` for settles in a fiber.

Three action properties are about what no step undoes, in each durable table: a
job's row (`RowMoves`), the fence's (`FenceMoves`), a claimed response's
(`LedgerMoves`). One lemma per write shows it, and every other action leaves
the table alone. That the fence's openings come in the order of their runs needs
the invariant (`Fenced`), as does that a claim finds no rows of its response.

A failed proof attempt changed two definitions: the cases of `ClaimRows` and of
`Fate` overlapped, which TLC reads in order and the logic does not.

Only model-checked: the liveness properties `StaleRowReplaced`, `EffectsFinish`,
`ResponsesSettle` and `OwedResolves` (fairness and ENABLED are out of this
prover's reach). Every safety property and action property of the passing runs,
and the refinement, is stated by a theorem.

## Plan

Done: `DriverLease`, `TerminalEffects`, `TurnFence`, `Deliveries` with
`HandOver` and `BackgroundJobs`, proofs of the safety of each, and the refinement. In order, what
is left:

1. `DeliveredRuns`: a delivered run's rounds and reports, delayed, reordered or
   sent before a reset; a charge applied once.
2. `EventLog` and its drain, composed with the lease's promise.
3. Inbox and steers in the chat session; wake jobs; actor claims; reply channels.

Not to be modelled: scoring over reals (`mcts`), text assembly and parsing,
presentation, the devbox's block layer and the desktop agent, which are systems
of their own. `PROJECT.json` lists every component with its reason, and the
hazards that no property covers yet with the module planned for them.
