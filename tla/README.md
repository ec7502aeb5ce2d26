# Verification of the host's run engine

TLA+ models, TLC runs and TLAPS proofs for GrokNode. Paths below are relative
to the repository; `T/` stands for `source/host/extensions/transcript/`.

GrokNode runs long-lived agents for a user. A Node.js host process owns the
agents: it takes the user's messages, runs one model turn at a time per agent,
persists what must survive a restart, and resumes work after an upgrade or a
crash. The correctness of that engine is a matter of ordering: callbacks,
timers, retries, failed writes and restarts meet in orders no test lists. That
engine is what is modelled here, innermost parts first.

Contents: [inventory](#inventory) - [modules](#modules) - [runs](#runs) -
[fairness](#fairness) - [proofs](#proofs) - [findings](#findings) -
[limits](#what-is-not-modelled) - [plan](#plan).

To check: `tlc -config X.cfg M` for a run of the table below, `tlapm M.tla` for
each module whose name ends in `Proofs`.

## Inventory

### Parts of the system

| part | source | state it keeps | operations |
|---|---|---|---|
| run scheduler | `T/run-scheduler.ts` | per agent: three pending lists, the active run and its phase, watchdog and grace timer, zombies; a disposed flag | `enqueue`, the pump microtask, settling of a task, watchdog and grace callbacks, `drain`, `dispose` |
| prompt acceptance ledger | `T/prompt-acceptance-ledger.ts` | records by client nonce, gaps, a degraded mark in memory; a ledger file and a `.degraded` marker file | `recordPending`, `markAccepted`, `markRejected`, `clear`, `clearUnlessAccepted`, `lookup`, `dispose`, lazy load |
| acknowledgement obligations | `T/ack-obligations.ts`, `T/sand-ack-obligation-store.ts` | one obligation per agent in a cache and a file, redrive timers, the tokens of runs that may discharge | record, guard, confirm, fulfil, redrive, give up, redrive at boot |
| send pipeline and dispatch | `T/send-pipeline.ts`, `T/send-turn-dispatch.ts` | calls in flight by nonce, the conversation epoch | `sendPrompt`, `dispatchUserTurn`, group fan-out |
| run lifecycle, turn runtime | `T/run-lifecycle.ts`, `T/turn-runtime.ts` | counts of runs per session, indicators, the promise chain used without a scheduler | begin and end of session runs, `runTurn`, watchdog notices |
| recovery gate and coordinator | `source/host/local-resume-coordinator.ts`, `source/host/extensions/turn-execution/local-recovery-gate.ts` | a generation, a lane of attempts, an aborter; the gate, its waiters, a recovery scope per asynchronous context | `request`, `reconcileNow`, retries, `dispose`; `wait`, `setAllowed`, `runRecovery` |
| upgrade and resume | `T/upgrade-recreate-resume.ts`, `T/sand-upgrade-resume-store.ts`, `source/host/sand-host.ts` | the quiescing flag, resume markers in a file, the resumes accepted and starting | quiesce, mark, resume after recreate, resume at start, accept a resume, end of the process |
| pending wakes and revivals | `T/pending-wake-rearm.ts`, `T/sand-pending-wake-store.ts`, `T/background-wakes.ts`, `T/completion-revivals.ts` | markers of background work in a file, watches, queues of completions | arm, complete, abort, revive; rearm after a start or a recovery; carry over a recreation |
| agent worker pool | `source/host/agent-isolation/agent-worker-pool.ts` | connections by store, uses of each store, requests in flight with their deadlines | call, retain, sweep, evict, close, retire |
| automation fires | `source/host/extensions/automations/sand-automation-fire-consumer.ts`, `T/automation-event-fires.ts`, `T/automation-run-path.ts`, `source/host/automations/automation-store.ts` | what the consumer knows of each fire; a batch per routine; runs of the routine; a history of runs in a file | poll, deliver, reject, report; collect, shed, flush; run, finish; stop and start |
| request coalescer | `source/host/extensions/box-store-sync/request-coalescer.ts` | a batch, its keys, one flush in flight | submit, flush, split on failure |
| gateway host supervisor | `source/node-agent-coordinator/gateway/host-supervisor.ts` | a cached health, a shared connection attempt, an epoch | connect, invalidate, stop |
| others | agent-to-agent messages, group chat and rooms, the rest of automations and of the agent lifecycle, sessions and databases, transcript mirror, store sync, sharing, gateway, Electron main process, node agent API, library | see `PROJECT.json` | mostly I/O, codecs and routing |

### How they interact

```
 client --sendPrompt--> send pipeline --record--> acceptance ledger (file, marker)
                             |        --record--> ack obligations   (file)
                             |                        ^   | timer: redrive
                             v dispatch               |   v
        recovery gate --wait--> run scheduler --> run of a turn --message shown--> fulfil
             ^                    | watchdog: interrupt, then abandon; retire token
             |
      recovery coordinator <--request-- start of the host, end of an upgrade
             |-- suspend and resume wakes, resume turns, redrive obligations
             |-- rearm pending wakes --> watches --> completion queues --> revivals --+
                                                                                    |
 relay server <--poll, report--> fire consumer --> batches --> routine runs --------+
                                                                                    v
                                                 background lane of the run scheduler
 every run --> agent worker pool --> worker threads, one database each
```

Calls are direct, within one thread. What arrives in between is what hides
behind each `await`: another call, a timer, the end of a run. Durable state is
in small JSON files, each replaced atomically, but two files are never written
together. A crash can fall anywhere.

### What is hard, and what correctness means

- **Scheduler.** A run that is abandoned goes on in the background and ends
  later; timers may outlive the run they were armed for; clock and timer
  disagree. Correct: one run at a time apart from the abandoned ones, no lost
  wake-up, no user turn without a watchdog, no early abandonment, a `drain`
  that waits for bodies and not just for promises.
- **Ledger.** Any write can fail, the process can die between any two, records
  are evicted at a cap. Correct: it may say "I do not know", but "not-found"
  and "found" are true, and a doubt once incurred stays.
- **Obligations.** A send, older runs, redrives, the watchdog, upgrades and
  crashes race for one obligation. Correct: the count of runs is exact, only
  live runs discharge, an answer that is owed is still owed after anything
  that may happen, and an idle agent never sits on an obligation nobody will
  look at again.
- **Pending wakes.** Work outlives the turn and the process that started it.
  Passes that rearm it work on a list read before their awaits, beside
  completions, deletions, recreations and one another. Correct: a wake that is
  owed is on disk until a revival takes it up, somebody follows it once the host
  is released, and it arrives.
- **Worker pool.** A worker may be evicted, swept, closed, late, or dead while
  others are given it. Correct: what is handed out can be used, what is used is
  kept, no thread is forgotten, and nothing waits for ever.
- **Automation fires.** The server, the consumer's memory and the history of
  runs each know a part; polls are out of date when they arrive, reports are
  lost, batches change their make-up across a restart. Correct: a fire is held
  in one place, told as it ended, not run again once it has run, and settled.
- **Recovery.** Requests overtake one another at every await, attempts fail and
  are repeated, work waits at the gate or is started by the recovery itself.
  Correct: the gate opens only for the recovery of the latest request, nothing
  passes a closed gate, nobody waits at an open one, and it opens in the end.
- **Upgrades.** A run stops at a checkpoint and returns later; in between the
  upgrade may be called off, prepared again, or the process may end. Correct:
  work cut short stays marked until its agent has run again, a marker goes for
  its own reasons only, a process resumes it once, and recovery takes up every
  marker it finds and ends.

`PROJECT.json` lists the hazards one by one, with the line where each bites.

## Modules

| module | models | extended by |
|---|---|---|
| `ExclusiveExecutor` | the promise of any executor of an agent's runs (abstract) | refined by `RunScheduler` |
| `RunScheduler` | `SandRunScheduler`, the queue of one agent | `MCRunScheduler`, `RunSchedulerProofs` |
| `AcceptanceLedger` | `PromptAcceptanceLedger` with its two files | `MCAcceptanceLedger`, `AcceptanceLedgerProofs` |
| `AcceptanceGaps` | the times within the ledger's gaps | `MCAcceptanceLedger`, `AcceptanceLedgerProofs` |
| `AckObligations` | a conversation from send to visible answer: pipeline, dispatch, obligations, run counts | `MCAckObligations`, `AckObligationsProofs` |
| `RecoveryCoordinator` | `LocalResumeCoordinator` with `LocalRecoveryGate` | `MCRecoveryCoordinator`, `RecoveryCoordinatorProofs` |
| `UpgradeResume` | `UpgradeRecreateResume` with `SandUpgradeResumeStore` and the runs it cuts short | `MCUpgradeResume`, `UpgradeResumeProofs` |
| `PendingWakes` | `PendingWakeRearm`, `SandPendingWakeStore`, `CompletionRevivals` and the wakes a recreation carries | `MCPendingWakes`, `PendingWakesProofs` |
| `AgentWorkerPool` | `AgentWorkerPool` and its connections | `MCAgentWorkerPool`, `AgentWorkerPoolProofs` |
| `AutomationFires` | the fire consumer, the batches, the runs and their history, for one routine | `MCAutomationFires`, `AutomationFiresProofs` |
| `Lists` | a sequence without one entry | `RunScheduler`, `AcceptanceLedger`, `AutomationFires` |

Definitions named "Fault" in a module are plausible defects. Nothing in a
specification uses them; they record what each property guards against.

### RunScheduler

The host runs JavaScript on one thread, so an action is a stretch of code that
nothing interrupts.

| action | code |
|---|---|
| `Enqueue(t)` | `enqueue`: append to the lane, arm the watchdog, queue a pump |
| `Pump` | the microtask; `PumpIdle` is `pump()`, `IsNext` its choice: user lane with group members last, then agent, then background |
| `TaskSettles(t, outcome)` | `onTaskSettled`, including a late end of an abandoned run |
| `WatchdogRearm`, `WatchdogDefer`, `WatchdogTrip` | the three outcomes of `onWatchdogFired`: the wait is not full, the run awaits the user's selection, the run is interrupted |
| `Escape` | the grace timer: `escapeWedgedRun` |
| `Tick` | time |
| `Dispose`, `DrainCall`, `DrainReturn` | `dispose`, `drain` before and after its await |

`pending`, `active`, `phase`, `watchdog`, `grace`, `zombies` and `disposed` are
the fields of the class; `body` and `promise` are the task's own promise and the
one `enqueue` returned; `graceFor` is what the grace callback closed over;
`pumpsDue` counts microtasks. `age` stands for the time stamps `enqueuedAt` and
`startedAt`: only their differences to now are used. The code compares them with
`WatchdogMs`, the property of early escapes with `EscapeWait`, so ages saturate at
the latter. `TimerSlack` lets a timer fire before the
wall clock agrees, as `setTimeout` and `Date.now()` may. The watchdog looks at the
clock again when its timer fires, the grace timer does not; `EscapeWait` is therefore
the watchdog's window and the grace period less the slack, after which a user turn
may see the run ahead of it abandoned. Tasks are started once,
so the task serves as its generation number. Queues of different agents share
only `disposed`, hence one queue. `drain` has one caller at a time; two callers
share nothing.

`ExclusiveExecutor` keeps only bodies, promises and the set of abandoned runs.
The refinement maps `abandoned` to `zombies` and the other two to themselves;
the pump microtask and the pump within an end or an escape are the abstract
`Start`, `Finish` and `Abandon`; timers, time and `drain` stutter.

### AcceptanceLedger and AcceptanceGaps

`loaded`, `records`, `gaps`, `degraded`, `markerMayExist` are the object's
fields, `file` and `marker` the disk. `Persist` is `persist()` with its four
outcomes: the ledger file written or not, and the marker removed, respectively
written, or not. Every operation ends in it, as in the code. `Load` includes the
write that follows when the file was damaged or a marker was found, and both
ways in which a file that exists is taken for a missing one. `Damage` is a file
that parses in part or not at all: any of none, all, or all but one of the
records survive, with or without the gaps.

Four history variables say what the properties are about: `recorded` (nonces
recorded and not cleared), `blind` (something was lost that could leave no
trace: the process died while neither file could be written, or a file could
not be read), `unmarked` (the last marker write failed) and `stale` (the process
died with an unwritten change). `NotFoundIsTruthful` and `DoubtNeverDecays` hold
but for `blind`, `FoundIsTruthful` but for `stale`: no code could do better with
these two files, except where an unreadable file is taken for a missing one
(see the hazards).

`lookup` looks only at whether there is a gap; the times a client is told with
it are in `AcceptanceGaps`, where the order of the times is arbitrary because
`Date.now()` may step back. Left out: digests (a mismatch throws before any
change) and account slots other than one (they share nothing).

### AckObligations

One agent with one session. `call` says where each send's `sendPrompt` stands
between its awaits, `run` where the run of each send or redrive stands, `owed`
and `owedFile` are the obligation in the store's cache and file (the number of
redrives made, or `Nothing`), `tokens` is `ackRunTokens`, `inFlight` is
`inFlightRunCounts` of the session, `timer` the armed redrive.

| action | code |
|---|---|
| `SendPrompt`, `SendDuplicate` | `sendPrompt` and `admitSend` up to the pinned session |
| `RecordSend`, `SendFailsEarly`, `SendFails` | `sendPromptOnce` after its awaits, the guard's disposal, the catch block |
| `Dispatch`, `SendReturns` | `dispatchUserTurn`, the end of the call |
| `StartRun`, `EndsAtOnce`, `EndRun`, `ShowMessage`, `Escape` | `runTurn` and the redrive's task, `fulfilAckObligation`, `onWatchdog` |
| `TimerFires`, `RedriveQueued`, `RedriveUnresolved`, `BootRedrive` | `redriveAckObligation` before and after its await, the redrive at boot |
| `Quiesce`, `ResumeAfterRecreate` | the quiescing flag |
| `Crash`, `CrashWhileRecording` | process death between actions, and between the two records |

The scheduler is here what `ExclusiveExecutor` promises: one run at a time, any
queued one next, abandonment only behind a waiting user turn. The ledger is one
whose writes succeed. `unanswered` is the history of sends the user has seen no
message for since they were recorded, dispatched or failed. `storeFailed` and
`torn` mark the two losses the code accepts: the obligation file could not be
read or written, and a crash in the instant between the two files. A crash while
the process shuts down is a `Crash`. Left out: an agent deleted meanwhile, the
echo and attachments (one failure before it), time stamps for telemetry, and the
delay before a redrive (the timer may fire whenever it is armed).

### RecoveryCoordinator

`generation`, `disposed` are the coordinator's, `allowed`, `gateDisposed` the
gate's; `stage` says at which await the attempt of each request stands and
`retry` where its loop stands; `work` is a caller of `wait()`, `lease` the
recovery scope it runs in. `Release` is the tail of an attempt: the scope ends,
and the gate opens if the request is still the current one. `AttemptThrows` is
a rejection at any await, `afterRelease` included. `StartsWork` lets a recovery
start work that then asks at the gate from within its scope. The delays between
retries are left out: a sleeping loop may continue at any time.

### UpgradeResume

`file` is the file of markers, which holds one per agent; a marker's key (time,
source, automation) is the number of the mark, as `clearIfUnchanged` and
`accepted` only compare keys. `quiescing`, `accepted`, `starting` are the fields
of the class; `stage` says at which await `resumeUpgradeAgent` stands for each
marker, `turn` and `cut` stand for the other runs of an agent and for
`quiescedForUpgrade` of the run under way. A run is "running" while whoever began it
will ask whether it was cut short, and "unheeded" if nobody will.

| action | code |
|---|---|
| `Send`, `Wakes`, `TurnStarts` | a turn passes the gate, work in the background needs none; either starts, heeded or not |
| `Checkpoint` | the run is cancelled in `persistCheckpoint` |
| `Nudge` | `ensureUserReply`, `ensureHiddenTurnReply`: another run follows, which is unheeded |
| `TurnEnds` | the first run of a turn is asked, and its agent marked (`MarkTurn`); the others are not |
| `Resolves`, `ResolveFails`, `ResumeStarts`, `ResumeEnds`, `ResumeThrows` | `resumeUpgradeAgent` from await to await |
| `ResumeAfterRecreate`, `Begin`, `Ready`, `Fails`, `Finish` | the gateway's request and the attempts of the coordinator around the two loops |
| `Prepare`, `Prepared` | `resumeAfterRecreate`; each of its iterations is an action, since it awaits the start of the resume |
| `Resume` | `resumeInterruptedUpgradeTurns`, likewise |
| `Quiesce`, `Delete`, `Dispose`, `Restart` | an upgrade prepared, an agent deleted, the two halves of the end of a process |

`Accept` is `acceptResume`, `Settled` its `finally`. The loops take agents in any
order. A request of the start can be superseded by one of `resumeAfterRecreate`;
more than that is in `RecoveryCoordinator`.

Who asks what became of a run differs from caller to caller. Marked are the first run
of a turn (`T/turn-runtime.ts:570`), a kickstart and an audit
(`T/agent-lifecycle.ts:154`, `:221`) and an automation
(`T/automation-run-path.ts:310`). Not marked are the nudges of a turn
(`T/turn-runtime.ts:701`, `:720`; line 590 looks at their flag for telemetry only) and
of hidden runs (`T/automation-runtime.ts:616`), redrives
(`T/ack-obligations.ts:245`), the follow-ups of inbound and undelivered messages,
broadcasts and events (`T/background-wakes.ts:234`, `:167`, `:346`, `:434`), and
messages between agents (`T/agent-to-agent-messaging.ts:259`). These are marked only
if they are in flight at an orderly end of the process (`Dispose`).

`debt` is the history of each agent's work that was cut short and not resumed: a marker
is "due" to it; or it has none because the resume of its marker was cut short and
returned after the upgrade had been called off ("slipped", the second finding), or
because its run was unheeded ("dropped"). A later mark of the agent, for whatever
reason, makes either "due" again. `CutWorkIsMarked` is about "due" work;
`RemainUntilFinished` about what had a marker, "due" or "slipped".

Left out: failing writes of the file, a deletion that fails, and revivals
(`T/completion-revivals.ts:194`, `:307`), which are marked when cut short unless their
agent has a marker already. The members' runs of a group are not cut here: nobody
asks for them, and no marker of a group is resumed. Whether a nudge is owed is left to
chance, and so is which runs are heeded. The wakes a recreate carries along are
in `PendingWakes`.

### PendingWakes

`mark` is the marker file, `watchers` the watches of background work in this
process (for a subagent its run), `waiting` the two queues of completions and
`reviving` those a revival works through, `deleted` and `erased` the agents being
deleted and gone from disk; `pass` is `rearmPendingWakes` between its awaits,
`prepare` what the next attempt of a recovery has to restore, `loose` the rearms
nobody awaits, `carry` what the client of a recreation holds.

| action | code |
|---|---|
| `Start`, `Settle`, `Abort`, `AbortedEnds` | work is started and marked; its watch ends; `abortSubagent` and the end of an aborted subagent |
| `RevivalEnds` | the end of a revival's run, and the next round of `reviveForSubagentCompletions` or `reviveForShellCompletions` |
| `RearmPendingWakes`, `RearmNext`, `RearmSucceeds`, `RearmFails`, `RearmEnds` | the pass from await to await, with `pruneStale` at its start |
| `QuiesceForRecreate`, `ResumeAfterRecreate`, `RestoreCarriedPendingWakes`, `LooseRearmed`, `LooseFails` | the wakes handed to the client and brought back |
| `InterruptForDeletion`, `Erase`, `DeletionFails` | `deleteAgents` |
| `Crash`, `Recreate` | a new process with the files, or without them |

`Completed` is what a completion does at once: it joins its queue, and if nobody
works through that queue its batch is taken up and its markers go.
`restoreCarriedPendingWakes` completes several, hence the set. An agent's two
queues are a pair of the agent and "shell" or "subagent". What `released` says of
the recovery is `RecoveryCoordinator`'s release. `started`, `taken`, `stopped`
tell which wakes are owed; `lost` names those that were pruned for their age, or
destroyed with a computer whose client did not hold them, `spared` the agents
whose deletion failed. The file is taken to be writable; what a revival's run does
with its batch changes nothing here.

`lost` also names a carried wake that comes back while its agent is being deleted:
`restoreCarriedPendingWakes` refuses it as that of an agent that is gone
(`T/upgrade-recreate-resume.ts:318`), and nobody holds it any more. If the host
then dies before it has erased the agent, the agent lives on without its wake. The
first attempt to prove `OwedWakesSurvive` stuck at this step, which takes three
failures in a row; TLC finds the behaviour with `MaxUpsets` of 3.

### AgentWorkerPool

A connection is named by the operation whose `ensure` spawned it. `pool` is
`connections`, `active` is `activeOps`, `pending` the requests of each connection
that wait (with `close` as one of them), `dead` is `isDead`, `thread` the worker's
thread, `via` the connection an operation was given, `sweeping` that the sweep's
timer is set. `phase` is where an operation stands: before `ensure`, awaiting
`init`, holding a connection, awaiting its answer, or over.

| action | code |
|---|---|
| `BeginWithExisting`, `BeginWithNew` | `retain` and `ensure`, with `evictForCapacity` |
| `Send` | `send` of the operation's request, refused by a dead connection |
| `Answered`, `CloseAnswered` | the worker's answers, in any order |
| `Deadline`, `Fails`, `Exits` | the deadline of a request, the worker's `error` and `exit` events, all of which end in `die` |
| `SweepIdle`, `CloseStore`, `CloseAll` | the sweep and the two ways of closing |

An operation whose request is rejected releases its store some microtasks later;
that is one step here, as nothing looks at `activeOps` in between. How long a
connection has been idle is left out: the victim of an eviction is any one that
is not retained, and a sweep closes any such ones.

### AutomationFires

One routine. `states` and `tick` are the consumer's, `delivery` is where
`deliver(event)` stands for each fire, `batch`, `timer` and `flushing` are the
routine's batch, `runs` the calls of `fireAutomation`, `records` the file of runs,
`server` what the relay server knows.

| action | code |
|---|---|
| `PollServed`, `PollReceived`, `PollFailed`, `TickReports`, `TickDone` | `tick` from await to await |
| `DeliveryOfKnown`, `DeliveryRejected`, `DeliveryStopped`, `DeliveryFailed` | the branches of `deliver` that need no run |
| `DeliveryOfEvent`, `DeliveryOfSchedule`, `DeliveryWhileInFlight` | `fireForEvent` with `shedOverflowingEventFires`; `fire`, refused while another is in flight |
| `ReportAnswered`, `ReportLost` | `reportCompletion` at the end of a delivery |
| `LocalEvent`, `Flush` | an event no server waits for; `flushEventBatch` |
| `RunStarts`, `RunEnds`, `RunReturns`, `RunDropped`, `RunEscaped` | `fireAutomation` with `beginRun` and `finishRun`; refused; given up by the watchdog |
| `Stop`, `Start`, `Crash` | suspended and resumed wakes, a new process |

The sending of a poll and what the server does with it are one step, and so are a
report and its answer: in between only the network is at work. The poll's answer
arrives later and may be out of date. The relay server is not in the repository:
it is taken to return a fire until it knows how it ended, perhaps longer until it
is told that the consumer knows, and never again afterwards. A run that an
upgrade cut short counts as one that ended with an error. Reasons of a rejection,
the delays between polls (`pollNotBefore`, back-off, the notify gate) and
`isReady` are left out: a poll may come at any time, or not.

`SuccessIsTrue` and `FinishedIsNotRerun` except what the code cannot keep.
`beginRun` (`source/host/automations/automation-store.ts:76`) returns an existing
record with the same id, which keeps its names and its place. After a crash the
first fire of a batch is delivered again, perhaps with other fires: its record
still names those of the batch that died. So a fire may be told "succeeded" whose
event no finished run has seen, and one that has run may be run again. Nor need the
record be the newest that names the fire: if a batch named by another fire was
begun in between and died, `existing` finds that one, "running" for ever, and the
fire is run again although its own record says "ok". `misnamed` names the fires
of a run that are looked up in another record, and those looked up in the record of
a run they are not of. The second case takes three crashes: the first attempt to
prove `NothingIsRerun` stuck at it, and TLC finds it with `MaxUpsets` of 3.
`forgotten` names fires whose record has left the bounded history before they were
reported.

## Runs

| run | configuration | question | bounds |
|---|---|---|---|
| `scheduler` | `RunScheduler.cfg` | is the queue consistent whatever happens, is it an exclusive executor, does a user turn start although no body ends, and does every caller hear back if bodies end? | four tasks: a user turn, a group turn, an agent and a background run; window 2, grace 2, slack 1 |
| `ledger` | `AcceptanceLedger.cfg` | are the ledger's answers true and its doubts kept, and do merged windows still cover every loss? | three nonces, cap 2; three times, two windows kept, four noted |
| `ack_safety` | `AckObligations.cfg` | is an owed answer neither lost nor stranded, are runs counted exactly? | two sends tried twice each, one redrive slot, limit 1, one crash, one upgrade called off, failing store |
| `ack_settling` | `AckObligations_settling.cfg` | is every obligation settled in the end? | two sends, store that writes |
| `group_duplicate` | `AckObligations_group.cfg` | has a duplicate send been accepted? (no: see the first finding) | a group, which owes no acknowledgement |
| `recovery` | `RecoveryCoordinator.cfg` | does the gate open only for the latest recovery, let work pass only then, and open in the end? | two requests, one piece of work |
| `upgrade_safety` | `UpgradeResume.cfg` | does work cut short, and asked about, stay marked, and is it resumed once? | an agent and a group, two marks each, two upgrades prepared per process, one end of the process |
| `upgrade_taken_up` | `UpgradeResume_taken_up.cfg` | is every marker taken up, and does recovery end? | one agent, two marks, one upgrade per process, one end of the process |
| `upgrade_finished` | `UpgradeResume_finished.cfg` | do markers remain until the work is finished? (no: see the second finding) | as `upgrade_safety` |
| `wakes` | `PendingWakes.cfg` | does a wake that is owed stay marked, is it followed once the host is released, and does it arrive? | two works of an agent (shell and cloud agent, or cloud agent and subagent) or a shell of a group; one crash, recreation, pruning or deletion; one watch per work |
| `pool` | `AgentWorkerPool.cfg` | is what is pooled usable and what is used kept, and does every operation and thread end? | four operations on three stores, pool of one |
| `automations` | `AutomationFires.cfg` | is a fire held once, told truly, not run again, and settled? | two event fires, two of a schedule, or one of each with two failures; two event fires and a local event with one; batches of two, a history of two |

The properties of a run group named parts that belong to one question; each part
has a definition and a comment of its own. `QueueConsistent` is the type invariant
with `TimersActOnActive` and `PromiseTracksRun`, `QueueAttended` is `NoIdleQueue`
and `WatchdogCovers`, `EndsAreHeard` is `PromiseSettles` and `DrainReturns`;
`LedgerConsistent` holds the cap, `GapsCover` windows and horizon, `RunsCounted`
the count of runs; `AttemptsConsistent` is `OneRecovery`, `WorkGoesOn`
`GateReleases` and `WorkAdmitted`, `RecoveryCompletes` `TakenUp` and
`RecoveryEnds`, `WakesFollowed` `ReleasedIsFollowed` and `NoStrandedCompletion`,
`PoolConsistent` `PooledIsUsable`, `NoLostThread`, `SweepCovers` and `PoolBounded`,
`NothingHangs` `OpsEnd` and `ThreadsEnd`, `DeliveriesHeld` `HeldOnce` and
`BatchMoves`, most with the module's type invariant.

Why these bounds are enough for the cases of interest:

- *Scheduler.* A wrong hand-over needs a run that was abandoned, its successor,
  and one task that waits behind that: three tasks. The fourth has the last lane,
  so that every order of lanes occurs. The code has a window of 120 000 ms and a
  grace of 30 000 ms; only their order relative to other events matters, and
  with a window of 2 a user turn can wait no time, part of a window or a full
  one. With a grace period of 2 and a slack of 1 an escape may come early, but not
  together with the trip of the watchdog. The proofs lift these bounds.
- *Ledger.* Three nonces against a cap of two evict in every state of the
  records, and again after a restart. `NotAllLost` cuts behaviours where both
  kinds of loss have happened and both answers are excused. The proofs lift these
  bounds for what they cover.
- *Gaps.* Windows merge pairwise into the last one, so two merges past the limit
  show both a first merge and a merge into a merged window. Three times give
  every order of two end points. The ledger and its gaps share nothing but the
  kinds of gap, so the run explores each while the other rests.
- *Obligations.* An older run, a newer send, and a redrive are the actors of
  every race in the code; one crash and one called-off upgrade suffice as the
  model keeps no memory of earlier ones other than the counters. The limit of
  redrives is 1 instead of 3: the code only compares with it.
- *Recovery.* Two requests are one that is overtaken and one that is not; a
  request meets only the latest generation, so a third repeats the first. The
  work is now inside, now outside a scope. The proofs lift these bounds for the
  safety properties.
- *Upgrades.* Agents meet only in the loops of a recovery, one waiting for the
  other: two suffice. An older and a newer marker need two marks, and a resumed
  run that is cut short again needs a second upgrade. What would need a mark
  begins only if one is left (`Room`), so that the bound blocks no run that has
  begun. An unheeded run makes no mark and is bounded by nothing. The liveness run has
  one agent, whose turns, wakes and two marks follow one another.
- *Wakes.* Works meet in a queue (cloud agent and subagent share one) or in the
  list of a pass: two suffice (`Together`). Aborts, failing rearms, ends of
  revivals and repeated passes are not bounded; only one crash, recreation,
  pruning or deletion is (`MaxUpsets`). A restart forgets all but the file, so a
  second one begins as the first did, in a state with fewer watches; what takes
  more failures is left to the proofs, which allow any number. A work is
  watched once (`MaxWatchers`); with two watches, of a retired runner and its
  successor, its completion may come twice and the second is not told from the
  first.
- *Worker pool.* A pool of one is full with any worker; two operations share a
  store, and two other stores compete for the place. A connection that dies after
  its successor was spawned needs two operations on one store.
- *Automations.* A batch of two fires is named by one and coalesces the other. A
  history of two forgets, a queue of two overflows with the local event, and two
  failures are enough for a crash between the two halves of anything and a lost
  message before or after it (`MaxUpsets`); the proofs allow any number. More fires would fill more batches,
  which follow one another.

Deadlock checking is off where the system may stop: all tasks settled and the
queue disposed, all sends made and answered, all requests handled, all works, operations and
fires done. The ledger run leaves it on.

## Fairness

- `RunScheduler!Scheduling`: the event loop runs its microtasks, expired timers
  and the passing of time (weak fairness). `WatchdogTrip` is strongly fair: the
  deferral for a run that awaits the user's selection is not taken at every
  expiry for ever. Nothing is assumed of bodies, which is the point of
  `UserTurnStarts`. `PromiseSettles` and `DrainReturns` have it as a premise that
  bodies end and an awaiting `drain` is resumed (`BodiesEnd`).
- `AckObligations!Fairness`: started calls proceed or fail, timers fire, queued
  runs start (strong, since another run may be active in between; the liveness of
  the scheduler, checked above, justifies it) and end. It is not assumed that a
  run ever shows a message, nor that a client sends or retries.
- `RecoveryCoordinator!RecoveringSpec`: `sand-host.ts:585` makes the first request
  at the start; calls return and retries wake; and a recovery does not fail for
  ever. Without the last the gate rightly stays closed.
- `UpgradeResume!Fairness`: runs start and end (the start of a resumed run is
  strongly fair: wakes of the same agent may run before it again and again, but the
  background lane is a queue), the steps of an attempt are taken, attempts are repeated (`RecoveryCoordinator`); a session can be opened
  in the end (`Resolves`), and neither `isReady` nor the end of an attempt fails
  for ever. That runs end is an assumption about the model's turns and the
  watchdog; without it the start of a resume may wait for ever (see the hazard at
  `T/upgrade-recreate-resume.ts:120`).
- `PendingWakes!Fairness`: watches end, runs of revivals end, the steps of an
  attempt are taken and attempts are repeated; the session of each marked agent
  can be opened in the end (strong fairness per work), and the client of a
  recreation resumes it. Work is started, aborted and deleted as it may.
- `AgentWorkerPool!Fairness`: microtasks and deadlines run, a terminated thread
  exits, and the sweep comes while there are idle workers. Workers owe nothing:
  one that never answers is the case the deadline is for.
- `AutomationFires!Fairness`: the hub ticks for ever and the server answers, lists
  and timers come, runs end, a suspended host is resumed. Failures are bounded
  by `MaxUpsets` and not fair.

## Proofs

All theorems are for any values of the constants that satisfy the `ASSUME`s of
the modules: any set of tasks with any lanes, any positive window and grace, any
timer slack, any nonces, any positive cap, any times, any number of requests and
any work, any fires, any agents and groups, any number of failures, marks and
upgrades (`MaxUpsets`, `MaxMarks`, `MaxQuiesces`, `MaxCrashes` are any numbers). Two
sets must be finite because their subsets are counted:
the runs of `AckObligations` and the operations of `AgentWorkerPool`, of which
there are finitely many in any process. Nothing else is assumed. Each argument is
an inductive invariant, the conjunction of the properties with what they rest on.

`RunSchedulerProofs`: `QueueStaysConsistent`, `ExclusiveExecution`,
`QueueStaysAttended`, `DrainWaits`, `NoEarlyEscape`, and
`SchedulerImplementsExecutor` (the refinement, initial states and every step). The safety invariants need one another: an escape acts on the
active run only because the grace timer belongs to it (`TimersActOnActive`), and a
pump arms the watchdog rightly only if lists and bodies agree. What is missing from
them is that agreement, `PendingSound`: each lane's list holds each queued task of
that lane exactly once. Without it a pump could start a task that has already run.
`IInv`, their conjunction, is inductive: `InitEstablishes` and `NextPreserves`,
with `PumpIdleEffect` and `PumpPreserves` for what the pump does at the end of
three of the actions. The action properties and the refinement then follow from
`IInv` step by step.

`AcceptanceLedgerProofs`: `NotFoundTheorem`, `DoubtTheorem`, `FoundTheorem`,
`LedgerStaysConsistent`. What memory can answer has to be
rebuilt from the disk after a crash, so the invariant `LInv` also says what the
disk holds while the ledger is not degraded (`DiskCovers`: a reason for doubt, or
every recorded nonce) and that a degraded ledger has left a marker unless that
failed too (`MarkerRaised`). "found" goes the other way: `FInv` says that memory,
and the file unless it is behind, hold nothing that was not recorded, each nonce
once and within the cap; a file damaged or read again keeps to that.

The same module proves `MergingLosesNothing` of `AcceptanceGaps`: `GapsCover` is
inductive as it stands. The hull of two windows covers both, covering is
transitive, and both ways of adding a window keep all that was covered.

`AckObligationsProofs`: `RunsAreCounted`, `TokensFollowRuns`,
`ObligationsAreWatched`, `SendsStayOwed`. That the last run to
end looks at the obligation is worth something only if the count of runs is exact;
and it is exact only because a send is queued once, which follows from the ledger:
a run exists for accepted sends only, and a send on its way is not yet accepted
(`RunsSound`). That a send stays owed across a restart needs the cache and the file
to agree, and the tokens of a group need that a group is never redriven
(`OweSound`). `KInv` is their conjunction.

`RecoveryCoordinatorProofs`: `RecoveriesDoNotOverlap`, `GateOpensForLatest`,
`NobodyForgotten`, `LegalPassage`. That a superseded
attempt never opens the gate looks local to `Release`, but is not: an attempt that
begins must be alone, which needs that later requests have none and that only the
current one sleeps (`AttemptsSound`); an open gate must have no attempt left that
could still begin behind it (`GateSound`); and a scope must not outlive its recovery
(`LeaseSound`). `RInv` is their conjunction with the properties.

`AgentWorkerPoolProofs`: `PoolStaysConsistent`, `PoolStaysBounded`,
`UsedWorkersAreKept`. Eviction and the sweep spare a worker in use only because
`activeOps` counts exactly the operations of a store (`ActiveExact`) and an
operation's connection is one to its own store (`ViaSound`); a connection that dies
late disturbs no successor because the pool holds each under its own store
(`PoolSound`) and a new one has left no trace (`FreshSound`).

`AutomationFiresProofs`: `FiresTyped`, `ReportsAreKnown`, `EveryFireIsHeldOnce`,
`DeliveriesStayHeld`, `ToldSuccessesAreTrue`, `NothingIsRerun`.
`HoldSound` says where each fire is: in the batch, in one run that was not given
up, or with the consumer. `ReportSound` relates the consumer's view of a fire to
the server's, whose answers are out of date when they arrive. What a fire is told
after a restart comes from the history of runs, so the last two theorems rest on the
lookup: a run that has begun is found for each of its fires, and for no others
(`RunsFound`), but for `misnamed` and `forgotten`. That holds across a new record
only if no fire is in two runs (`Apart`), also not in one that was given up, whose
fires must not be delivered again while it goes on (`SpentSound`); and that
rests on what an answer to a poll may leave out (`TickSound`). With it, a record that
says "ok" is of fires that were run well (`RecordsTrue`, `StatesTrue`), a finished
fire is found in a finished record (`FinishedKnown`), and so does not wait in a batch
or a run (`WaitingFresh`). `HistoryInv` is their conjunction.

`UpgradeResumeProofs`: `CutWorkStaysMarked`, `MarkersGoForTheirReasons`,
`ResumesHappenOnce`. The first is about work that somebody asks about; what is dropped
or has slipped is excepted by the history. `CutWorkIsMarked` is a matter of who may clear a marker: the end
of a resumed run clears its own, so an older resume must be over before a newer
marker's starts. An attempt waits for the start of each resume (`StagesSound`), a
marker under way is the file's or an older one than the file's, and none older than a
running one is left (`Backed`), and a recovery has no outdated marker left to take up
(`TodoSound`). An orderly end of the process marks what it cuts short before it dies
(`DisposeSound`), and whoever has yet to mark finds room below `MaxMarks`
(`RoomLeft`), so that the bound hides nothing. `UInv` is their conjunction.

`PendingWakesProofs`: `OwedWakesSurvive`, `EveryWakeIsFollowed`,
`DeletedAgentsAreLeftAlone`. A wake may be owed again: an agent whose deletion
failed, or was cut short by the end of the process, gets back what it was owed. The
invariant therefore keeps the markers of every agent not yet erased (`Kept`). A
host is released after a pass that re-armed everything, so each wake is followed or
still before a pass that has not failed (`PassSound`); and the rearm of a
carried wake, which nobody awaits, may write its marker back after a failure, which
must find the marker there (`LooseKept`) or the wake taken up. `WInv` is their
conjunction with the properties.

Only model-checked: all liveness properties (`UserTurnStarts`, `EndsAreHeard`,
`ObligationSettles`, `WorkGoesOn`, `RecoveryCompletes`, `WakesArrive`, `NothingHangs`,
`FiresSettle`): fairness is beyond the prover. Every invariant and every action
property of the passing runs is proved.

## Findings

`DuplicateWasAccepted` states the log line of `sendPrompt`
(`T/send-pipeline.ts:130`): a duplicate send is one whose nonce was already
accepted. Run `group_duplicate` refutes it. The ledger's record is written as
*pending* before the turn is queued and becomes *accepted* only after; a crash
in between leaves the pending record, and `admitSend` answers the client's retry
as a duplicate although no turn was queued. In a one-to-one chat the obligation,
recorded at the same time, redrives the agent after the restart. A group owes no
acknowledgement, so there nothing takes up the message.

`RemainUntilFinished` states the title of a test
(`tests/server-port-recovery.test.mjs:43`): resume markers "remain until accepted
work finishes". Run `upgrade_finished` refutes it. The end of a resumed run
clears its marker unless the host quiesces at that moment
(`T/upgrade-recreate-resume.ts:176`); whether the run was cut short is not asked.
If a second upgrade cuts a resumed run short at a checkpoint and is called off
before the run returns, the flag is down, the marker goes, and the agent stays
where it was stopped: `acceptResume` has accepted the marker before and does not
start it again. Ordinary turns go by the result of the run
(`T/turn-runtime.ts:570`) and are marked. `CutWorkIsMarked`, checked as
part of `MarkersKept`, is the same property with this case excepted ("slipped"), and
holds. Neither speaks of unheeded runs, which are cut short without a marker ("dropped"):
the test's title is about markers that were made, and no text of the repository says
that every run gets one.

## What is not modelled

Reasons in short; `PROJECT.json` has them per component.

- The echo, attachments, reply threads and indicators of the pipeline and the
  update stream of a turn: they change nothing the properties speak of. Nudges are
  part of a turn's run in `AckObligations`, whose token they carry; in `UpgradeResume`
  they are runs of their own, as they are not asked whether they were cut short.
- Of automations: the definitions and their synchronisation with the cloud, the
  local cron scheduler, webhook receipts, the spend guard and manual runs.
- Of background work: the inbound queues of `T/background-wakes.ts`; the marker
  file is taken to be writable, and how a completion turned out is not told apart.
  `PendingWakes` has a host that may execute (`canExecute`), and none of its runs is
  refused by a scheduler that is being disposed of; `RecoveryCoordinator` lets a recovery
  start work in its last stage only, "resuming".
- Creation, renaming and archiving of agents; the erasure of their other data.
- Generated protocol code (`source/packages/proto/generated`) and generated bundles,
  which are most of the repository's lines and have no control of their own.
- The joining of a retry with a call in flight: `AckObligations` starts a retry
  when the earlier call has returned.
- Transcript mirror, agent databases, document tools: codecs and SQL, where the
  difficulty lies in data.
- Gateways, Electron and sandbox start-up, sharing: I/O against services outside
  the repository.
- Vendored applications, the user interface, deployment files.

## Plan

In this order:

1. `GatedScheduler`: `RunScheduler` behind the gate of `RecoveryCoordinator`. Turns
   that wait at the gate are in no queue, so neither `drain` nor the watchdog sees
   them (`T/run-lifecycle.ts:321`), and an in-place resume waits for a turn in the
   background lane behind a run that no user turn can unseat
   (`T/upgrade-recreate-resume.ts:120`). To be stated as liveness of the
   composition.
2. An abstract specification of work that survives (taken on, marked, taken up
   once, with the losses named), which `UpgradeResume` and `PendingWakes` both
   refine; their invariants are proved, the refinement would rest on them.
3. `RunChain`: the promise chain used without a scheduler
   (`T/run-lifecycle.ts:325-341`), as a second implementation of
   `ExclusiveExecutor`.
4. `RequestCoalescer` and `HostSupervisor`: batches that fail in part, attempts
   shared across an invalidation.
5. The automation wakes of an upgrade, which are suspended outside the lane of
   recoveries; webhook receipts and the local cron scheduler.
6. Candidates after that: preemption in group chats, the store lock with takeover
   from a dead owner, the job store and desktop lease of the node agent API.
