# Verification of woofx3

woofx3 is an engine for live streams. Events from streaming platforms, chat and
schedules go over a NATS bus to a workflow service, which runs the workflows
they trigger; a database service keeps the state and announces its changes
through an outbox; connectors talk to the platforms, a scene manager drives
browser overlays, a barkloader installs and runs modules, an api ships events to
clients, and an orchestrator supervises the processes.

This directory holds TLA+ specifications translated from the code under `src/`,
the TLC configurations that check them on small instances, and proofs that
TLAPS checks for every instance.

## Inventory

| Component | State it keeps | Operations | Hard behaviours | What makes it correct |
|---|---|---|---|---|
| Workflow engine: run lifetimes (`workflow/internal/engine/engine.go`, `cancel.go`, `run_table.go`) | run table, a control per run, armed waits, sub-workflow waiters, ordered queue, count of settles in progress | begin, run tasks, pause, resume, cancel, stop, settle, evict | one goroutine per run and per resume, timers, cancels and Stop, all racing for the same run | one owner per run, one outcome per run, cancels honoured and passed on, Stop leaves nothing unrecorded |
| Workflow engine: task loop, concurrent steps, replay, loop guard (`engine.go`, `executor.go`, `concurrency.go`, `cancel.go`, `replay.go`) | the graph and its order, task executions, exports, skipped branches, steps recorded | order tasks, take or skip a branch, run steps concurrently, wait, start a sub-workflow, resume from history | a resume that rebuilds less than it paused with; steps that finish in any order, or never, when the run is cancelled | a branch not taken stays out; a task waits for its own; a run ends as it would one task at a time, wherever it is resumed from |
| Workflow engine: manual runs, one-off actions, viewers | a viewer cache per run | run, dry-run, read | a cache read across a pause | a run sees one consistent viewer between pauses |
| Registry and triggers | definitions, subscriptions, schedules | register, replace, remove | replacing a definition while events arrive | an enabled definition has exactly one subscription |
| Tasks, conditions, expressions | none (pure) | evaluate, aggregate events of a wait | boundary values | agrees with a reference definition |
| Run history: recorder, its rows, cancel of a recorded run (`workflow/async_run_recorder.go`, `run_recorder.go`; `db/app/services/workflow_service.go`; `api/src/routes/workflows-execution.ts`) | bounded queue, one writer, rows | enqueue or drop, send, drain at Stop; insert and update rows; settle the row of a run the engine forgot | a full queue, a drain that runs out, a call given up on whose request arrives later, a cancel between a row's read and its update | a run's row first, every write sent or counted, settled rows final, a caller told only what the row says, the engine never held up |
| Facts | index of definitions, applied events | project an event on facts | redelivered events | each event is applied once |
| Workflow service | stored definitions against registered ones | reconcile, start, stop | start order, changes during reconcile | registry and store converge |
| Workflow actions | none | call another service | no answer, late answer | (an action step of the engine) |
| Database: outbox workers (`db/app/workers`) | event rows, the batch the poll fetched (and a cache of events awaiting acknowledgement, which no producer uses) | write with the change, poll, publish, mark, clean up | a crash, a lost connection or a failed update between publishing and marking | every row is published, and again only for something that went wrong |
| Database: services, storage | SQL tables | transactions | overlapping merges and switches | invariants of each table |
| NATS server | none of its own | start, stop | - | (third party) |
| Orchestrator | child processes | start in order, restart with backoff, stop | crash loops, shutdown during a restart | dependencies start first, stop ends everything |
| Service runtimes (Go, TypeScript, Rust) | state machine, dependency health | connect, run, degrade, stop | a dependency lost during shutdown | the application runs only with its dependencies up |
| API: event shipping (`api/src/event-shipper.ts`, `engine-event-stream.ts`, `webhook-client.ts`, `projection.ts`) | a lane per events target, a subscription per session, requests waiting for an answer | ship, post, retry, trim, stop; subscribe, publish, request, answer, drop, stop | a target that fails after it has handled a batch, a full buffer, a shutdown; a session replaced or broken with requests waiting | a lane neither loses unnamed, repeats nor reorders; a waiting request has a subscription and a frame; each frame is pushed once, in order |
| API: sessions, tokens, pairing, shoutouts | token cache, session table, queue | refresh, open, close | concurrent refreshes | one refresh at a time, no token used after it is replaced |
| API: routes, bundles | none | request handlers | - | - |
| Connectors: adapter host | running adapters per account | start, stop, restart as settings change | settings changing during a start | the running set converges to the wanted one |
| Connectors: gateway, chat, moderation | idempotency table, cooldowns, permits | call, replay, dispatch | a repeated call while the first is in flight | a platform call is made once |
| Connectors: companion and platform adapters | connections, send queue | dial, reconnect, send | reconnects, rate limits | order kept, limits obeyed |
| Barkloader | installed modules | install, upgrade, delete | failing half way | all or nothing |
| Scene manager: alert delivery | open deliveries, page connections | record, push, acknowledge, cancel, hydrate, sweep | pages that reload, skips racing acknowledgements, restarts | at least once until completed, one recorded end |
| Scene manager: scenes and routes | scene documents | load, save, render | concurrent saves | last write kept |

How they interact: the workflow engine is called by the bus subscriptions of
the workflow service (events), by its api (manual runs, cancels) and by its own
timers and goroutines; it calls the run recorder for every start, step and
outcome, and the other services from actions. The recorder writes to the
database service, whose outbox announces the change on the bus, which the api
ships to clients. Scene events reach overlays through the scene manager, which
keeps open deliveries in the database.

`PROJECT.json` lists the same components with their sources, and under
`hazards` what in the code modelled or planned is hard to test, at its line.

## Plan

The engine comes first: everything else reports to it or is driven by it, and
it is where concurrency is densest.

1. **Done.** `RunOutcome` (what the engine promises about a run), `EngineRuns`
   (run lifetimes), `MCEngineRuns`, and `EngineRunsProofs`, `EngineOwnersProofs`,
   `EngineOutcomesProofs`.
2. **Done.** `RunHistory` (the recorder's queue and writer, the rows of
   db-proxy, the api's cancel of a recorded run), `RunHistoryProofs`.
3. **Done.** `SceneDeliveries` (the delivery store with several pages, skips,
   failed writes, hydration and restarts), `MCSceneDeliveries`,
   `SceneDeliveriesProofs`. Left for later: the abstract at-least-once delivery
   it should implement, and the hazards listed without a property (a page missed
   because another has the alert, a skip that meets an alert already over).
4. **Done.** `TaskGraph` (the order of a workflow's tasks and which run together)
   and `TaskLoop` (the loop itself, with pauses, cancels and resumes),
   `MCTaskLoop`, `TaskLoopProofs`.
5. **Done.** `EventOutbox`, `EventShipping` and their composition
   `EventPipeline`, with `EventPipelineProofs`; and `EventStream`,
   `MCEventStream`, `EventStreamProofs`.
6. Registry and triggers, facts projector, orchestrator supervision, connector
   host and gateway idempotency, the merge of workflow definitions, in that
   order.

Theorems worth proving next: that the delivery store implements an abstract
at-least-once delivery; and that a run evicted over the cap is the only way an
outcome can be recorded twice.

## Modules

### RunOutcome

What the engine promises the outside, and nothing of how: `outcome[r]` goes from
absent to open to one of completed, failed and cancelled; `accepted` are the
runs for which a caller was told the run will stop. `Decide` is the heart: the
decision is cancelled if and only if a cancel was accepted.

### EngineRuns

*Threads.* A goroutine of the engine is a thread: two slots per run (the second
is there so that the model can express, and the invariants forbid, two
goroutines driving one run), one thread for the api's cancel requests, one for
Stop and one for the ordered queue. A thread's state is the stack of calls it
has yet to make, each a record `[op, run, arg]`. One step makes the innermost
call, which may push others. One step is one critical section of the code: the
code between taking and releasing `waitingMu`, `subWorkflowWaitersMu`, the
run table's lock or a control's lock. So any other thread may run between, say,
`armWaitLocked` refusing a wait and the settle that follows.

*State.*

| Variable | Code |
|---|---|
| `table`, `begun` | `runTable.runs`; every id ever put there |
| `control[r]` | `runControl`: `settled`, `finalStatus`, whether `finalErr` is `errEngineStopped` (`byStop`), `cancelRequested`, `stopped`, `queued`, and whether its context is done |
| `status[r]` | `WorkflowExecution.Status` |
| `armed` | `armedWaits` with `waitingExecutions` and the wait's timer |
| `waiters` | `subWorkflowWaiters` |
| `settling` | `Engine.settling` |
| `stopping`, `stop` | `Engine.ctx` done; where Stop is and the runs it is abandoning |
| `stamped` | `settledAt`, as the order in which runs were stamped |
| `recorded[r]` | outcomes announced by `emitRunLifecycle` and handed to the recorder |
| `returned`, `overran` | ordered runs whose first goroutine has returned, or whose turn ran out |

*Actions.* Beginning runs: `Begin` (an event or a manual request),
`OrderedEvent` and `Enqueue` (`queueInOrder`). The queue: `TurnStarts`,
`TurnSkipped`, `TurnRefused`, `TurnEnds`, `Signal` (`executeInOrder`,
`startQueued`, `awaitTurn`, `safeGoThenSignal`). Tasks: `StopIfCancelled`,
`RunCompletes`, `RunFails`, `TaskSkipped`, `ActionStarts`, `ActionReturns`,
`ActionAbandoned` (`runTasksFrom`, `executeTaskCancellable`). Waits:
`WaitReached`, `ArmWait`, `ArmRefused`, `WaitEnds`, `ResumeWait`,
`ResumeWaitStopped`, `Reenter`. Sub-workflows: `SubWorkflowReached`,
`SubWorkflowDetached`, `Register`, `RegisterRefused`, `Release`,
`ReleaseNobody`, `AbandonParent`, `ResumeParent`. Ending runs: `Cancel`,
`CancelChild`, `Abandon`, `ClaimWait`, `ClaimWaiter` (`Cancel`, `abandonRun`),
`Count`, `Claim`, `Record` (`setExecutionStatus`, `claimSettle`). Stop:
`StopCalled`, `ListPaused`, `AbandonNext`, `Drain`, `ListUnsettled`, `StopDone`,
`StopAgain`. Retention: `Sweep`. The `map` of `PROJECT.json` gives the lines.

*Abstractions.* A workflow definition is a sequence of step kinds: an action, a
wait, a sub-workflow waited for, one not waited for. What a guard, a branch or
an expression decides is a choice (`TaskSkipped`, `RunFails`). Timeouts may
fire at any moment, so a wait's event and its timer are one action. A run's
retention is minutes, where the calls about a run take moments: the sweep
evicts a run by age only when no pending call mentions it (`InUse`), and by the
table's cap whenever the code would.

### RunHistory

From the engine's reports to what a caller reads: three processes, the workflow
service, db-proxy and the api, and the requests between them.

| Variable | Code |
|---|---|
| `known`, `begun` | the runs in the engine's table, and every run ever there |
| `decided[r]` | the status `RunSettled` copied when it was called |
| `sending` | goroutines inside `enqueue` that hold the read lock of `r.mu` |
| `reported` | writes whose `enqueue` has returned |
| `queue`, `closed`, `dropped` | `r.queue`, `r.closed`, `r.dropped` |
| `ended` | `r.ctx` is done |
| `writer`, `abandoned` | the request `run()` waits for, and its count of writes it did not send |
| `phase` | new, open (started), draining (`Stop` waits), cut (its time is up), exited (`run()` has returned), stopped |
| `flight` | requests on their way to db-proxy |
| `row`, `steps` | `workflow_executions.status`, and which runs have a step row |
| `asked`, `answer` | where `cancelRecordedRun` is, and what the caller was told |
| `before`, `sent`, `lost`, `restarts` | history, for the properties |

*Actions.* `Begin`, `Evict`: the engine's table. `Enqueue` and `EnqueueClosed`
take the read lock, `Push` and `PushFull` are the send that never waits.
`Send`, `Skip`, `SendReturns`, `Exit` are `run()`; `StopCloses`,
`StopUnstarted`, `DrainExpires`, `StopReturns` are `Stop`; `Restart` replaces
the process. `RecordWorkflowRun`, `RecordWorkflowRunStep`,
`UpdateWorkflowRunStatus` and `Fail` are db-proxy with a request.
`CancelAsked`, `ReadRow`, `CancelRow`, `CancelRowFails`, `ReadRowAgain` are the
api, from the engine's not_found to the answer.

*Abstractions.* A run reports its row, one step and its outcome. In the engine
a run's goroutine starts after `beginRun` has reported its row, except for a run
queued behind others of its event (`Ordered`), which a cancel may settle from
another goroutine: `Reports` is that order. A request is in flight until it is
handled or lost, and `SendReturns` may come before either, since `callTimeout`
ends the wait and not the request. A process reports a write once, but its
successor keeps nothing of it. The status a run comes to is a choice among
`Reached`. Left out: that a waiting writer holds back new readers of the
`RWMutex` (only more interleavings), a second `Stop` (an error and no change),
the retention worker's deletion of old rows, db-proxy's own
`CancelWorkflowExecution` (`workflow_service.go:591`), which saves `cancelled` over
whatever the row says and which nothing under `src/` calls, and runs that are not kept
(ephemeral ones and those fired by hand), which report nothing.

### SceneDeliveries

From a recorded alert to the end of its delivery: the scene manager's process,
db-proxy's rows, and the overlay pages.

| Variable | Code |
|---|---|
| `row` | the open rows of `scene_event_deliveries` |
| `recording` | alerts whose `recordSceneEvent` is committed and has yet to return |
| `open`, `delivered`, `started` | `DeliveryStore.open`: the entry of each alert, and the entries whose `delivered` or `startedAt` is set, the latest start last |
| `handling` | calls of `ackCompleted`: the entry found, whether its write is committed, the page that waits |
| `closing` | cancels with a row left to write |
| `serving`, `hydration`, `todo` | the server listens; where `hydrate` is and the rows it has yet to fetch |
| `line`, `connected` | what is on its way on each stream; the pages with one |
| `ready`, `pending`, `playing`, `finished` | whether a page's alert area is mounted, and its `InstanceQueue` |
| `stale`, `greeted` | pages whose `serverBootId` is an earlier process's, or this one's |
| `posts` | acknowledgements a page sends until one is answered (`postAck`) |
| `made`, `shown`, `skipped`, `silenced`, `ends`, `unacked`, `faults` | history, for the properties, and the count of faults |

*Actions.* The store: `Record`, `RecordReturns`, `RecordUnanswered`
(`recordEvent`), `Sweep`, `AckDelivered`, `MarkStarted`, and `AckCompleted`,
`CompletionWritten`, `AckCloses` for the three steps of `ackCompleted`, with
`AckDeliveredFails` and `CompletionFails` where a write fails. The operator:
`SkipCurrent`, `ClearQueued`, `CancelWritten`, `CancelFails`. Streams:
`Subscribe`, `Drop`, `FrameLost`. A page: `Mount`, one `Read...` for each kind of
frame, `Finish`, `Reload`, `GiveUp`. Starting again: `Restart`, `ListOpen`,
`ListFails`, `FetchOpens`, `FetchFails`.

*Abstractions.* One scene with one alert area: an entry is an alert, and the area
plays one at a time, as `mount` registers it. An alert is its identity; an entry is
told from another of the same alert by where it came from, as `===` tells objects
apart in `ackCompleted`. The code between two awaits is one step, but for a skip:
the look at who is connected and the cancel are one here, with the loading of scenes
between them in `alert-controls.ts:170-184`, during which the last page may go. A
page keeps the last 256 finished events, more than the model has; priorities and
completion timeouts are not used by alert areas. A retried acknowledgement is one
that stays in `posts`. Times are dropped: the sweep may send whenever an entry is
undelivered, and the order of replay is arbitrary. Nothing is assumed of who records
an alert or when. Left out: how an alert is dispatched to scenes, the alert's
lifecycle row, replays, the closing of deliveries to removed placements, an area
unmounted while its page stays, and the reload that a page asks of its siblings
(each page's own `Reload` covers its effect).

### TaskGraph and TaskLoop

`TaskGraph` has what the engine computes of a definition before it runs a task,
as operators: the declared dependencies, the check for cycles, the tasks that
follow a condition waiting for its branches (`orderAfterBranches`), the order,
and the plan of tasks that run together. Tasks are numbered as they are
declared; a definition says what each is, depends on, reads and is guarded by.
A definition the engine would refuse is a definition still: `Sound` is part of
the model.

`TaskLoop` runs one definition. `main` is whichever goroutine drives the run;
each action sent off runs in one of its own.

| Variable | Code |
|---|---|
| `def`, `luck` | the definition, and how its guards, conditions and tasks turn out |
| `pc` | where main is: building the graph, at the head of the loop, at a task, collecting results, applying them, paused, settled |
| `deps`, `order`, `at` | the graph's dependencies, `executionOrder`, the index in it |
| `skipped`, `exports` | `skippedTasks`, the tasks with an entry in `taskExports` |
| `entry`, `steps` | the status of each of `execution.Tasks`, and the steps recorded with their positions |
| `sent`, `flight`, `collected` | `toRun` of a concurrent run, its goroutines, the results received from `done` |
| `cancel`, `status` | the run's context is done; the run's status |
| `resumed`, `restored`, `results` | whether this is a resume of a recorded run, what it restored, and the conditions recorded as true |

*Actions.* The loop: `BuildGraph`, `Look`, `SkipTask`, `FailGuard`,
`SettleCondition`. Actions, alone or together: `SendOff` (every guard before any
task), `TaskReturns`, `Collect`, `StopCollecting`, `ApplyOutcome`, `EndRun`
(`executeConcurrentRun`, `executeTaskCancellable`). Pauses: `StartWait`,
`WaitClaimed`, `SettleWait`, `StartDetached`, `StartWaited`, `ChildSettles`.
Others: `Cancel`, `ClaimPaused`, and `Resume` (`planResume`), which starts the
definition, or an edited one, from any step the code allows.

*Abstractions.* Of data only whether it is there: a guard or a parameter over a task
without exports fails, any other comes out as `luck` has it, the same in a resume,
so that both can be compared. A run of one action and a concurrent run are the same
actions, as the code does the same things in the same order for both. An edit of a
definition keeps its tasks in their places and guards none that was not guarded, a
limit of the model: `luck` is drawn before the run. It may switch a condition on or
off: what a resume rebuilds goes by the recorded result (`replay.go:196`), the one
the recorded run had of its own definition (`Result`). Who claims a pause is
`EngineRuns`' matter. Left out: dry runs, the guard against loops of runs, panics,
conditions with nothing to evaluate, viewer facts, and Stop.

### EventOutbox, EventShipping and EventPipeline

From a change in the database to a client's events target, across two processes
and NATS.

| Variable | Code |
|---|---|
| `row` | the status of each row of the outbox, in the order of `created_at` |
| `batch`, `marking` | what `processNewEvents` has yet to publish, and the row published and not yet marked |
| `copies` | history: publications of each row |
| `faults`, `breaks` | history: crashes and failed updates; lost connections |
| `lost` | history: rows marked as published, or about to be, whose event went down with a connection or the process |
| `connected`, `wire` | the NATS connection, and what it has taken and not delivered |
| `log` | the row of each envelope shipped, an envelope being its place here |
| `buffer`, `posting`, `pump` | `lane.buffer`, the batch in flight, `lane.pumping` |
| `answering`, `late` | whether the target has handled the POST in flight; POSTs given up on that it may yet handle |
| `arrived` | the envelopes the target handled, in the order they first came |
| `delivered`, `refused`, `trimmed` | history: what has left the lane, and why |
| `phase` | running, draining, aborted or stopped |

*Actions.* The outbox: `Commit` (rows commit in any order), `Poll`, `Publish`,
`MarkPublished`, `MarkFails`, `Cleanup`, `Crash`; the connection: `Flush`,
`Disconnect`, `Reconnect`. The lane: `Ship`, `Accepted`, `Refused`, `Fails`,
`BackoffEnds`, `Stop`, `DrainEnds`, `StopReturns`; the target: `TargetHandles`,
`HandledLate`. `Project` composes them: what the connection delivers is shipped,
as the subscriber's callback does before it awaits anything.

*Abstractions.* One target and its one lane; lanes share nothing but `stop`.
Every producer under `src/` stores rows that are acknowledged on publish, so
`published` is a row's last status. The target's handling of a batch and its
answer are two steps, between which the POST may time out. Left out: the
acknowledgement worker and its retry cache, which hold nothing; callback URLs
without an events target; a crash of the api, which keeps nothing.

### EventStream

The api's pushes to clients over their sessions.

| Variable | Code |
|---|---|
| `sub[n]` | the n-th `Subscription`: session, `closed`, `queue`, `seq`, where its `pump` is, and (history) the frames pushed |
| `holder` | `subscriptions`, by session |
| `waitsOn`, `outcome` | `pending`: the subscription of each request; what its caller was told |
| `published`, `stopped` | events published; `stopped` |

*Actions.* `Subscribe`, `SessionBreaks`, `DropClient`, `Stop`, `Publish`, `Request`,
`Answer`, `Timeout`, and of a push `PushSettles`, `PushFails`, `PumpResumes`,
`PumpGivesUp`. A push that settles and the loop that takes it up are two steps,
since a subscription may be closed or replaced between them. An event goes to any
set of live subscriptions, for the types and the target it has. The refusal of a
request whose id is in use is left out, as ids are fresh. A frame is its number and
the request it asks, if any.

## Runs

`MCEngineRuns` gives the definitions of the first four runs, `MCSceneDeliveries`,
`MCTaskLoop` and `MCEventStream` the sets of theirs; `RunHistory` and
`EventPipeline` are instantiated by their configurations alone. Every bound of
the engine's: at most two runs; each begins once; `Cancels` bounds who asks for a
cancel (once each, as a second request changes nothing); `MaxEvictions` bounds
the sweep. Of the history: `Cancels` again, `Reached` (the outcomes a run comes
to), `MaxRestarts`. Of the deliveries: `Earlier` (the alerts whose row an earlier
process may have left), `Faults` and `MaxFaults` (what may go wrong, and how
often), and `MaxLine` (the sweep adds nothing to a line that long; it bounds no
other sender). Of tasks: the definitions, `MaxFails` (tasks of a workflow that
fail), `MaxConcurrent` as in the code, and one resume of each run. Of the
pipeline: `LastRow`, `MaxFaults` (crashes, lost connections, failed updates); POSTs
fail as often as they like. Of the stream: `MaxSubs`, `MaxEvents`; its sessions are
symmetric, and so are its requests.

| Run | Instance | Shows |
|---|---|---|
| `family` | a parent waiting on a child that pauses at a wait, both cancellable, Stop, two evictions, fair | one owner and one outcome per run, cancels honoured, a resumed parent finds its child's outcome, nothing needed is evicted, `RunOutcome` is implemented; a cancelled or abandoned run ends, and takes the child it waits on with it |
| `detached` | a run that starts another without waiting, both cancellable, Stop, evictions | both have their outcome recorded once Stop is satisfied |
| `queue` | two ordered runs, the first pausing, both cancellable, Stop | started or settled, one turn at a time (with two ordered runs here; `TurnsAlone` is of any number), nothing lost |
| `lost_release` | the same parent and child, the parent cancellable, no eviction, fair | finding: a child that settles before its parent registers leaves it waiting for ever |
| `history` | a run with every outcome, three writes for a queue of two, Stop at any moment, its cancel asked of the api, a restart, fair | a settled row stays as it is, the api's answer is what the row says, a run whose outcome was reported settles in the history unless one of its writes was given up on, and Stop returns; nothing is sent on a closed queue; a full queue, a closed recorder and a drain cut short are all counted; rows go before their steps; a report that holds the lock can always go on |
| `alerts` | two alerts, one page, one fault: a broken stream, a lost frame or a failed write, fair | one load of a page plays an alert once however often it is sent; every entry the store holds is played and its row ends, unless it is skipped or its acknowledgement given up |
| `overlays` | one alert, perhaps left by an earlier process, two pages, any one of nine faults | a row outlives reloads, failed writes and restarts until the alert is finished or skipped; an end is recorded once; a skip reaches every page that holds the alert or is about to |
| `tasks` | some 300 workflows of three or four tasks (fans of dependent and reading actions; nested and disabled conditions with followers; waits and sub-workflows behind conditions), one failing task, a cancel, a resume from any step, as it was or edited (branches swapped; dependencies dropped and conditions switched on or off), fair | a branch not taken stays out at any depth, a task waits for what it declares and follows, a run and its resume end as they would one task at a time, each task sent off is recorded once, at its position unless it is behind a skipped task, and a cancelled run ends though its tasks do not return |
| `sub_resume` | a sub-workflow that is waited for behind a condition | finding: the run goes on with nothing skipped and without the sub-workflow's exports |
| `exports_race` | three actions that may run together, a cancel | finding: exports are written while a task that was left behind has yet to read them |
| `pipeline` | two rows, a batch and a buffer of two, a POST of one, one fault, POSTs that fail any number of times or for ever, a shutdown, fair | a row is published again only for a crash or a failed update; the lane keeps its promise; the target gets envelopes in order; every row is published, and its event shipped unless a connection or the process took it down; an envelope that stays in the lane is behind a POST that fails for ever; the shutdown ends whatever the target does |
| `stream` | two sessions of one client, three subscriptions, two requests, two events, a queue of two | a waiting request has a live subscription and a frame queued or pushed; pushes are in order, none after the end, none that nobody waits for |

Why these bounds are enough to be worth running: each hazard needs one run and two
parties, or a parent and a child and one more party; the queue is there for a run
that has no goroutine. A task's hazards need a task before it, one beside it and one
behind it, and a condition a condition in its branch. A lane's need a batch in
flight, one behind it and a buffer that overflows (a batch put back on two); a
stream's a frame in flight, two queued behind it (so that one could be pushed before
the other) and one more that pushes a request out, and a subscription that is
replaced while its push is out. A delivery's hazards need one alert and two pages,
or two alerts and one page (one plays while the other waits), and one thing going
wrong between a write and what follows it. One cancel per run and one Stop are all
the code accepts. Deadlock is not checked, as a system whose runs have all ended has
nothing left to do.

*Fairness.* `Fairness` is weak fairness of each thread's own steps, since the Go
scheduler runs every goroutine that can run and no step waits on a lock held for
ever, and of Stop's polling loop. No fairness is assumed of what comes from outside:
an action's answer, a wait's event, a cancel request, or Stop being called. The
liveness properties hold without any of those, which is their point: a cancel ends a
run whose action never answers. In `RunHistory` fairness is of the goroutine that
holds the lock, of the writer, whose every call `callTimeout` bounds, of the drain,
which its context bounds, and of requests being handled or lost. In
`SceneDeliveries` it is of the store's own writes, sweep and hydration, and of each
page's mounting, connecting, reading, playing and acknowledging (timers and fetches
that are always tried again). Nobody has to send an alert or skip one, and no fault
has to stop happening but by `MaxFaults`. In `TaskLoop` only main is fair: a task
may never return, a wait may never be claimed, and a cancel ends the run all the
same. In `EventPipeline` fairness is of the workers' tickers, of NATS reconnecting
and delivering, and of the api's own steps, each await of which a timeout bounds:
the pump's, the drain's and what follows the drain, each by its own. The target
handles what it is sent or not, and may fail for ever (an envelope may then stay
until a shutdown, which `EventsMove` says is the only way it can); nobody has to
write a row or stop the api. `EventStream` states none.

*Divergences without a run.* Eight more disagreements were met on the way; they
stand among the hazards.

- `engine.go:1953`: the timeout `docs/workflow/schema.md:265` promises for a
  sub-workflow is stored and never looked at again once the parent waits.
- `engine.go:1684`: with the table at its cap, a run evicted between two racing
  settles records two outcomes; `docs/workflow/execution.md:105` says one.
- `engine.go:997`: a queued run that is cancelled before `beginRun` reports its
  row has its outcome sent first; `docs/workflow/execution.md:292` says the row
  always arrives first.
- `delivery-store.ts:112`: a row whose event cannot be fetched is left out and
  hydration ends as done, for all that the comment at line 134 says of retries.
- `publisher_worker.go:207-220`: a row is marked published once NATS' client has
  taken its event. If the connection breaks, or the process ends, before the event
  has left, nothing publishes it again, though `api/src/projection.ts:22` says "the
  outbox is at-least-once". `lost` holds these rows.
- `engine.go:1582`: the position recorded for a task of a concurrent run is
  `run.Start + i`, where `i` counts the tasks sent off. The comment at line 1579 says
  this "is the task's position in the execution order", and
  `db/database/models/workflow_execution_step.go:19` the same of `StepIndex`, by which
  steps are read back. Behind a member that was skipped or disabled it is a smaller
  number, which another step of the run may have too. `RecordsAll` says that much
  and no more.
- `engine.go:1079`: a wait that its event or timer has claimed is no longer there
  for a cancel or Stop to claim, and `stopIfCancelled` at the head of the loop settles
  the run without recording it. `docs/workflow/execution.md:354` says of an abandoned
  run that "the step it was on is recorded as `cancelled`". `RecordsAll` is therefore
  of tasks sent off.
- `engine.go:1496`: a guard that fails in a concurrent run fails the run and
  leaves the entries of the tasks before it, never started, as running.

## Proofs

Every safety property that a passing run checks is proved, for all values of the
constants, but one: `NeverHeld` (see *Only model-checked*). The
proofs follow one pattern: an invariant `XInv` with a lemma for every action or
group of actions that says the action keeps it, a theorem `Spec => []XInv`, and the
properties as consequences. An invariant was checked by TLC on the runs' instances
before it was proved.

`EngineRunsProofs` proves, for any finite set of runs, definitions, queue and
bounds (the assumptions are those of `EngineRuns`: runs are finite, the queue
names distinct runs that no trigger starts, definitions are sequences of step
kinds):

- `Invariance`: `Spec => []IInv`;
- `TypeCorrect`: `Spec => []TypeOK`;
- `CancelHonoured`: `Spec => []CancelledIffAccepted`;
- `PromiseKept`: `Spec => KeepsPromise`, that the engine implements
  `RunOutcome`.

*The inductive invariant.* `CancelledIffAccepted` is not inductive: a pending claim
with outcome cancelled of a run nobody asked to end would break it. `IInv` adds what
rules that out. `StackInv` says of every pending call, at any depth of any stack,
that its run has begun; that a call which abandons a run, claims its pause or
settles it as cancelled is about a run that has settled, has a cancel accepted or
has been given up on by Stop (`Ended`); and that a record is pending only for a
settled or evicted run. `ControlInv` says a run's context is done only if the run is
`Ended`. These hold of a call when it is pushed and stay true because runs are only
ever begun, ended and evicted, never the reverse (`CallsMonotonic`, `Onward`).
`StampedInv` says only settled runs are stamped, so that the sweep's cancelling of
an evicted run's context is about an ended run. The proof has one lemma per group of
actions; steps that leave the controls alone share `SameControls`, the others
`OnwardStep`.

*Refinement.* `BeginSteps`, `AcceptSteps` and `ClaimDecides` show which steps
are steps of `RunOutcome`; `QuietSteps` and `MarkSteps` that every other is a
stutter.

`EngineOwnersProofs` goes on from there, under the same assumptions:

- `OwnersInvariance`: `Spec => []JInv`;
- `OneOwner`: a run that waits in no queue never has two owners;
- `QueuedRunsOwned`: `QueuedOwned`; `TurnsAlone`: `OneTurn`;
- `ResumesInformed`: `ResumeReadsOutcome`;
- `StopComplete`: `StopLeavesNothing`.

*The inductive invariant.* An owner of a run is a pending call that drives it, an
armed wait or a waiter. `JInv` counts them: `OwnedOnce` says there is at most one
until the run is settled and none afterwards, and for a queued run none but
whoever ends it. What makes that inductive is where the calls may be: only the
innermost call of a thread takes a run further (`LiveOnTop`), and a goroutine of a
run does nothing else meanwhile (`Goroutines`). `TurnsOnce`, `TurnOwned` and
`TurnAlone` are the ordered queue's: one turn for each of its runs, taken by the
queue alone, and none while another has its turn. `SettlesCounted` says
`settling` is the number of pending calls that claim or record an outcome, from
which `StopLeavesNothing` follows when `Drain` finds it zero; `ReleasedAfter` that
the call that releases a parent has the one that records the child's outcome
before it. The counts are cardinalities of sets of places in the stacks (`Tally`,
`Number`); the lemmas on them say what a step that replaces one thread's innermost
call by others (`Moved`) does to them, and the actions only cite those.

`EngineOutcomesProofs` is about what the sweep may destroy:

- `OutcomesInvariance`: `Spec /\ [][Spared]_vars => []KInv`;
- `OwnerAlways`: `SoleOwner`; `OutcomesStand`: `OutcomeStands`; `EvictionsSafe`:
  `EvictedUnused`, all under the same hypothesis;
- `WithinCapSuffices`: the three hold of every run of the engine whose table is
  never over its cap.

`Spared` says a step evicts no run a pending call is about. It is a hypothesis
because the code does not guarantee it: over its cap, the table evicts a settled
run whose release is still pending, its parent may then register on it, and the
release finds no waiter; the parent waits for ever, and `SoleOwner` is lost (hazard
`run_table.go:162`). The theorems of `EngineOwnersProofs` need no such hypothesis:
even then no run has two owners and Stop leaves nothing unrecorded. `KInv` adds to
`JInv` that calls and registrations are about runs the table holds (`Held`), that
an open run has an owner (`StillOwned`), that a sub-workflow has one parent
(`OneParent`), that an outcome is recorded by one call and then stands
(`RecordedOnce`), and that only recorded runs are stamped and evicted.

`RunHistoryProofs` proves of `RunHistory`, for any finite set of runs, any queue
size above zero and any number of restarts (assumption `HistoryAssumption`):

- `HistoryInvariance` and `HistoryTyped`: the inductive invariant and `TypeOK`;
- `NoSendAfterClose`: `SendsOnlyOpen`;
- `DroppedCounts`: `Accounted`;
- `AnswersHold`: `AnswerTruthful`;
- `SettledRowsStay`: `OutcomeFinal`;
- `RowsBeforeSteps`: `RowArrivesFirst`, under `Ordered = {}`, which a queued run
  cancelled early shows to be needed.

*The inductive invariant.* `Flow` says where a write can be (in flight only if
sent, sent only if reported), `Captured` that an outcome on its way has the
status it was captured with, without which `UpdateWorkflowRunStatus` could write
anything; `Phases` ties `closed`, the queue and `abandoned` to the recorder's
phase. `Ledger` is what `Accounted` needs before `Stop` has returned: the queue
holds distinct unsent writes and
`Cardinality(Unsent) = dropped + abandoned + Len(queue)`; each action moves one
write between the terms, or adds one on both sides (`OneMore`).
`RowsBeforeSteps` rests on `OrderInv`: a step or an outcome is reported after
its row, what is reported is in the queue until it is shipped, and the queue
keeps a row in front of what follows it.

`SceneDeliveriesProofs` proves, for any finite sets of alerts and pages, any
faults and any bounds (assumption `DeliveryAssumption`):

- `RowsOutlast`: `NothingLost`;
- `SceneTypes`: `TypeOK`;
- `EndedOnce`: `EndsOnce`;
- `PlayedOnce`: `PlaysOnce`;
- `SkipReachesPages`: `SkipReaches`.

*The inductive invariants.* `NothingLost` would be broken by a completion of an
alert nobody has seen. `Earned` rules that out: an acknowledgement of completion
is always of an alert some page has finished, whether it is on its way (`posts`)
or being handled (`handling`), and a cancel yet to be written is of an alert an
operator has skipped. The lemmas go by where such a claim moves: the store and its
rows (`RowEnds`, `StoreKeeps`), acknowledgements that become handlers and back
(`AcksEarned`), and pages, which make them (`LoadEarned`, `PumpPosts`, `PagesEarn`).

Four parts are independent of it. `StoreInv`: an entry goes with its flags, and
an alert that is open has no end recorded, so the first of two racing
acknowledgements, or of one and a skip, is the last. `LineInv`: what the store sends
is a delivery of one alert, a cancel, an open set or a hello. `QueueInv`: nothing is
twice among what waits, plays and has finished on a page, which is why a repeated
frame plays nothing. `Told`, for `SkipReaches`: of an alert that has been skipped,
whatever a page holds has a frame behind it on the line that lets go of it, and so
has every delivery still on the line. A lost frame or a broken stream takes
deliveries, or the whole line, never just the frame that lets go.

`Without` (an array less some elements) is a recursive function here, as in the
lane: its lemmas (`KeepsFirst`) are proved by taking the least length at which they
would fail.

`EventPipelineProofs` proves of the pipeline, for any number of rows and
faults, any batch, buffer and POST size (assumptions `OutboxAssumption`,
`ShippingAssumption`):

- `PipelineIsOutbox`: `Spec => OutboxSpec`, so that what is proved of the outbox
  alone holds of it in the pipeline;
- `OutboxInvariance`, `OutboxTyped`;
- `PublishedOncePerFault`: `OncePerFault`;
- `PublishesPending`: a publication is of a row that is pending at that moment;
- `LaneInvariance`: the lane's invariant, whatever is shipped into it;
- `ShippingKeeps`: `LaneKeeps`;
- `ArrivalsInOrder`: `ArrivesInOrder`;
- `NothingElseLost`: `Carried`, that an event whose row is not published again is on
  the wire, was shipped, came when the shipper took nothing any more, or was lost as
  `lost` says. It is the safety half of `EventsMove`: those are all the ways for an
  event to go missing between the database and the lane.

*The inductive invariants.* `OncePerFault` alone could be broken from a state in
which a row is pending with all its faults used up. `Counted` says a pending row
has one publication to spare, and `Claims` that what the poll fetched, and the row
to be marked, are pending and different, so that only a crash or a failed update
(each a fault) makes a row pending that was published. For the lane, `LaneInv`
splits `HeldInOrder` and `OldestDropped` into facts about what is posted and what
is buffered: the posted is older than the buffered, and the dropped is older than
the buffered, and than the posted too or else the buffer is full (`Dropped`).
The last is what a failed POST needs: a batch put back in front of a full buffer is
dropped at once, as a whole. The lemmas `SplitIs`, `JoinIs` and `TrimIs` say what
taking from, putting back in and trimming a sequence do to its members and its
order; one lemma per action cites them. `ArriveInv` is what `ArrivesInOrder`
needs of POSTs that were given up on and may be handled at any later moment: an
envelope still in the lane arrives before everything newer than it, or in the same
POST, whether that is a batch that has been handled and waits for its answer
(`answering`) or one in `late`. So only an envelope that has left the lane unhandled,
refused or dropped, can be overtaken.

`EventStreamProofs` proves of `EventStream`, for any sessions, clients, requests
and limits (assumption `StreamAssumption`):

- `StreamInvariance`, `StreamTyped`;
- `RequestsHeld`: `PendingHeld`;
- `FramesInOrder`: `PushesInOrder`.

*The inductive invariant.* `IInv` adds to `PendingHeld` that each queue is in the
order of `seq`, newer than what was pushed and no newer than the last number given
out (`Ordered`), without which a step's push could be older than an earlier one; and
that a subscription not made yet is untouched. `ClosedIs`, `PumpedIs` and
`EnqueuedIs` say what close, pump and enqueue make of one subscription; each
action's lemma shows both that it keeps `IInv` and that it pushes in order
(`Pushes`).

`TaskLoopProofs` proves of the task loop, for any definitions and edits, any
number of tasks and any limit (`EditsAssumption`: an edit is a definition with as
many tasks, which guards no task that was not guarded):

- `SoundIsOrdered`: the order `GetExecutionOrder` computes of a definition without
  a cycle has every task once, each after all it depends on, the dependencies that
  `orderAfterBranches` adds included;
- `LoopInvariance`: `Spec => []LoopInv`;
- `LoopTypes`: `TypeOK`;
- `StartsInTurn`: `WaitsForItsOwn`;
- `EachRecorded`: `RecordsAll`, from `LoopInv` and `PlaceInv` (`PlaceInvariance`);
- `BranchesHold`: `BranchesStayOut`, of definitions where no condition stands beside
  a sub-workflow that is waited for (`NothingForgotten`), and of every edit that
  `EditsAssumption` allows, those that switch a condition on or off included;
- `AloneOrTogether`: `EndsAlike`, of definitions that also have no task read what a
  sub-workflow that is waited for exports (`ChildUnread`);
- `OnlyCancelDisturbs`: `ReadsUndisturbed`, of runs that are never cancelled. The
  run `exports_race` finds it violated, so a cancel is what it takes.

*The operators.* Everything `TaskGraph` computes is a recursive function over
numbers, so what it returns is shown step by step: `ReachIs` says `Reach` is the
least set closed under the graph (its cardinality bounds the number of steps),
`FollowBranchesIs` that adding dependencies closes no cycle, since those added to a
task lead to none that leads back, and keeps what earlier steps established;
`SomeIsReady` that a graph without a cycle always has a task whose dependencies
are all placed, the one with the smallest upstream, so that `ExecutionOrderIs`
never runs dry before the last task. `RunEndIs`, `AscendingIs` and
`RestoredSkipsIs` do the same for the plan of a concurrent run, its tasks in order, and
what a resume restores. Each rests on `RunsExists` and `RunsTyped`, which give the
values of such a recursion one at a time, and on there being a least number at
which a claim fails (`LeastExists`).

*The inductive invariant.* `LoopInv` describes the run around the task main is
at: what is behind was restored, finished or skipped, and recorded (`Behind`); what
is ahead is untouched, but for the concurrent run main is waiting for, whose tasks
are sent and not recorded, recorded and applied, or skipped (`Ahead`, `InRun`);
results not yet applied are of tasks in that run (`Sending`, `Flown`); a task that
started has all it waits for behind main (`InTurn`).

`PlaceInv` is of the positions recorded: what main takes the i-th task sent off to be
at, its place counted from the first of the run, is where it is or falls short of it,
and then a task of the run before it is recorded as skipped already (`FoundOf` says
which positions `Ascending` passes over, `SendOffPlaces` that those are recorded).

For `BranchesStayOut`, `OutInv` adds that a condition that was passed has what it
excludes in `skipped`, that a skipped condition which was passed has its branches
there, and that nothing in `skipped` starts. It does not say that everything
excluded is in `skipped`: a nested branch joins only when its condition is passed.
`OutInvHolds` closes the gap: the tasks that are skipped, or wait for one that main
has yet to come to, are closed under branches, and none of them has started. The
hypothesis cannot be dropped: the resume after a sub-workflow forgets what was
skipped (finding `sub_resume`), and TLC finds `BranchesStayOut` violated with it. The
definitions of run `tasks` meet it.

*As one task at a time.* `EndsAlike` compares a run with `Alone`, the state a run with
one task at a time has after each position of the order. (A wait reads nothing
there, since `handleWaitTask` resolves no parameters.) `AlikeInv` keeps the two level.
Main, at position `at`, is where that run is after `at - 1` tasks: it skips what that
run leaves out, and possibly tasks already behind it, and has the exports that run
has and those of the outcomes it is applying (`Level`). What it decided of the tasks
of a concurrent run, and what came back of those it sent, is what that run decides
and has (`Decided`, `Returned`); so is what is recorded, if that run comes to the task
(`Agreed`), and a task is recorded as cancelled only in a run that ends so (`Cut`).
Two lemmas carry it. `Together`: none of the tasks that run together reads another
(`RunsTogether`, what `planConcurrentRun` is for), so one after another,
from the exports the first one saw, they decide and come to the same. `RestoredStep`:
what a resume restores of the steps before its start, whose recorded outcomes agree,
is what that run has there. The hypotheses are used where a run goes on past a
sub-workflow: `ChildSettles` forgets what was skipped and the task's own exports
(finding `sub_resume`), so a task that reads them, or is under a branch not taken,
would end otherwise. The definitions of run `tasks` meet both hypotheses, those of run
`sub_resume` neither.

*Reads.* `Awaited` says that unless the run was cancelled a task that has yet to read
is one main waits for; no step that writes exports is taken while main waits
(`WrittenApart`).

*Only model-checked.* The liveness properties, which are beyond the prover:
`AbandonedSettles` and `CancelReachesChild` of the engine, `HistorySettles` and
`StopEnds` of the history, `Delivered`, `CancelEnds` and `EventsMove`. And `NeverHeld`,
of the history, which is about what is enabled.

## Not modelled

The components listed as `not_modelled` in `PROJECT.json`, each with its reason or
its place in the plan. Within the engine: definition validation and registration,
the values a task reads and exports, the loop guard, dry runs and the viewer cache.
Of event shipping: acknowledgements, which no producer asks for, and callback URLs
without an events target. Generated clients, the module bundles, infrastructure and
examples are left out as data or third-party code.
