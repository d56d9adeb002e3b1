# Formal models of Ash

TLA+ specifications of parts of Ash, the terminal coding-agent harness in this
repository, with the TLC configurations that check them on small instances and
proofs checked by TLAPS. Paths below are relative to the root of the
repository; `store.py`, `worker.py`, `delivery.py`, `schedules.py` without a
directory are those of `src/ash/automation/`.

Four subsystems are modelled, each of which keeps durable state that several
processes, or one process and its crashes, work on:

- *durable automation* (`src/ash/automation/`): jobs that Ash runs unattended,
  from a SQLite database that any number of processes share;
- *agent tasks* (`src/ash/agents/tasks.py`, `src/ash/tools/agent.py`): the
  ledger of delegated tasks, and the dispatchers, workers and monitors of
  several sessions that drive it;
- *turn recovery* (`src/ash/core/`): the journal of a session's tool calls, the
  checkpoints of the files they edit, recovery after a crash, undo and rewind;
- *the lifecycle of plugins* (`src/ash/plugins/`): installs, updates and
  removals under a write-ahead journal, beside coordinated updates.

They were chosen because they have the most actors acting on the same state and
the documentation that promises the most about crashes, races and retries.

## 1. Inventory

### Automation

| Part | State it keeps | Operations | Hard behaviour |
|---|---|---|---|
| Schedules (`schedules.py`) | none | first and next fire time of an instant, an interval or a cron expression | a fire time that is exactly now; occurrences missed while nobody ran |
| Database (`store.py`) | tables of jobs, runs, deliveries (and worker heartbeats, audit events) | create, enable, pause, remove a job; claim due or manual runs; renew, finish, interrupt, cancel a run; recover expired leases; claim, fence, finish a delivery; prune | any process may do any of them between two transactions of another; two operations (`remove_job`, `claim_manual` and `request_cancel` too) are two transactions; leases expire under a living owner |
| Worker (`worker.py`) | tables `_tasks`, `_deferred_cleanup_tasks`, `_detached_tasks`; per run an `execute` task, an operation task and a lease monitor | claim, execute, collect, pause, stop, deliver | the result, the monitor, the timeout and a cancellation arrive in any order; an operation may ignore its cancellation; a cancellation may reach a task in any of its states; the process may be killed |
| Webhook delivery (`delivery.py`, `worker.py`) | the deliveries table (the outbox) | claim a batch, prepare, put down the dispatch fence, post, record the answer | a crash or a stall between any two steps; a lost answer; a late worker whose lease another has taken |
| Front end (`runner.py`, `maintenance.py`, `diagnostics.py`, CLI, tool) | none of its own | calls of the above | none beyond the database's |

Workers and users interact only through the database, one `BEGIN IMMEDIATE`
transaction at a time. A worker and its operations (a model turn in a child
process) interact through asyncio cancellation. The receiver of a webhook sees
requests and returns answers either of which may be lost.

What makes this part correct: a job has one running run at a time; an
occurrence is run at most once, and missed occurrences collapse into one; an
enabled job can always fire again; an accepted cancellation is not overtaken by
a success; every run that ends owes exactly one notification, and it is posted
at most once; a worker never forgets a run it holds or an operation it started;
every task ends.

### Agent tasks

| Part | State it keeps | Operations | Hard behaviour |
|---|---|---|---|
| Ledger (`agents/tasks.py`) | a SQLite table of tasks: state, attempt, lease, recovery safety, usage | create a batch; claim, start, renew, mark unsafe, report usage, complete, fail; cancel a task, an owned task or a graph; recover expired leases; list what is ready | claims race with the end of dependencies; leases expire after side effects; budgets are shared by siblings and attempts; every claim and listing also recovers and fails other rows |
| Dispatch (`tools/agent.py`, `tools/delegate.py`, `agents/_agent_driver.py`) | per session: workers (coroutines or child processes) and monitors of children | dispatch, claim, start, turn, delegate and wait, settle, stop; judge a child that exited | a worker stalls past its lease and wakes up beside its successor; a monitor decides from a row it read a moment ago; a waiting orchestrator holds capacity its children need; a session dies, its children with it or not |
| Approvals (`agents/shared_state.py`, `_await_durable_approval` in `tools/agent.py`) | messages between agents and lead: requests and answers | send and await, answer, withdraw, retire | an answer that comes after the attempt that asked for it; a mailbox that the parallel calls of a turn share; dispatchers of other sessions that retire requests |

Sessions, children and monitors interact through the ledger only, one
transaction at a time. What makes this part correct: a task is attempted only
after its dependencies succeeded, at most as often as it may be, and never again
once it may have had effects; two workers are never in a turn of the same task;
cancellation descends; budgets end what breaks them; a tool call runs only on the
answer to its own request, which stays open as long as it can be answered;
everything submitted is settled in the end.

### Turn recovery

| Part | State it keeps | Operations | Hard behaviour |
|---|---|---|---|
| Turns (`core/loop.py`, `core/session.py`) | the tables `turn_journal`, `tool_calls`, `messages`, `file_checkpoints` | start, complete, interrupt a turn; ask for, approve, dispatch, settle, answer a call | parallel reads whose messages are written when the batch settles; cancellation and the circuit breaker in the middle of a batch |
| Checkpoints (`core/checkpoints.py`) | digests and contents of files before and after each edit | checkpoint, restore, undo, rewind, recover | a crash between any two writes, in a recovery or an undo too; a hand edit at any moment |

What makes this part correct: nothing but Ash's own writes is ever lost; what
the model is told of a call is true; a restoration that stopped can be begun
again; recovery leaves completed work alone and answers every call.

### Plugins

| Part | State it keeps | Operations | Hard behaviour |
|---|---|---|---|
| Lifecycle (`plugins/lifecycle.py`, `lifecycle_journal.py`) | the plugin's tree, its backup or quarantine, the install record, the journal | install, replace, update, remove; roll back; recover | a crash between any two file operations, in a rollback or a recovery too |
| Activation (`plugins/state.py`, `commands/extensions.py`) | `disabled_plugins`, the pending coordinated update | enable, disable; begin, validate, finish a coordinated update | another lock than the lifecycle's |

What makes this part correct: tree and provenance change together, at the
commit, to a tree that is whole; a quiesced plugin stays disabled until its
update is finished; an update that was begun can be resumed.

### The rest of the program

| Part | State | Hard behaviour | What makes it correct |
|---|---|---|---|
| Remote agents (`agents/a2a_*.py`) | intents written before requests | an unknown outcome of a submission | a remote task is never lost or submitted twice |
| Provider reliability (`providers/retry.py`, `credential_pool.py`, `failover.py`, `rate_limiter.py`) | circuit states, cooldowns, tokens | concurrent streams of one process around every await | a tripped provider is probed, not flooded; a cooling credential is not used |
| Adapters, context, policy, sandbox, tools, MCP, LSP, servers, hooks, memory, UI | mostly per request | I/O, parsing, protocol of others | see section 7 |

`PROJECT.json` lists every part with its files ("components") and everything
found hard to test with its line ("hazards").

## 2. Modules

| Module | What it is | Extends |
|---|---|---|
| `AutomationSchedule` | the pure functions of `schedules.py` | |
| `AutomationStore` | the database: one action per transaction | `AutomationSchedule` |
| `AutomationLedger` | what the database promises of each run and its notification, without clock, leases or sweeps | |
| `AutomationWorker` | the continuous worker and its asyncio tasks, as a client of the database | `AutomationStore` |
| `AutomationDelivery` | the delivery of the outbox, as a client of the database, with an external receiver | `AutomationStore` |
| `TaskGraph` | what the ledger of agent tasks promises of each task: its phase and its attempts, without leases, budgets or sweeps | |
| `AgentTasks` | the ledger: one action per transaction, and the expiry of a lease | |
| `AgentDispatch` | the dispatchers, workers and monitors of several sessions, as clients of the ledger | `AgentTasks` |
| `AgentApprovals` | approval requests of background tasks and their answers, bound to attempts | `AgentTasks` |
| `TurnRecovery` | the turns of a session, its tool calls, checkpoints, recovery, undo and rewind | |
| `PluginSlot` | what the lifecycle promises of one plugin: a tree and its provenance that change together | |
| `PluginLifecycle` | the calls on one plugin step by step, their rollback and recovery, and a coordinated update | |
| `AutomationStoreProofs` (with the schedules and the ledger), `AutomationWorkerProofs`, `AutomationDeliveryProofs`, `AgentTasksProofs`, `AgentDispatchProofs`, `AgentApprovalsProofs`, `TurnRecoveryProofs`, `PluginLifecycleProofs` | theorems | the module they are about |
| `MCAutomationStore`, `MCAutomationWorker`, `MCAutomationDelivery`, `MCAgentTasks`, `MCAgentDispatch`, `MCTurnRecovery`, `MCPluginLifecycle` | instances for TLC | the module they instantiate |

The automation modules form a chain of refinements: `AutomationStore` implements
`AutomationLedger` under the mapping `Phase`, `Notice` (property
`ImplementsLedger`), and `AutomationWorker` implements `AutomationStore`
(`WorkerImplementsStore`): whatever the tasks of a worker do, they drive the
database only by calls it allows. `AgentTasks` implements `TaskGraph`
(`TaskGraphImplemented`), mapping a row to a phase and its attempt;
`AgentDispatch` conjoins each step of a worker with the one call of the ledger
it makes, so it is a client of it by construction, and every step of
`AgentApprovals` is one of the ledger or leaves it alone. `PluginLifecycle` implements
`PluginSlot` (`SlotImplemented`): under a prepared journal the installed tree is
the one recovery would bring back, wherever it lies; otherwise it is the one
under the plugin's name.

### How the state and the actions correspond to the code

*Database.* `jobs`, `runs`, `outbox` are the three tables; an absent row has
status or state `absent`. `now` is the one clock of the machine. `born` is a
history variable: when each run row was inserted, kept after pruning. `calls`
holds the methods that are between their two transactions: `remove_job`,
`claim_manual` and `request_cancel` first sweep expired leases in a transaction
of their own, and check what they read only in the second. `BeginCall` is the
first transaction, `RemoveJob`, `ClaimManual`, `RequestCancel` the second,
`FailCall` the second that raises. `ClaimDueBatch` is one transaction that
sweeps, visits the due jobs in the order and up to the limit of the query,
records misfires as skipped and claims the rest. The id of a scheduled run is a
function of its job and its scheduled time, as in `_scheduled_run_id`; a lease
token is the worker that was given it (and, for deliveries, the attempt).

*Worker.* `loop[w]` is the place of `run_forever`; `turn[r]` is one row for the
tasks of run `r`: where `execute` is (`at`), its operation (`op`), its monitor
(`watch`), whether it was cancelled again while it waits for a cancelled
operation (`hit`), which table of the worker holds it (`slot`), and whether a
deferred cleanup owns its operation (`cleanup`). Steps between two awaits are
one action. Waits with a timeout (`_cancel_task`, half a second; the stop, four
seconds) may end at any moment, settled or not. `Crash` kills the process with
the process groups of its operations.

*Delivery.* `sending[w][r]` is the coroutine `_deliver_webhook` of worker `w`
for run `r`, one action per await; `received[r]` is what the receiver did.
`_deliver_run_webhooks` claims a delivery by the id of its run, so both ways to
claim are modelled. `Restart` loses a worker's memory at any point.

*Ledger of agent tasks.* `rows[t]` is the row of a task; its lease is none,
live or expired. The clock is only what it does to a lease (`Expire`); the token
of a claim is its attempt, which grows with each claim. `claim_task` recovers
every expired lease, fails what is blocked and then claims or refuses, keeping
the sweep (`ClaimTask`, `RefuseClaim`); `list_ready_tasks` and `recover_expired`
read the clock before they wait for the transaction, so they sweep any subset of
the expired leases. The owned calls are guarded by `Owned` (`_owned_row`).

*Dispatch.* `workers[s][t]` is the worker of session `s` for task `t`,
`monitors[s][t]` the coroutine that waits for a child process. `Dispatch` is a
pass of the dispatcher that finds the task ready (its listing and the look at
the row are one step); `Claim`, `Start`, `BeginTurn` (the fence
`mark_recovery_unsafe`), `Act`, `Delegate`, `WaitEnds` or `AbandonWait`,
`Report`, `Complete` or `FailTurn` are the life of a worker, `Lapse` the end of
one that no longer owns its task. The monitor reads the row (`Judge`) and acts
on what it read in a later step (`Condemn`). `Crash` kills a session.

*Approvals.* `asks[<<t, a, s>>]` is the last approval request of slot `s` of
attempt `a`: the two messages (request, answer and whether it was taken) and the
place of `_await_durable_approval`, whose polls are split where another process
can come between: the look at the attempt, the read of the mailbox, the second
look, the mark. Each attempt has an agent id, hence a mailbox, of its own
(`tools/agent.py:1131-1137`), but the calls of its turn share it (`Beside`): an
ask rule comes before the leave of a read-only tool (`safety/policy.py:190`),
and reads run in parallel (`core/loop.py:5884`), so several may wait side by
side. They run on one event loop, and a poll has no await in it, so that no two
of them are ever in the middle of one (`LoopIsFree`). `Resolve` is the lead,
`RetireStale` a pass of any dispatcher, `CancelWait` a turn that is cancelled;
`LedgerStep` is any step of the ledger that a worker in the middle of its turn
allows.

*Turns.* The four tables are `journal`, `calls` (with their messages) and
`marks`; `files` is the disk. A content is named by its writer. `runtime`,
`current`, `stage` and `op` are the memory of the process, lost by `Crash`;
`acted` and `kept` are history. A recovery, an undo and a rewind share the
steps that restore files (`RestoreFile`, `RestoreFails`) and end in a
transaction of their own.

*Plugins.* `live` is the tree under the plugin's name, `moved` the one under the
backup or quarantine name, `filled` the trees that are whole; `journal` is the
file, `call.known` the journal in the memory of the call that holds the
lifecycle lock. The actions follow the file operations of
`install_local_plugin` and `uninstall_local_plugin` in their order; `Fail` is an
exception at any of them, followed by the same rollback as a recovery
(`RemoveNew`, `PutBack`, `RestoreRecord`, `RestoreActivation`), and `Abandon` a
crash, or a rollback that itself raises. `cohort` is the coordinated update, in
another process and under the lock of the activation state.

## 3. What is checked

| Run | Instance | Properties | States |
|---|---|---|---|
| `store_runs` | one cron job (at 2, 3 and 6), 2 workers, clock 0..4, a manual run, two calls in flight | `OneActiveRun`, `EnabledJobCanFire`, `NoBackfill`, `JobSummaryHonest`, `NoRunOfRemovedJob`, `CancelWins` | 394,435 |
| `store_outbox` | an interval job (every 2) and a one-shot without grace that has a webhook, 2 workers, clock 0..4 | `TypeOK`, `OutboxComplete`, `FencedDelivery`, `ImplementsLedger` | 17,958 |
| `worker` | 2 one-shot jobs due at once, 1 worker, `MaxRuns` 1, clock 0..1 | `WorkerTypeOK`, `HeldRunIsTracked`, `StopAsksEveryTurn`, `OwnedConcurrency`, `SuccessIsReal`, `WorkerImplementsStore` | 142,224 |
| `worker_live` | 1 job, 1 worker, a user who cancels, clock 0..2 | `TurnEnds` | 65,408 |
| `worker_unowned` | as `worker` | `ConcurrencyBound`, violated (section 6) | |
| `delivery` | 2 one-shot jobs with webhooks, 2 workers, clock 0..2 | `DeliveryTypeOK`, `AtMostOnePost`, `OutcomeProvable`, `DeliveryReleased` | 68,972 |
| `tasks` | an orchestrator, a task it delegates (2 attempts, asks for approval of two calls at once), one that depends on it; reports of 2 tokens, or of 1 token and a cost of 2 | `GrantsAreAnswered`, `AskStaysOpen`, `DependenciesFirst`, `BudgetsBind`, `CancellationReachesAll`, `TaskGraphImplemented` | 132,583 |
| `dispatch` | an orchestrator and the task it delegates (2 attempts), a supervised and an unsupervised session, capacity 2, a crash | `DispatchTypeOK`, `OneTurnAtATime`, `EffectsNotRepeated` | 330,198 |
| `dispatch_live` | the same with capacity 1 and no crash | `CapacityRespected`, `EverySettles` | 57,577 |
| `turns` | 4 turns: two edits of two files, one over the other, two parallel reads, and one without tools; a crash and a hand edit | `RecoveryTypeOK`, `OriginalKept`, `AnswersHonest`, `RestoreRetriable`, `InterruptedAnswered`, `CompletedWorkRetained` | 1,926,511 |
| `plugins` | 4 trees | `CohortQuiesced`, `SlotImplemented` | 67,411 |
| `plugins_update` | 2 trees | `UpdateResumes`, violated (section 6) | |

- `store_runs` asks whether the schedule and the exclusion of runs survive every
  interleaving of transactions: two workers that claim in turn, a lease that
  expires while its owner still works, a manual run claimed between the sweep
  and the removal of a job, a cancellation accepted while the run ends, a pause
  and resume of a job whose occurrences were missed.
- `store_outbox` asks whether each of the six ways a run ends queues its
  notification in the same transaction (the one-shot job, claimed late, is a
  misfire whose notification is posted), whether retention and recovery respect
  it, and whether the whole is the ledger: claimed once, outcome final, notified
  at most once, remembered until notified.
- `worker` asks what a unit test cannot enumerate: a pause, a stop, a timeout, a
  lost lease and an operation that ignores its cancellation in every order.
- `worker_live` asks that every task ends under a fair event loop.
- `delivery` asks that a notification is posted at most once and that the
  recorded outcome is one that an answer proved, and that a delivery never stays
  with a dead worker.
- `tasks` asks whether the sweeps hidden in every claim and listing, retries,
  shared budgets and cancellations can be combined, by callers in any order, so
  that a task runs before what it depends on, is tried too often, or outlives a
  cancellation or a budget above it; and whether, of two calls of a turn that poll
  one mailbox, one can run on the answer to the other, or wait while its request
  is closed by something else than the other.
- `dispatch` asks whether a task is ever worked on twice: workers stall past
  their lease, monitors act on a row that has changed, sessions die.
- `dispatch_live` asks that a graph is settled although its orchestrator holds
  the only place its child could run in, and that the place is never given
  twice.
- `turns` asks whether recovery, undo and rewind keep their promises when each
  of them is itself cut short and files are edited by hand in between. The fourth
  turn is the model request that must not see a call of the parallel batch
  without an answer, where a result was recorded and its message was not.
- `plugins` asks whether installs and removals are atomic through failures and
  crashes in their rollback and recovery, and whether they respect a coordinated
  update that holds another lock.

Each property has a mutant: a definition changed as a plausible bug would change
it (comments `Variant:`), under which TLC finds the property violated.

### Bounds

| Constant | Bounds | Why the values are enough |
|---|---|---|
| `Horizon` | the clock | with `Lease = 1` it leaves room for a lease to expire and another to be given (three times over in `store_runs`), and for a recurring job to miss occurrences; a step that would write a lease beyond the horizon is not taken |
| `Lease` | 1 tick | expiry is possible after any step and never forced |
| `Retention`, `Grace` | 0; 0, 1 or the horizon | a run may be pruned one tick after it ends; an occurrence may be claimed late (the interval job of `store_outbox`, one tick) or be a misfire (its one-shot) |
| `MaxManual` | manual runs per job | one is enough to collide with a scheduled run |
| `MaxCalls` | methods between their transactions | two calls may race with each other |
| `MaxRuns` | `max_concurrent_runs` | 1 with two jobs: the limit is reached at once |
| `MaxAttempts`, `MaxActive`, `TokenBudget`, `GraphTokens`, `GraphCost`, `Reports` | the limits of the ledger | two attempts: one that is tried again and one that is the last; a capacity of 1 is reached by one task, one of 2 lets both run; a graph of two tasks with 3 tokens and a cost of 2 is brought to its budget and beyond by either report, in either order; in the runs of the dispatchers nothing is reported |
| `Background`, `Slot` | the tasks that ask through the database, the calls of a turn that may wait at once | the task with two attempts, two calls: what a poll does to the answers of others, it does to each of them. `Apart` explores the requests where no usage is reported, nothing depends on the task and its parent has not begun, since approvals read only whether an attempt holds it |
| `MaxCrashes` | crashes of sessions, or of the process | one, at every point: a crash loses all memory, so a second one acts on a state the first could have left; recovery and undo are crashed too |
| `Turns`, `MaxEdits` | turns, hand edits | an edit of two files, an edit over it (the shortest chain of checkpoints, of which one file may be restored and the other fail), a parallel batch, and a turn after it that asks the model again; `Apart` explores the reads only where the turns before them edited nothing, since they touch no file |
| `MaxTrees` | trees that are created | an install, and three that replace, update or follow a removal; a journal names two trees at most |

Two workers are two contenders for every claim; the token of a third would be
compared in the same way. Symmetry is used where it is sound: over workers in
the store, over the identical jobs in `worker`, over the two calls in `tasks`, over
the two files in `turns` (which the same calls edit), never with a liveness property.
Deadlock is not checked where the system may stop: the clock is bounded, one-shot
jobs end, a stopped worker does nothing, tasks are settled, turns and trees are
used up. It is checked in the two runs of the dispatchers, whose polling never
ends.

### Fairness

`worker_live`: the event loop of a live worker runs the tasks that are ready
(`LoopStep`, `ExecuteStep`) and timeouts fire (`MonitorEnded`, `TurnTimeout`,
`EndTurn` after at most two seconds). Each is weak fairness of a step that, once
enabled, stays so until a task of the same process acts. Nothing is assumed of
the operation, of the monitor, of the users or of the clock: an operation may
never end. A crashed worker owes nothing, its tasks are gone.

`delivery`: time passes, and some worker runs its loop (`SweepDeliveries`, the
sweep at the start of each batch). Nothing is assumed of the worker that holds
a delivery, nor of the receiver.

`dispatch_live`: dispatchers poll as long as tasks are pending (`Poll`,
`Dispatch`; a loop of 0.1 s), a worker goes on (`WorkerStep`: the time budget
that `agents/tasks.py:112` gives every task ends a turn or a wait), a monitor
answers (`MonitorStep`), and a lease that no worker renews expires. Nothing is
assumed of the model, of the users, of what a turn delegates, or of a lease
that is renewed: it may expire or not. The run has no crash step: what it says of
a session that dies rests on the expiry of leases alone, and that a crash leaves
nothing else to settle is not checked under fairness.

The safety specifications assume no fairness.

## 4. What is proved

Every safety property that a passing run checks, and every refinement, is a
theorem, for every value of the constants that the assumptions admit:

- `StoreAssumption`: any set of jobs and workers, any
  schedules, graces and bounds; leases are positive, constants are well-typed,
  and a cron expression has a fire time after every instant up to the horizon,
  which `build_schedule` enforces;
- `WorkerAssumption`: finitely many jobs, `MaxRuns` at least 1;
- `TasksAssumption`: any finite graph of tasks, any attempts, capacity and
  budgets; dependencies and parents are acyclic, which `_reject_cycles` and the
  order of creation enforce, limits are positive, and one call reports one of
  finitely many amounts (an SQLite integer, a finite float);
- `ApprovalsAssumption`, `DispatchAssumption`: which tasks ask, which sessions
  are supervised;
- `RecoveryAssumption`: any number of turns and files, any batches of calls,
  crashes and hand edits; calls are numbered in the order of their turns, and the
  calls of a parallel batch are reads, as `loop.py` admits no others to one;
- `PluginAssumption`: any number of trees.

TLC evaluates each assumption on the runs of its module.

| Theorem | Says |
|---|---|
| `NextFireIsLater` (schedule) | a recurring schedule fires again, strictly after now; an interval skips no occurrence (`IntervalFires`) and a cron fires at the first of its instants after the base (`CronFires`) |
| `TypeCorrect` | `Spec => []TypeOK` of the store |
| `ExclusionHolds`; `OneRunAtATime`, `RemovedJobsAreIdle` | one running run per job (`OneActiveRun`), none of a removed job (`NoRunOfRemovedJob`) |
| `PunctualHolds`; `EnabledJobsFire`, `MissedOnce` | `EnabledJobCanFire`, `NoBackfill` |
| `SummariesAgree` | `JobSummaryHonest` |
| `CancelWinsHolds` | `CancelWins` |
| `OutboxHolds`; `OutboxAlwaysComplete`, `FenceRespected` | `OutboxComplete`, `FencedDelivery` |
| `StoreImplementsLedger` | `ImplementsLedger` |
| `WorkerTypeCorrect` | `WorkerSpec => [](TypeOK /\ WorkerTypeOK)` |
| `WorkerRefinesStore`, `WorkerExclusion` | the worker implements the database, so what is proved of the database holds of the workers |
| `HeldRunsAreTracked` | `HeldRunIsTracked` |
| `EveryTurnIsAsked`, `OwnedRunsAreBounded`, `SuccessesAreReal` | `StopAsksEveryTurn`, `OwnedConcurrency`, `SuccessIsReal` |
| `DeliveryKeepsLedger` | the delivery service drives the ledger of runs by its own steps only |
| `DeliveryTypeCorrect`, `PostedOnce`, `OutcomesAreTrue` | `DeliveryTypeOK`, `AtMostOnePost`, `OutcomeProvable` |
| `TasksTypeCorrect` | exactly the active rows hold a lease, no task is tried more than `MaxAttempts` times |
| `DependenciesComeFirst`, `CapacityKept`, `CancellationReaches` | `DependenciesFirst`, `CapacityRespected`, `CancellationReachesAll` |
| `BudgetsHold` | `BudgetsBind` |
| `LedgerImplementsGraph` | the ledger implements `TaskGraph` |
| `DispatchKeepsLedger` | dispatchers, workers and monitors drive the ledger of tasks by its own steps only, so the theorems above hold of them |
| `DispatchTypeCorrect`, `TurnsExclude`, `EffectsAreLast` | `DispatchTypeOK`, `OneTurnAtATime`, `EffectsNotRepeated` |
| `GrantsHold`, `AsksStayOpen` | `GrantsAreAnswered`, `AskStaysOpen` |
| `ApprovalsKeepLedger` | `ApprovalSpec => Spec` of the ledger, so its theorems hold of the composition |
| `RecoveryIsInvariant` | the inductive invariant of turn recovery |
| `RecoveryTypeCorrect`, `OriginalsAreKept`, `AnswersAreHonest`, `RestoresCanBeRetried`, `InterruptedAreAnswered`, `CompletedWorkStays` | `RecoveryTypeOK`, `OriginalKept`, `AnswersHonest`, `RestoreRetriable`, `InterruptedAnswered`, `CompletedWorkRetained` |
| `PluginTypeCorrect`, `CallsKeepTrack` | `[]PluginTypeOK`, and the invariant `CallInvariant` it is part of |
| `QuiescedStaysDisabled` | `CohortQuiesced` |
| `LifecycleImplementsSlot` | the lifecycle implements `PluginSlot` |

*The argument for the database.* Few of the properties are inductive alone.
Transactions are first sorted into a few kinds of effect (`StepKind`: closing
one run, a sweep, a manual claim, a batch, a removal, ...), proved once to cover
`Next` (`Steps`); each invariant is then proved against the kinds rather than
against every action. `OneActiveRun` needs `NoRunOfRemovedJob` and the
types, because a claim is guarded by `Active`. `EnabledJobCanFire` is not
inductive: that the next occurrence is later than every *key* must be
strengthened to *later than every insertion time* (`NextAhead`) together with
"a row is not inserted before its scheduled time, nor after now" (`RowsBorn`),
and rests on `NextFireIsLater`. The outbox needs `BoxInvariant`, completeness
and fencing together. The refinement maps a run to `due`, its status or
`forgotten` and uses all of the above.

*The argument for the worker.* `WorkerTypeOK` carries what makes the row of a
turn meaningful (an operation being waited for has been cancelled).
`HeldRunIsTracked` is not inductive: a task that is returning is collected
without writing to the database, so it must be added that its run is no longer
held (`Tracked`: `execute` returns only after the run was recorded). The
strengthened `HeldAreTracked` is kept by every step that gives no new lease and
either moves the row of a run within the worker's table or ends its lease
(`StaysTracked`); the one step that gives leases, `Claim`, puts each in the
table (`ClaimTracks`). The other three properties come from `OperationsSound`:
nothing begins in a worker that has left its loop, because it cancelled every
task before; what a worker *keeps* (its tasks and its detached ones) never
outgrows `MaxRuns`, since the operations alone, which `OwnedConcurrency` counts,
are too few to bound the next claim; and an operation that completed stays so.

*The argument for the delivery.* The attempts of a row count up, so a task's lease
is the row's or an earlier one (`AttemptsSpent`). A task that has not passed the
dispatch fence of its lease finds it up (`FenceUpBefore`); one that has still
holds its lease with the fence down, or its delivery was given up as ambiguous
(`FenceDownAfter`), and it is the only one (`OneSender`). What a task knows of the
receiver is true (`AnswerKnown`). The decisive part is that the receiver has got
nothing as long as the fence is up (`SilentUntilFenced`): hence a claim that is
repeated repeats no post. `DeliveryInvariant` is these and the two properties.

*The argument for the ledger.* Every transaction is first reduced to its effect
on one row, whichever it is (`Effect`: a row stays, is created, starts, is
claimed or ends; `StepEffect` covers `Next`). Types are not inductive alone: that
no task is tried too often needs that a queued task has an attempt left
(`TasksInvariant`). Dependencies, the refinement and the types then follow effect
by effect; the capacity from the count that a claim makes after its sweep; the
cancellation from `Descendants` being closed under `Below`. For the budgets, the
sum over a graph is defined as the number of units its tasks have used (`Total`),
not by a fold, whose recursion the prover cannot follow: that it grows by what
one task is billed is then a fact about finite sets (`TotalGrows`). Only a report
changes it (`OnlyReportsBill`), a failed task stays failed (`FailuresStay`), and a
report that leaves the graph over its budget fails the task.

*The argument for the dispatch.* A worker's token is an attempt of the ledger, and
an attempt is given once, so two workers at work on a task have different tokens
(`Tokens`). The fence does the rest: a row that is unsafe and no longer queued is
queued again by no sweep, only by the worker that holds its token. So a worker in
its turn has the latest attempt, behind the fence (`TurnsFenced`), and an attempt
that had effects is the latest, behind the fence, and its worker knows
(`EffectsFenced`). A worker that stalled past its lease keeps its token, but no
other turn can have begun beside it. `DispatchInvariant` is these and the types.

*The argument for approvals.* An attempt that is not current never is again
(`CurrentIsLost`, from `StepEffect`: a claim always moves to the next attempt),
so a retirement or a withdrawal takes a request only from an attempt that has
lost its task for good. The steps of a call are sorted by what they do to its own
request (`OnItself`: asked anew, gone on, given up, told, answered) and to any
other (`OnOthers`: its turn ends, its answer is marked, or nothing). Only an
unread answer is marked, and by a call that waits beside it and has asked
(`NeverIdle`), which is what `Discarded` says. The invariant adds that a pending
request has no answer, a used one is delivered, and a request belongs to an
attempt that was made (`AskInvariant`).

*The argument for turn recovery.* None of the five properties is inductive, and
each needs parts of the others, so there is one invariant, `RecoveryInvariant`:

- `TurnsInOrder`: the turn in hand is the only one that is open, all others are
  answered or wait for a recovery; sequential calls begin one after the other;
- `EffectsRecorded`: what a call did is recorded before, its row is dispatched
  and its marks are open before it writes;
- `ContentsNamed`, `OriginalsMarked`, `WritingsMarked`: the three facts that make
  checkpoints trustworthy. Whatever in a file is not to be kept as it is, is covered
  by a live mark that holds what is; a closed mark ends in what the call found,
  what it wrote or a hand edit it could not tell from that; and no call found the
  content of a call that is not over, so rolling that one back loses nothing else;
- `OperationSound`, `RecoveryInHand`, `ReversalInHand`: how far the operation in
  hand has come. A recovery gives up one call at a time. An undo or a rewind
  restores each file down a chain of closed marks, each starting where the one
  before it ended (`Linked`); `Reached` says that a file is at one of these
  places and what is left to do is exactly what lies below, or that it was edited
  by hand.

Each part is kept by its own lemma (`OrderStep`, `EffectsStep`, ...,
`ReversalStep`), over a few classes of steps (those that move rows, that move
marks, that move files) rather than over the actions. That a chain has a first
and a last edit is a lemma on finite sets of numbers (`LeastOf`), from the
well-foundedness of strict inclusion.

The attempt to prove `CompletedWorkRetained` found it too strong as it first
stood ("no step of a recovery takes away what a successful call wrote"): when two
calls edited two files, the second is rolled back in one file, the other cannot be
restored, and the first is put back as it was found. The property now admits just
that step, and `turns` has two calls that edit both files, so that it happens.

*The argument for plugins.* `CohortQuiesced` is inductive. The refinement is not
provable from types: `CallInvariant` relates the journal in the call's memory to
the one on disk, says which trees are kept at each place of a call, and how far a
call has come when it goes backwards; with it, each step either leaves the tree
that recovery would bring back, or is the commit.

## 5. What is only model-checked

`TurnEnds`, `DeliveryReleased` and `EverySettles`: liveness under fairness, which
the prover does not reach (it would need `ENABLED`). Induction over data is out of
its reach as well; no module needs it, since sums are counted and extremes are
chosen from finite sets. The types of the ledger of tasks and of the plugin
lifecycle are, the other way round, only proved. The two violated properties
of section 6 are of course not theorems.

## 6. Findings

`worker_unowned`: when the lease monitor fails, `execute` cancels the operation
and awaits it (`worker.py:1032`) *before* it defers its cleanup
(`worker.py:1034`); the timeout path defers first (`worker.py:942-945`). A pause
or stop that cancels the task during that wait leaves with `CancelledError`, and
an operation that has not settled is in none of the worker's tables. Capacity is
then computed as if it were over, and after the pause the worker runs one
operation more than `max_concurrent_runs`, which
`docs/guides/DURABLE_AUTOMATION.md:128` gives as the limit. `OwnedConcurrency`,
which counts only the operations the worker knows of, holds.

`plugins_update`: the recovery of a call restores the activation bit through
`transition_extension_state_checked`, which refuses every plugin of a pending
coordinated update and tells the user to rerun `ash extensions update --all`
(`plugins/state.py:226`). That command begins with the recovery
(`commands/extensions.py:915`) and stops with the refusal, so neither is ever
done, and every later lifecycle call fails as well.
`docs/architecture/PRODUCTION_HARNESS_PARITY.md:2140` says that "rerunning
update-all resumes the same targets". The trace has a crash; it happens without
one when a plugin of a pending update is removed, since the removal is refused
at its activation step and its rollback is refused as well.

Four disagreements were met while modelling that no run states:

- A child process that is refused because the capacity is used up exits with
  status 1, and its monitor, which finds the task queued with the attempt the
  child was launched with, takes it for a child that died before its claim and
  cancels the task (`tools/agent.py:832-836`);
  `docs/reference/AGENT_TASKS_V1.md:74-76` says that ready tasks run "up to the
  cross-process capacity limit". `Judge` and `Condemn` model it.
- Each poll of a call that waits for the lead marks as delivered, as an answer to
  an earlier request, any answer in its mailbox that names another request of the
  same attempt (`tools/agent.py:2734-2742`, `2784-2785`). When two reads of a
  batch (`core/loop.py:5884`) are under an ask rule, that may be the answer the
  other is waiting for: its request is delivered, its answer is never read, and
  it waits until the turn ends, although
  `docs/reference/AGENT_TASKS_V1.md:109-111` says that an operator "can approve or
  deny that exact request from a later process". `Stale` models it; without its
  disjunct `Discarded`, `AskStaysOpen` is violated.
- When the circuit breaker trips in a parallel batch of reads, the turn is
  completed (`core/loop.py:4365`) without the messages of the reads that had
  finished, and recovery passes over completed turns; the comment at
  `core/loop.py:5898` says that startup recovery can reconstruct them.
- A first install that dies between creating the plugin's directory
  (`plugins/lifecycle.py:1003`) and naming it in the journal is refused by every
  recovery ("live tree identity is unknown"), and so is the recovery of a
  replacement that was cut short after the backup was renamed back ("planned
  backup is absent"); `docs/reference/PLUGIN_API_V1.md` says that before the
  commit "restart recovery compensates back to the previous" state, but also
  that what cannot be proven to match fails closed. `MayUndo` models it.

## 7. What is not modelled, and why

- In the database: worker heartbeats, audit events, usage columns and
  migrations, which no decision of the modelled tables reads.
- In the worker: the `once` and `run_manual` modes (they use the same `execute`
  without the loop), `aclose`, the heartbeat, and the pipes of the child
  process. The order of the deferred client closings is abstracted to "late".
- A clock that is set back (a hazard without a property, listed in
  `PROJECT.json`), and the rounding of floating-point seconds in
  `_next_interval`.
- In delivery: URL checks, name resolution and signatures are one step,
  preparing, that may fail.
- In the ledger of agent tasks: several workspaces, artifacts and events, and
  the limits on the number of tasks; ids are fresh.
- In dispatch: the launch by `spawn_agent` itself, the refusal of automatic
  dispatch, resume, worktrees and branches (their failure is the
  retryable outcome of `SetUpFails`), the relaying of events. A worker is one
  per session and task, as `_subprocess_task_ids` has it.
- In approvals: agent status, steering and stop messages; the limits of a mailbox
  (a hundred messages of other kinds that nobody takes would hide an answer) and
  the retention of delivered messages; the socket by which the workers of a
  foreground call ask (`approval_channel.py`). What a call asks for is not
  distinguished: an answer is matched by its request. Any call of a
  turn may be parallel to any other, in at most `Slot` slots.
- In turn recovery: streaming, several batches of calls in a turn, goals,
  steering and compaction; durable MCP tasks; file modes, sizes and paths. One
  process at a time has the session (its runtime lease), the user's message is
  saved with the start of the turn, a restoration's check and write are one
  step, and so is a rollback. The breaker trips at any moment, its counter is
  not modelled. A hand edit between the two looks a call takes at a file is
  recorded by the code as the call's, and is not counted as one to keep.
- In the plugin lifecycle: one plugin, so no dependencies; Git, catalogs,
  manifests and validation (they fail as `Fail`, before or after the journal is
  written); other programs that write into the plugin root; staging
  directories; `remove_tree` is one step, because what is left of one is
  recognised and removed again. An exception after the rename that publishes the
  committed journal and before the call knows of it (an `fsync` that fails, or a
  Ctrl-C before `published = True`, `plugins/lifecycle.py:1075-1080` and
  `1328-1330`) is not modelled: there the code rolls back a call whose journal on
  disk says committed.
- Provider adapters, context management, the safety policy, the sandbox, the
  tools, MCP, LSP, servers, hooks, memory and the user interface: I/O,
  translation, matching and rendering, sequential within a request, or protocols
  defined elsewhere. Section 8 names the parts that are next.

## 8. Plan

In the order of importance; each component gets its module, its instance, its
proofs. Done: schedules, store, ledger, worker, delivery, the ledger and the
dispatch of agent tasks, approvals, turn recovery, the lifecycle of plugins.

1. `RemoteAgents` (`agents/a2a_remote.py`, `agents/a2a_tasks.py`): the durable intent
   of a remote task, its handle and its capacity, through lost answers and restarts.
2. `ProviderReliability` (`providers/retry.py`, `credential_pool.py`,
   `failover.py`): requests as processes that interleave at awaits; circuit,
   cooldown and sticky index. The comment "Half-open: one serial probe"
   (`providers/retry.py:100`) is to be checked against concurrent requests.
3. Proofs about what is modelled next. Every safety property that a run checks
   now has its theorem; what is left is the liveness of section 5.
