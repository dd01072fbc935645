# A verification project for gbrain's coordination code

This directory specifies the part of the repository in which things happen at
the same time and fail half-way: the durable job queue ("minions"), the workers
and the supervisor that run its jobs, the agent loop and the fan-out built on
them, the locks and leases all of it relies on, the sync of a repository into
the brain, and the queue of facts that a command leaves behind.
The code is TypeScript under `src/` (paths below are relative to the
repository's root). The specifications are TLA+; TLC checks them on small
instances and TLAPS proves central results for every value of the constants.
`PROJECT.json` lists the components, the runs, what each definition
translates (`map`), the hazards and the findings in machine-readable form.

## 1. Inventory

| Component | State | Operations | Hard because |
|---|---|---|---|
| Job queue `src/core/minions/queue.ts` | rows of `minion_jobs`, `minion_inbox` (in `src/schema.sql`) | add, claim, completeJob, failJob, releaseLeaseFullJob, cancelJob, retryJob, removeJob, prune, pause/resume, promoteDelayed, handleStalled, handleTimeouts, handleWallClockTimeouts, readInbox | several workers, three sweeps and operators write the same rows; parents depend on their children's last write |
| Worker `src/core/minions/worker.ts` | `inFlight` map, timers | claim loop, quiet-hours gate, launch, abort, grace eviction, settle | acts on a row it read earlier; a crash drops everything it knew |
| Lock renewal `src/core/minions/lock-renewal-tick.ts` | per claim: last success, tick, call | tick, timeout, reconnect, give up | three clocks; statements that execute after their caller left |
| Subagent loop `src/core/minions/handlers/subagent.ts` | `subagent_messages`, `subagent_tool_executions` | load, seed, call, persist, dispatch, settle | resumes at any statement; two claims may overlap |
| Gateway loop `runSubagentViaGateway` + `src/core/ai/gateway.ts` `toolLoop` | the same tables, other keys | the same | persists less than the default loop |
| Aggregator, fan-out `handlers/subagent-aggregator.ts`, `src/commands/agent.ts` | a parent job, `children_ids`, read marks of messages | add the aggregator, add N children, list them; read the inbox, answer | the parent is claimable before it is a parent |
| Rate leases, cap controller `rate-leases.ts`, `lease-cap-controller.ts` | `subagent_rate_leases`, a cap | acquire (lock, prune, count, insert), release; adjust | leases expire under a call, rows outlive their worker |
| Budgets `budget-tracker.ts`, `budget-meter.ts` | cents left, reservations, spend log | reserve, settle, refund, halt, sweep | check-then-insert; nothing in `src/` calls the first two |
| Supervisor `supervisor.ts`, `child-worker-supervisor.ts` | PID file, a row of `gbrain_cycle_locks`, crash and wedge counters | start, refresh, give up, shut down; spawn, count, back off, check, restart | signals, exits and checks race; what was checked may have been replaced |
| Self-fix `self-fix.ts` | chain depth | submit a follow-up child | runs on the failure path |
| File and row locks `page-lock.ts`, `pglite-lock.ts`, `db-lock.ts` | lock files and directories, `gbrain_cycle_locks` | acquire, refresh, steal, reap, break, release | staleness is guessed from time and PIDs |
| Sync, ledger, checkpoints `src/commands/sync.ts`, `import.ts`, `sync-failure-ledger.ts`, `op-checkpoint.ts`, `import-checkpoint.ts` | the bookmark `last_commit`, `op_checkpoints`, two files | pin, diff, delete, rename, import, bank, gate, advance, settle | the repository moves under the run; a kill between any two writes; what the bookmark passed no later diff shows |
| Facts queue and teardown `facts/queue.ts`, `background-work.ts`, `cli-force-exit.ts` | jobs pending and in flight, in memory | enqueue, pump, settle, drain, shut down | microtasks and timers; the database closes at the end |
| Pool, retry, ingestion daemon, maintenance cycle | in memory | bounded work, back-off, phases | limits and shutdown |
| Engines, migrations, operations, MCP, OAuth, search, evaluation, skills, `hydrabrain/` (Python) | the brain's content | queries, parsing, ranking, HTTP | content, not coordination |

How they interact: a caller adds rows to the queue; each worker process polls
`claim` and runs a handler per row, renewing the row's lock on a timer; every
worker also runs the sweeps over all rows. A
supervisor keeps a worker process alive; it and the commands that must not run
twice take locks, in the database or in the file system. Processes exchange no
messages and share no memory: what they know of each other is in rows, files
and exit codes. A handler learns
that it lost its row only from a refused or timed-out renewal (an abort signal)
or from a settling UPDATE that matches no row. A subagent handler adds its
conversation to two more tables. Those are not fenced by the lock token.

What makes each component correct:

- *queue*: a settled job stays settled; only the last claim's handler gives a
  job its result; attempts never exceed claims (a CHECK constraint); a parent
  runs after its children and is woken by the last of them; each outcome is
  reported once; every job comes to rest.
- *renewal*: a worker with fresh news of a renewal owns its row; how long two
  holders can overlap; a job given up is taken back.
- *subagent*: the stored conversation is one the provider accepts; a resumed
  run tells the truth about tools; effects that cannot be repeated are not.
- *fan-out*: the answer is about all children and says of each how it ended;
  a fan-out is answered.
- *leases, locks*: a cap is a cap; one holder at a time, whoever crashed, stalled
  or got whose PID; no dead holder closes a lock for ever.
- *supervisor*: one serves a queue; it restarts only the worker it judged,
  gives up only for crashes, and a worker that ended is followed by another.
- *sync*: no change is passed over silently; nothing wedges the bookmark.
- *facts queue*: a session's jobs run one at a time and in order; nothing writes
  to a closed database; no session is forgotten.

## 2. Modules

| Module | Stands for | Checked by |
|---|---|---|
| `JobLifecycle` | abstract specification: what the queue promises about one job | refined by `q_one_job` |
| `LeasedLock` | abstract specification: what a lock promises whose holders may overstay | refined by `locks` |
| `MinionQueue` | queue, workers' claims, sweeps, operators; a transaction is a step | `q_*` |
| `MinionQueueProps` | the queue's properties, its inductive invariant, the refinement mapping | `q_*` |
| `AgentFanOut` | the fan-out command and the aggregator, composed with `MinionQueue` | `q_workers` |
| `FamilyTx` | the statements inside five queue transactions on one family | `tx_*` |
| `LockRenewal` | the renewal clock of one claim beside the stall detector | `locks`, `lr_release` |
| `SubagentReplay` | the default subagent loop, statement by statement | `sub_replay` |
| `GatewayReplay` | the gateway subagent loop | `gw_resume` |
| `PgliteLock` | the lock on a PGLite data directory | `locks` |
| `PageLock` | the lock on one page's file | `locks` |
| `DbLock` | a named lock in the database, its takeover, reaper and breaker | `locks` |
| `RateLeases` | the leases of provider calls | `locks` |
| `SupervisorLock` | which supervisor serves a queue: PID file and row | `locks` |
| `ChildWorker` | the supervisor's worker process and its health check | `services` |
| `SyncRun` | the sync of a repository that others commit to | `services`, `sync_full` |
| `FactsQueue` | the facts queue and the end of a command | `services` |
| `Locks` | renewal, locks and leases, one component per behaviour | `locks` |
| `Services` | sync, worker and facts queue, one component per behaviour | `services` |
| `MinionQueueProofs`, `MinionFamilyProofs`, `FanOutProofs` | proofs about the queue: one row; rows and claims; a fan-out | TLAPS |
| `FamilyTxProofs` | proofs about the statements of the transactions | TLAPS |
| `SubagentReplayProofs` | proofs about the default subagent loop | TLAPS |
| `LocksProofs` | proofs about the components of `Locks` | TLAPS |
| `ServicesProofs`, `SyncProofs` | proofs about the components of `Services` | TLAPS |
| `MC*` | instances for TLC | |

### MinionQueue

`jobs[j]` is the row with id `j` (`status`, `parent`, `depth`, `policy` =
on_child_fail, `removeOn` = remove_on_*, `deadline` = timeout_ms is set,
`token`, `started`/`made` = attempts_started/_made, `stalled` =
stalled_counter, `error`, `result`); `inbox[j]` its child_done messages;
`runs` the claims that live in some worker's memory, with what the worker read
at claim time. A SQL transaction is an action. The statements of one are
operators that take the table and return it changed, composed in the code's
order (`Deliver`, `ApplyPolicy`, `Resolve`, `DeleteRows`, ...).

Time is not counted. A lock, deadline or delay may or may not have run out
when a sweep looks, so a sweep takes any set of rows that passes its conditions
on columns. `lock_token` and `lock_until` are set and cleared together
everywhere, so one field stands for both. The lock token is the claim's number:
the code's token is `workerId:timestamp`, and the model relies on two claims of
a row never sharing one.

Worker crashes: a claim may leave `runs` at any time. A claim whose answer is
lost (operation `lost`) is active with no run at all.

`Ops` names the optional operations an instance allows, so that runs can spend
their states on different combinations.

Left out: idempotency keys and maxWaiting coalescing (they return an existing
row and change nothing modelled), token, progress, log and attachment columns,
sendMessage, `SKIP LOCKED` order and priorities (any eligible row
may be claimed).

### FamilyTx

`MinionQueue` is right about PGLite, which has one connection. On Postgres the
transactions interleave. `FamilyTx` plays completeJob, failJob (retry and
final), cancelJob, handleTimeouts and add on one parent and its children, one
SQL statement per step: READ COMMITTED snapshots, writes private until the
commit, row locks with Postgres's conflict table (FOR UPDATE, the lock of an
UPDATE, the KEY SHARE lock of the inbox's foreign key), an UPDATE that waits
for a row and re-reads it but not its subqueries, and deadlocks, of which one
member is aborted. A completeJob that is aborted throws into executeJob's catch
block, which calls failJob (`worker.ts:975-1104`): `Abort` restarts it as such.

### LockRenewal

One claim in discrete time; all variables are time differences. `lease` is
lock_until - now(), `sinceOk` the worker's clock since it *heard* of a success,
`heard` whether that was a renewal or still the claim. A behaviour starts when
the database has executed claim's UPDATE (`queue.ts:612`), and the worker's clock
when `LaunchJob` has the answer (`worker.ts:785`). Unlike that of renewLock, this
answer is raced against no timeout (`worker.ts:518`): the handler may start with
any rest of its lease, or with its row swept and claimed by another worker.
`untilTick` and `left` its timers, `call` the UPDATE in flight, `late` the
UPDATEs whose caller stopped waiting and which the database may still execute.
`HandleStalled` is any worker's stall detector. "aborted" means that the abort
signal fired; a handler that ignores it runs up to 30 s more before its slot is
evicted, which is outside this model. An engine without a pool is one whose
reconnect takes no time.

### SubagentReplay

`log` is subagent_messages, `rows` the status of the ledger row of each tool
use, `runs[r]` where the handler of claim `r` is and what it has loaded.
Each action is one database statement, provider call or tool execution.
`Stop` ends a run between any two: a crash, an abort, an error of the provider,
the lease or the database. `Claim` may start a run beside one that still lives.
The order of the uses in one answer is left open (the code goes through them in
the order of the blocks, so it does less than the model). `emitted`, `executed`
and `overlapped` are history variables.

### GatewayReplay

The loop behind `agent.use_gateway_loop`. It shares the tables and differs in
what it writes: no user turns, and tool rows keyed by (message_idx, ordinal).
`conv` is what the provider is sent: each call in it, and the call whose
outcome it is told for it.

### AgentFanOut

`gbrain agent run` with a fan-out, over `MinionQueue`'s tables. `command` is how
far the CLI is: it adds the aggregator, then each child, and writes the ids
(`listed`) last; it may die in between (`CommandDies`). `desk` is what the
handler of each claim of the aggregator has in hand: the ids its claim
returned, where it is in readInbox (whose check of the token and UPDATE of
`read_at` are two steps), and the messages it got. A behaviour has one such
command, or none; then the queue is used as in `MinionQueue`.

### PgliteLock, PageLock, DbLock

Each has a process (or task) per model value and one action per system call or
SQL statement. `can` is the world a behaviour takes place in: what may happen in
it, drawn from `Worlds` at the start (table below).

- `PgliteLock`: `dir` and `file` are the lock directory and the file in it;
  `fresh` says that the heartbeat is within the steal grace, `lapsed` holders
  that it passed, `strangers` dead holders whose PID another process has.
- `PageLock`: `file` is the PID in the lock file, `old` that it is beyond the TTL.
- `DbLock`: `row` is the holder (with its PID, host and acquired_at), `quiet` the
  time since the row was refreshed, `young` that it was acquired lately, `snap`
  the row a takeover, a reaper or an operator has read.

### RateLeases

acquireLease as its statements under the advisory lock (`Lock`, `Prune`,
`Count`, `Insert`), the release that may fail unnoticed, expiry, crash, and the
cascade from a deleted job. No lease is renewed during a call, because the code
never does it. `overdue` are callers whose lease ended under their call.

### SupervisorLock

The PID file (created and written in two steps, unlinked when stale, unlinked
at exit in two steps), the row of the queue, its refresh with the counter that
makes a supervisor give up, shutdown. `due` are the supervisors whose timer has
fired; the clock (`Tick`) waits for them, unless refreshes may `"hang"`.

### ChildWorker

The loop of `child-worker-supervisor.ts` and the health check of
`supervisor.ts`, which await side by side. Workers are numbered; `child` is the
one that runs, `captured` the one a restart is about. `against`, `signalled`,
`doomed` and `failed` are history: what the checks found and what was done to
whom, for the properties.

### SyncRun

`commits` and `head` are the repository, which other processes commit to,
revert and rewrite at any time. What a file holds is told by the commit and the
path it was written at (`ver`, `of`), so no two edits give the same text, and by
whether it parses (`good`). `page` is what is indexed; `anchor` is
last_commit; `ckpt` the rows of op_checkpoints, `saved` import-checkpoint.json,
`ledger` the failure ledger. `run` is the sync that is alive: its steps are
those of performSync and performFullSync, one write to the database or to a file
each. Imports read the working tree, which may be past the pin. `Stop` is a kill,
a --timeout or a SIGTERM between any two writes, those of one rename included,
where it also stands for an importFile that throws (`sync.ts:2290`, which nothing
catches); like the kill between the bookmark and the clearing of the checkpoint
in `StartSync`'s empty diff (1907-1911) it is a fault, of which there are at most
`MaxFaults` (an importFile that throws every time would end every run and keep the
bookmark for ever). A checkpoint's target and paths are cleared in one step.

### FactsQueue

An action is what JavaScript does between two awaits: `Enqueue`, `Pump` (in a
microtask: `pumpDue`, which comes before any timer), `Settle`, and the end of
the command (`Drain` to `Disconnect`).

## 3. Runs

Passing runs; all their properties have a mutant, a plausible slip in one mapped
definition that makes TLC find the property violated.

| Run | Instance | Properties |
|---|---|---|
| `q_workers` | 3 rows; a fan-out of two children (the aggregator claimed twice, the others once), or any family of that size; all policies, all sweeps, cancel | `ParentsWaitForChildren`, `LastChildWakesParent`, `AnswerIsTrue`, `FanOutIsAnswered` |
| `q_families` | parent and child, 2 claims each, 2 attempts, retry, cancel, remove, quiet hours with the fallback write | `TypeOK`, `AttemptsOrdered`, `SettledChildReports` |
| `q_one_job` | one row, 3 claims, 3 in memory, every operation but the fallback write | `AttemptCountIsCurrent`, `ResultOfLastClaim`, `ImplementsLifecycle`, `JobsComeToRest` |
| `tx_family` | two active children, two that may be added, five mixes of calls, all policies | `NoParentStranded`, `NoEarlyWake`, `OneOutcomePerChild`, `EveryOutcomeReported`, `ChildCapHolds`, `CallsEnd` |
| `locks` | renewal: the default knobs 30/15/10/5 s in units of 2.5 s, a claim answered at any time | `FreshWorkerHasLock`, `OverlapBounded`, `GivenUpIsReclaimed` |
| | PGLite directory: 3 processes | `OneWriter`, `BeatingHolderKeepsLock` |
| | page file: 4 tasks of 2 processes | `OneEditor` |
| | database row: 4 processes, two with one PID, one on another host; TTL 3, grace 2 | `DbOneHolder` |
| | provider calls: 3 callers, cap 2, 4 lease ids | `CapHolds` |
| | supervisors: 2 with one PID file, TTL 5, 3 failures (the code's), 1 crash | `OneSupervisor` |
| | each of them but renewal | `LocksImplementLease`, `LocksOpen` |
| `sub_replay` | 3 tool uses (idempotent, not idempotent, unknown), 2 turns, 3 claims, 2 alive at once | `RolesAlternate`, `AnswersMatch`, `NonIdempotentOnce`, `SettledNotRerun` |
| `services` | sync: 2 files, 4 commits, 2 faults, six worlds | `NothingMissed`, `SkipsFollowBookmark`, `SyncCatchesUp` |
| | worker: 4 spawns, 2 crashes to give up, 2 checks, 1 restart in the window | `KillsWhatItJudged`, `GivesUpOnCrashesOnly` |
| | facts queue: 2 sessions with 3 jobs, 2 pending at most | `SessionsInOrder`, `TeardownIsQuiet` |
| | worker and facts queue | `ServicesMoveOn` |

`Locks` and `Services` (with their instances `MCLocks` and `MCServices`) put
components side by side that do not interact: `focus` picks, at the start of a behaviour, the one that runs in it, and the
others stay in an initial state. The state space is the sum of theirs, and not
the product. `LocksOpen` and `ServicesMoveOn` join the liveness properties that
the modules state one by one (`OpensFor`, `SlotsReturn`, `QueueIsServed`;
`WorkerReturns`, `WedgedIsReplaced`, `SessionsMoveOn`). Where processes are
alike, `LocksOpen` names one of them for all.

`FamilyTx`, `LockRenewal`, `SubagentReplay` and `SyncRun` have a `TypeOK` that no run
lists; it is proved (section 5), and holds on the instances of `tx_family`, of
`locks`, of `sub_replay` and of `sync_full` with `Worlds <- SyncWorlds` when
`INVARIANT TypeOK` is put into the cfg.

Why the bounds are enough. *Rows*: the queue's statements look at a row, its
parent and its siblings (a cascade at descendants); three rows have each
relation once. *Claims*: a stale claim needs one successor, and a third shows a
stale claim beside a settled one. *Attempts and stalls*: with a limit of 2 each
counter is seen below, at and beyond its limit. *Fan-out*: a child that was
listed and one that was not yet; the aggregator is claimed twice, because the
second claim finds messages the first has read. *FamilyTx*: two live siblings
are the smallest family with a "last child" race; the games put every pair of
calls on the same or on different children. *LockRenewal*: the unit divides all
knobs, the overlap is counted beyond either bound, and the proofs cover every other
setting. *SubagentReplay*: two turns
have an inner and a last one; three claims let a resumed run crash again.
*Locks*: a holder, one that steals, and a third that comes between the two; a
PID that comes back, and one process on another host. *RateLeases*: one caller
more than the cap, and more ids than calls, so that rows of the dead remain; the
proof covers every cap. *SupervisorLock*: the proof covers any number of
supervisors. *ChildWorker*: a worker may be replaced twice while a check or a
restart waits. *SyncRun*: a pin, a commit behind it, one in front of it and one
more; two faults let a resumed run fail again; two files, because the gate and
the checkpoint tell only done from not done. *FactsQueue*: a queue that
overflows, with a session that waits behind itself and one that does not.

`CHECK_DEADLOCK FALSE` is set throughout, because each system stops legitimately:
all jobs settled and pruned, all calls over, the handler ended, the claims or
the commits used up.

Each property's exceptions are stated in its definition: `Unreported` names three
writes that skip the parent's bookkeeping; `tx_family` never plays a cancel and a
timeout sweep, or two cancels, of different children together, because those strand
a parent (below); three of the subagent's properties are about runs that did not
overlap; `AnswerIsTrue` leaves out an aggregator that was claimed before its first
child was there or whose command died (the code answers "(no children)") and a
retried one (its messages are marked as read); the locks' properties leave out
holders that outlived their lease.

### Worlds

The locks guess from time and PIDs, and the sync runs over a repository it does
not own. Neither keeps its promises in all circumstances, so a behaviour takes
place in a world that has some of them. The runs have those in which the code
keeps its promises; these are the ones that were tried, with what TLC finds:

| Module | Worlds that pass | Worlds that do not |
|---|---|---|
| `PgliteLock` | no fault; crash with PIDs reused; crash with stalled heartbeats | `race` (another process comes between look, removal, mkdir and write): a second process reaps the directory of a holder about to write its file, and `OneWriter` and `BeatingHolderKeepsLock` fail (the header, `pglite-lock.ts:27-29` and 139-142, says a live holder is never stolen) |
| `PageLock` | no fault; tasks of one process with crashes; slow holders with crashes | `race`, and `shared` with `slow`: a release removes whatever file has the same PID; `OneEditor` fails |
| `DbLock` | no fault; crash, reused PIDs, late refreshes and break-lock; crash with race; late refreshes with race | `race` with `reuse` or with `break`: `deleteLockRow` (`db-lock.ts:295`) deletes by id and PID what another has taken over meanwhile; one PID on two hosts with late refreshes: refresh does not ask for the host; `DbOneHolder` fails |
| `SupervisorLock` | `fail` | `hang`: a refresh that is never answered is never counted as failed; `OneSupervisor` fails |
| `SyncRun` | the six of `SyncWorlds` | `full` with `kill` and commits: run `sync_full` |
| | | `load` with `kill`: a resume that cannot load its pinned target (`sync.ts:1720`) pins HEAD anew and writes that over the old target (1934), whose banked paths stay; the resume after it takes them for done at the new pin; `NothingMissed` fails |
| | | `rename` with `delete` and `break`: the result of a renamed file's import is not looked at (2290), so a file that does not parse is not listed; with `delete`, `erase` and `skip`: the old page that could not be removed stays; `NothingMissed` fails |
| | | `full` with `delete`, `erase` and `skip`, the ledger's rows of removed files are cleared, and their pages removed, after the bookmark moved; with `delete` and `rename` (3 files): a full run that stopped at its gate has imported the new name, so the next run's rename is refused and the old page stays; `full` with `break`, when the import's checkpoint file is written: as with `kill`; `NothingMissed` fails |

`race` stands for a window of microseconds between two system calls (or a round
trip between two statements); with it left out, the properties say that the
protocol is right when these windows are not hit.

The proofs need no list of worlds but a condition on them. `LocksAssumption` is the
one of the locks (no race for directory and page file, no race together with
reused PIDs or break-lock for a row, no hanging refreshes), and `Benign` that of
the sync. TLC evaluates both on the runs' worlds (`AllBenign`). `Benign` also leaves
out `rename` with `revert`, for which TLC finds no counterexample (3 files, 5
commits): two files may then be alike, and a rename has no longer one source.

### What the code does not keep

Five runs end in a violation, each of something a comment or test says.

- `q_stalled_child` (`EveryTerminalChildReports`): a job dead-lettered by
  handleStalled sends its parent nothing, and the parent waits for ever
  (`queue.ts:1161`; `subagent-aggregator.ts:5-7`).
- `tx_killers` (`NoParentStranded`): cancelJob of one child beside the timeout
  sweep of the other; each counts the other's child as open
  (`queue.ts:456`; comments at 421 and 693).
- `lr_release` (`ReleasesBeforeReclaim`): the deadline is compared only when a
  call fails, so the stall detector can take the row while the handler runs
  (`lock-renewal-tick.ts:250`; header 24-27). The run is restricted to behaviours
  in which every answer comes as soon as its statement is executed (`PromptSpec`),
  so slow answers are not the cause. `OverlapBounded` says for how long.
- `gw_resume` (`SettledCallsRefed`): after a crash the gateway loop asks the
  provider without the results of the tools that had finished
  (`subagent.ts:786`; `test/e2e/subagent-crash-replay-multi-provider.test.ts:296`).
- `sync_full` (`NothingMissed`): a first sync that was killed and is started again
  after a commit leaves out the files that import-checkpoint.json names, changed
  or not, and moves the bookmark past them (`sync.ts:2888`; comment at 2903).

## 4. Fairness

- *Queue* (`JobsComeToRest`): every worker calls the sweeps on an interval and
  promoteDelayed in its loop (`worker.ts`, start), hence weak fairness of the
  wall-clock sweep and of promotion per row. Claim is weakly fair per row: a
  worker that polls gets to a waiting row when the rows before it are drained
  and its quiet hours are over. Handlers, renewals and stall sweeps get none: a
  handler may run for ever and a worker may die.
- *AgentFanOut* (`FanOutIsAnswered`): the queue's; nothing makes the command go
  on, a handler return, or a dead worker's claim end by itself. The wall-clock
  sweep ends those.
- *FamilyTx* (`CallsEnd`): a statement runs once its locks are free, and
  Postgres's deadlock detector fires. Nobody has to make a call.
- *LockRenewal* (`GivenUpIsReclaimed`): time passes, timers fire, some stall
  detector runs. The database need not answer, neither claim nor renewLock.
- *Locks* (`LocksOpen`): whoever waits polls on, a step that was begun is
  finished unless the process dies, timers fire and time passes. Nothing makes a
  holder let go or a call return. In `DbLock` an attempt is strongly fair: a
  waiter comes back after each refresh of the holder. `RateLeases`: a job that was
  put back is claimed again; a call may last for ever.
- *SupervisorLock*: a process manager restarts what ended; time passes.
- *ChildWorker* (`ServicesMoveOn`): the loop and the interval of the checks go
  on, time passes (the window of restarts forgets, strongly fair because a
  restart may fill it again), a SIGKILL ends a process. A SIGTERM need not.
- *SyncRun* (`SyncCatchesUp`): syncs are started for ever (cron, autopilot, watch)
  and a run that is not killed takes its next step. Faults and commits are
  bounded, so they stop.
- *FactsQueue* (`ServicesMoveOn`): microtasks run, the grace of the shutdown ends.
  A job need not settle.
- *SubagentReplay*, *GatewayReplay*: none; only safety is stated.

In `Locks` and `Services` the fairness of a component is that of its actions
while it is in focus; for the others these are never enabled.

## 5. Proofs

Every safety invariant and action property of the passing runs is a theorem, for
all values of the constants under the modules' `ASSUME`s and the premises named
below. Liveness stays with TLC.

### The queue: `MinionQueueProofs`, `MinionFamilyProofs`, `FanOutProofs`

For any number of rows, claims, attempts and children (`BoundsAssumption`,
`ChoicesAssumption`: the types of the constants).

- `SoundInvariant`: `IInv`, of one row at a time. The wanted facts are not
  inductive: that a completed row's result is its last claim's needs that an
  active row's token is its last claim's number, that a completed row has no token
  (or the quiet-hours defer, fenced by the token alone, would reopen it), and that
  an active row has an attempt left. Each SQL statement keeps sound rows sound (a
  lemma per statement), so each transaction does, so `Next` does. `TypeCorrect`,
  `AttemptsOrderedInvariant` and `ResultFenced` follow.
- `FamilyInvariant`, `FanFamilyInvariant`: `FInv` adds what relates rows to ids and
  to claims. Ids are drawn once, so no child outlives the meaning of its parent's
  id (`Drawn`); what a claim read of its row's attempts is true while the row has
  its token (`Claimed`). `AttemptCountCurrent` is a consequence.
- `QueueImplementsLifecycle`: each action's `Moves` lemma says how it may change a
  row (turn, charge, finish, go), whatever it does to others; each move is one of
  `JobLifecycle` or a stutter. Premise: the fallback of a quiet-hours skip
  (`worker.ts`) is not used. With it the refinement is false: the fallback of a
  stale claim cancels the row and leaves the newer claim's token in it, and that
  claim's quiet-hours defer, fenced by the token alone, then reopens a cancelled job.
- `SettledChildrenReport`, `LastChildWakes`: each of the transactions that settle
  children is shown to tell their parents and to resolve them in the same step;
  all other actions settle nothing (`OthersStay`). No premise: the exceptions are
  in the definitions (`Unreported`).
- `ParentsWait`: `PInv` adds that no claim is on a quiet-hours path. Premise: no
  pause, retry or quiet hours, which let a parent run before its children settled.
- `AnswersAreTrue`: all actions but add and claim are `Onward` for the fan-out, that
  is, settled rows stay, and a child that settles is told to an open parent with how
  it ended. `FanInv` says that the ids are listed last, so a claim that has them
  finds all children settled (`PInv`), and that its desk and the inbox agree with
  the rows. Premise: no pause, retry, removal or quiet hours: a retried child reports
  twice, and a removed one is not there to compare the answer with.

### The transactions: `FamilyTxProofs`

For any children, calls, games, policies and cap (`FamilyAssumption`).

- `FamilyTxInvariant`: locks held by two calls do not conflict (`Excl`); where a call
  of each kind can be (`Places`); how it holds the parent from its resolve on, for
  update or through the foreign key of a message, unless it found it closed
  (`Parents`); what it wrote, under which lock (`Writes`); whom it told (`Tells`); and
  that what it counted is still true (`Counts`). One lemma per statement, and one for
  the effect of a commit on the calls that are still under way.
- `NoEarlyWakeHolds`, `OneOutcomePerChildHolds`, `EveryOutcomeReportedHolds`,
  `ChildCapHoldsAlways`, `TypeCorrect` follow.
- `NoParentStrandedHolds` has the premise `OneSweep`: of the calls that are made
  together, at most one is a timeout sweep or a cancel of one child. These two do not
  lock the parent before they count, so two of them, of different children, each see
  the other's child open; the finding of `tx_killers` is this case. The games of
  `tx_family` satisfy it.

### The subagent: `SubagentReplayProofs`

For any tools, runs, turns and runs alive at once (`SubagentAssumption`).

- `Inductive`: the conversation has no gaps and its roles alternate (`LogOK`) because a
  run only counts, never skips an index (`RunOK`), and an INSERT at one that is taken
  changes nothing; that much holds however runs overlap. While they do not, the run
  that lives knows the length of the conversation and the rows of the uses it has yet
  to answer, and a use that is not idempotent and about to be executed never was
  (`Alone`).
- `RolesAlternateHolds`, `AnswersMatchHolds`, `NonIdempotentOnceHolds`,
  `SettledNotRerunHolds`, `TypeCorrect` follow. The three in the middle are, like the
  properties, about runs that followed one another; the first is about all.

### Locks and leases: `LocksProofs`

`Projection`: a behaviour of `Locks` is one of each component, so each proof is about
one component. `LocksAssumption` holds its constants' types and worlds.

- *Renewal* (`InvHolds`), for all knobs with `0 < SafetyMargin < LockDuration` and
  `CallTimeout <= LockDuration` (true of the defaults; the environment variables are
  not held to the second): once a renewal was heard of and before the deadline, the
  lease trails the worker's clock by at most one call timeout (`Trails`, `Granted`);
  of the claim's lease nothing is known, because its answer may be arbitrarily late.
  That bounds the overlap so far (`Early`). After the deadline, `Potential` bounds the
  time until the next call can fail, and overlap plus potential never grows
  (`Overdue`). `TypeCorrect`, `FreshWorkerKeepsLock`, `OverlapIsBounded` follow. The
  last gives the number: a handler outlives its row by at most
  `Interval + 2 * CallTimeout` and what it did not know before its deadline
  (`Unaware`): `CallTimeout - SafetyMargin` after a renewal (40 s in all with the
  defaults), and all of `LockDuration - SafetyMargin` on its first lease (60 s).
- *Directory* (`OneWriterHolds`, `BeatingHolderKeepsLockHolds`), any processes: one at a
  time is between two steps of its own, and a holder that was not reaped for its age
  has the directory and its name in the file, or is about to write it.
- *Page file* (`OneEditorHolds`), any tasks and processes: the file carries the PID of
  the task that is in, unless that task outlived the TTL.
- *Row* (`DbOneHolderHolds`), any processes, hosts, TTL and grace: a holder whose row
  did not expire has the row; who is about to delete a row by PID knows of no such
  holder with that PID, and who deletes the very row it read (the reaper, or a
  takeover in a world with races) knows its holder to be dead.
- *Leases* (`CapHoldsThere`), any cap and callers: that the calls with a valid lease are
  at most the cap needs that the rows are, which needs that the count is still true
  at the insert: between the lock and the commit nobody else is in the transaction
  (`RaExcluded`), so rows only go (`RaCounted`). The calls have rows of their own
  (`RaLeased`, `RaDistinct`), so the lease is an injection of the calls into the rows.
- *Supervisors* (`OneSupervisorThere`), any number, `MaxFailures <= TTL` as 3 and 5 are,
  refreshes answered: a supervisor that runs has the row, and the row is no older
  than its failures in a row and the refresh that is due (`SuHolds`): too few for it to
  expire. The PID file plays no part in it: it only spares the second supervisor the
  attempt.
- *One promise* (`LocksAreLeased`): the last five implement `LeasedLock`, by the same
  invariants (and `RaOnlyCalls`: only a call under way is overdue). The mapping takes
  for `in` who acts as a holder, and for `overdue` those of them that lost the lock (a
  supervisor ends before it does); `Cap` is 1, or maxConcurrent for the leases. Of the
  steps that let one in (`PgEnters`, ...) the invariant says that whoever is in is
  overdue, or that the rows counted are fewer than the cap and the calls that count
  are no more than the rows; every other step makes holders overdue (`PgStays`, ...)
  or lets some go (`PgLeaves`, ...). The invariants of the single locks say who is in
  at a time; the refinement adds that a holder that lost its lease does not get it
  back while it is in, and that nobody gets in beside a holder that loses its lease
  only afterwards.

### Worker, facts queue, sync: `ServicesProofs`, `SyncProofs`

- `KillsWhatItJudgedHolds` needs that the counter of wedged checks never runs ahead of
  the checks that found *this* worker wedged (`CwJudged`), and that a restart is
  about the worker that runs only if that one got the SIGTERM (`CwCaptured`).
  `GivesUpOnCrashesOnlyHolds` needs that an exit counts as intentional exactly when
  the worker that exits had a signal of the health check (`CwCounted`).
- `SessionsInOrderHolds`, `TeardownIsQuietHolds`: pending holds a session's jobs from the
  oldest to the newest (`FqOrdered`), and is empty from the end of the drain on, when
  only jobs that overran the grace still run (`FqQuiet`). The drain ends with
  nothing pending and nothing in flight, or in the shutdown, which drops what is
  pending.
- `SyncTypeCorrect`, in all worlds: the bookmark, checkpoints and ledger rows name
  commits there are (`SyInv`, `Booked`), what is indexed was in a tree (`Written`),
  and what waits for a flush was marked as done (`Banked`).
- `SkipsFollowBookmarkHolds`, in all worlds: a row is marked only after this run moved the
  bookmark to its pin, and the rows it marks carry that pin.
- `NothingMissedHolds`, in worlds that are `Benign`. The difficulty is that imports read
  the working tree while everything is booked under the pin. While history is a line
  (`History`) a file that never gets back an earlier content is the same at two
  commits only if it is the same all between. So a page written from a tree after the
  pin is right for the pin as far as anybody can tell: HEAD still has that content, or
  a later diff will show the file (`Up`; `Shown` allows for a ledger row instead). The
  invariant (`Kept`) says of which files this holds: all, for the bookmark of an idle
  sync (`Base`); those the diff does not show and those banked, for a bookmark with a
  checkpoint (`Resumable`); and those no longer waiting in a run's lists
  (`Drains`, `Walks`). A rewritten history promises nothing, in the property too.

### Only model-checked

- All liveness (`JobsComeToRest`, `FanOutIsAnswered`, `CallsEnd`, `GivenUpIsReclaimed`,
  `LocksOpen`, `SyncCatchesUp`, `ServicesMoveOn`): fairness and ENABLED are out of the
  prover's reach.
- What is violated in the violation runs, and with it `GatewayReplay`, whose one
  property is violated.

## 6. Not modelled

Beside what each module's section leaves out:

- *Fan-out*: listing, showing and following jobs read only.
- *Locks*: `--force` and `--max-age` of break-lock, rows from before the column
  last_refreshed_at, the up to 3 s a signalled process still runs; page-lock's
  refresh, which nobody calls.
- *Leases*: the cap controller (`controllerTick`) and `renewLeaseWithBackoff`,
  which nothing in `src/` calls. The gateway path of the subagent takes no lease.
- *Supervisor*: the registry of workers, the lengths of the backoff, reused PIDs,
  the worker that outlives a killed supervisor.
- *Sync*: clone and pull, a detached HEAD, the chunker-version gate, which files
  are syncable, renames with changes, the path without a source id, embedding and
  extraction after the sync, the ledger file's own lock.
- *Budgets*: nothing in `src/` calls reserve, settle, refund and halt, so there is
  no order of calls to translate; the client's meter counts cents in one loop.
- *Ingestion daemon*: nothing in `src/` constructs it.
- *Worker pool, retry, maintenance cycle*: loops within one thread with no state
  that outlives a call; the cycle's lock is `DbLock`.
- *Engines, schema, migrations*: their tables are modelled where the code above
  uses them. *Operations, MCP, CLI*: decoding and dispatch. *Search, extraction,
  evaluation, skills*: ranking and text, whose correctness is no question of
  states. *hydrabrain*: a thin client of a service. Most of the repository's lines
  are in this group, so the modelled share of all lines is small, while it is most
  of the code that coordinates.

## 7. Plan

Done: the queue at transaction grain, the family at statement grain, the fan-out,
the renewal clock, both subagent loops, the locks and leases, the supervisor with
its worker, the sync, the facts queue; the refinements of `JobLifecycle` and of
`LeasedLock`; proofs of all safety properties of the passing runs.

Next, in this order:

1. `GatewayReplay`: that the outcome told for a call is its own, over indices
   with gaps, with its invariant; `SubagentReplay` with overlapping tools that are
   not idempotent and the worker's grace eviction.
2. `SelfFix` over `MinionQueue`: the bound on the depth of a chain, beside retry.
3. The OAuth provider's rotation of refresh tokens beside a revocation.
