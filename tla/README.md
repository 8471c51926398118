# A verification project for gsbench and gstop

The repository holds two Go programs for openGauss/GaussDB: **gsbench**, which
puts controlled load and controlled faults on a database and promises to take
every fault back, and **gstop**, a terminal monitor with alarms and emergency
actions. This directory models the parts of them whose correctness depends on
the order of things: crashes, failed calls, late statements, several processes
on one schema, goroutines around shared counters. Paths below are relative to
`src/internal/`, and lines are those of the modelled commit. `PROJECT.json` maps
every definition to the lines it stands for.

## 1. Inventory

### gsbench

| Component | State it keeps | Operations | What makes it correct |
|---|---|---|---|
| Recovery ledger (`gsbench/recovery_ledger.go`) | one JSON file of unrestored and restored actions, a lock file, a mutex per path | `Put`, `MarkRestored`, `Pending`, `Snapshot` | an acknowledged call survives a power loss; nothing is forgotten or moved back; the file stays readable |
| Mutation journal (`journal.go`, `sqlstore.go`, `model.go`) | rows of `meta_journal`, the changed targets | `ApplyAction`, `restoreActions`, `ClaimAction`, `SetState` | a changed target always has an unrestored row; restoring converges |
| Commands and advisory locks (`app.go`, `app_plan_phases.go`, `run_lock.go`, `session_advisory_lock.go`, `plan_control.go`) | lifecycle, run, plan, restore and activity locks in sessions of their own; `meta_runs` rows | `init`, `run`, `run N init`, `run N fault`, `stop`, `cleanup --data` | the schema is not dropped under a command; one plan workload at a time, whose row says so; stop reaches a run |
| Restore coordinator (`restore.go`, `restore_health.go`, `recovery_plan.go`) | two sources of pending actions, the restore lock | discover, drain, claim, dispatch, mirror | the database and the ledger end up saying the same; nobody else restores |
| Worker groups (`workers.go`, `fixed_workers.go`, `scenario_common.go`) | goroutines, atomic counters, a start gate, a deadline | `SetTarget`, `WaitReady`, `SetRunDeadline`, `Stop` | every worker ends, the peak is exact, every session is closed |
| Runner (`runner.go`) | a barrier over the scenarios, deadlines | `Run`, `runOne` | all start together or none waits forever; cleanup happens on every path |
| Load controller (`controller.go`, `safety.go`, `advisory.go`) | target, streaks, ceiling | `run`, `RunToMinimum` | stays in range; reports a ceiling rather than oscillating |
| Lock scenarios (`lock_*.go`, `scenario_locks.go`) | holders and waiters of real database locks | prepare, contend, release | the intended wait graph forms and dissolves |
| Pool, memory, thread, vacuum, SQL load scenarios (`scenario_*.go`, `resource_workloads.go`, ...) | sessions, journalled settings | ramp, hold, stop | what they change is journalled; sessions do not leak |
| Plan scenarios (`scenario_plan.go`, `plan_*.go`) | plan dataset, baseline and degraded plans | baseline, fault, verify | the fault is verified and journalled |
| Dataset initialization (`dataset*.go`) | tables, checkpoints of the load | init, resume | resuming neither skips nor doubles rows |
| Fault providers (`provider.go`, `action.go`) | external commands | apply, restore | the journal sees both |
| Database, evidence, status, output (`database.go`, `evidence.go`, `status.go`, `runlog.go`) | tagged sessions, evidence rows | connect, terminate, report | only tagged sessions are touched |

The components interact through the database and the file system, not through
memory: a *run* records actions in the journal, the journal's executor changes
the targets, and the ledger mirrors what must be undone even when the database
is gone. The *commands* are separate processes that meet in advisory locks and in
`meta_runs`. Inside a run, the *runner* starts *scenarios*, which own *worker
groups* and sessions and go through the journal for what they change.

In this version the production commands never construct the restore coordinator:
`restore` and `run N recover` display the recovery SQL, and only tests run it.
The journal, the stop path and every lock acquisition are in production use
(`app_plan_phases.go:415`, `resource_workloads.go:173`, `scenario_plan.go:216`,
`scenario_threads.go:164`, `scenario_vacuum.go:82`, `scenario_hardparse.go:349`).
The models of the ledger and of restoring describe the code as it stands and as
its tests run it.

### gstop

| Component | State it keeps | Hard behaviour | What makes it correct |
|---|---|---|---|
| Application and refresher (`app/*.go`) | a slot per panel, a hook, exit requests | single flight, an exit at any step | the exit is always reached, and nothing runs when it closes what is used |
| Monitor (`monitor/*.go`) | samples and caches between refreshes, rows with sessions | a refresh that fails half-way; rows older than the server | what is shown is of one moment; a kill is about the session chosen |
| Health dashboard (`healthdash/*.go`) | fast, slow and memory snapshots, detail jobs | results of different age, patches in any order | no older result over a newer one; the page ends complete |
| Emergency handling (`emergency/*.go`) | history, baselines, captures, live and published results | analyses beside the screen; kills from rows read earlier | one analysis shown at a time; only the intended sessions end |
| Connection (`dbconn`, `dbcompat`) | one pool with its health, a mutex | hanging server, deadlines, shutdown | every call returns; one stream at a time |
| Alarms, health file, persistence, logging | suppression windows, heartbeat, rotating files | a window consumed before the write; rollovers that fail | a lasting breach is written; no row is lost but by retention |
| SQL shape (`sqlshape`), configuration, models, terminal, OS commands | none or static | pure data and I/O | |

The main loop draws and handles keys, a goroutine pumps the terminal's events, one
goroutine per slot refreshes a panel over the one connection, and the hook after a
refresh hands its snapshot to the emergency dispatcher, whose scenarios run in
parallel. The exit, from a key or a signal, cancels all of them and waits.

## 2. Plan

The order was that of the harm a mistake would do: first what decides whether an
injected fault can be undone, then what keeps commands apart, then the loads,
then the monitor. All of it is modelled and checked; the proofs follow the same order,
and the table says how far they are.

| # | Modules | State |
|---|---|---|
| 1 | `DurableLedger` (abstract), `RecoveryLedger`, `RecoveryLedgerProofs` | checked; refinement and safety proved |
| 2 | `WriteAheadFaults` (abstract), `Journal`, `JournalProofs` | checked; refinement and safety proved |
| 3 | `RestoreCoordinator`, `RestoreCoordinatorProofs` | checked; safety proved |
| 4 | `CommandLocks`, `CommandLocksProofs` | checked; both safety properties proved for any number of processes, any `application_name` and any lock sessions lost |
| 5 | `WorkerGroup`, `WorkerGroupProofs`, `FixedRun`, `ScenarioRuns`, `GsbenchProofs` | checked; safety proved for any number of workers, lanes and scenarios |
| 6 | `LoadController`, `WorkMemCalibration`, `Dataset`, `GsbenchProofs` | checked; safety proved for any configuration, memory, limits and tables, but that `Run` finds a steady system in time |
| 7 | `LockEngine`, `LegacyMigration` | checked; safety proved for any layouts (`GsbenchProofs`) and any columns (`RecoveryLedgerProofs`) |
| 8 | `DbGateway`, `HealthCollector`, `DetailPipeline`, `DetailRequests` | checked; safety proved (`GstopProofs`) |
| 9 | `GstopRefresher`, `SelectionView`, `EmergencyPanel`, `EmergencyKills` | checked; safety proved (`GstopProofs`, `EmergencyProofs`) |
| 10 | `DbPanel`, `DataLogFiles`, `DetectionWindows`, `InstancePanel` | checked; safety proved (`GstopProofs`, `EmergencyProofs`) |
| 11 | `BlockAnalysis`, `PlanChange`, `EventPanel`, `AlarmPolicy` | checked; safety proved (`GstopProofs`, `EmergencyProofs`) |

No module that is proved about, or may be, has a RECURSIVE operator; each has one
action per operation, named assumptions on its constants and invariants that are
conjunctions of named parts.

## 3. The modules and the code

### RecoveryLedger

Threads of several processes call one ledger file. `visible` is what opening the
name gives, `durable` is what a power loss leaves. A writer goes through
`Enter` (process mutex, `recovery_ledger.go:792`), `LockFile` (flock), then reads,
`Write` (`Put` or `MarkRestored`: temporary file written and synced), `Rename`,
`SyncDirectory`, and `Leave`; a call that changes nothing still syncs the
directory before it acknowledges (the point `"resync"`). Each may fail
(`FailBeforeRename`, `SyncDirectoryFails`). `Snapshot` stands for `Pending` and
`Snapshot`: mutex only, no flock. `ProcessDies` frees mutex and flock and leaves
the directory; `PowerLoss` takes everything back to `durable`; `WriteBack` is the
kernel syncing early. The trust checks on paths and owners are one failure before
the rename. Payloads are opaque: two calls agree on one or conflict
(`sameRecoveryLedgerAction`). `promised` and `reported` are history.

`DurableLedger` is what a caller is promised, with no file, lock, thread or
crash: a crash must be a stutter of it.

### Journal

One run applies actions 1..N in order with `ApplyAction` (`InsertPlanned`,
`Apply`, `MarkApplied` and the failure of each, with the outcome of a failed call
either way); restorers go through `restoreActions` from the last action to the
first (`Claim`, `AlreadyRestored`/`NeedsInverse`, `Inverse`, `Verify`,
`MarkRestored`, `MarkRestoreFailed`, and their failures). `late` holds statements
that the server still executes after the client gave up. `Drained` is what the
coordinator establishes before it restores: it marks the run as stopping, and
`StopTaggedSessions` returns nil only when no session of the run is left. The
restore lock is the constant `RestoreLocked`: the coordinator holds it, the
journal itself takes none. `NonRepeatable` actions are those whose inverse fails
on a target that is restored already (`SkipInverseWhenRestored`).

`WriteAheadFaults` is the promise: recorded before it can exist, forgotten only
when nothing is left of it.

### CommandLocks

Each process executes one command. Every advisory lock sits in a session of its
own (`session_advisory_lock.go`); `held` is the set its living lock sessions hold,
so a lock can be lost without its process noticing (`LoseSession`), and outlives
a dead process until the server notices (`Reap`). Program points are prefixed by
command: `pi_` for `run N init`, `f_` for `run N fault`, `c_` for `cleanup`. A
plan probe (`pi_probing`, ...) takes the activity lock for a moment and gives it
back, as `run_lock.go:248` does. `row` and `started` are the process's row in
`meta_runs`; `Newest` is what a fault resolves. `stop` and `cleanup` write
`stop_requested` and terminate tagged sessions. `LockSessionsTagged` says whether
lock sessions match the `gsbench/%` pattern of that termination: they do when
`application_name` is the shipped `gsbench`, because the lock session appends
`/advisory-lock` (`run_lock.go:173`). `bereft` is history: the processes of which a
lock session ended, dropped by the server or terminated by somebody's `stop` or
`cleanup`, before they released it.

### WorkerGroup

One group of `workers.go`: the owner's calls (`SetTarget`, `WaitReady`,
`SetRunDeadline`, `OpenGate`), the stopper (`StopMarks`, `StopCloses`,
`StopReturns`), the timer and the workers, one action per atomic operation of
`runWorker` and `updatePeakActive`. The one-slot state channel is `token`.
`closeInjection`'s three atomic operations are one step, and so are the decrement
and the notification with which a worker leaves. The check of the deadline and
the start of the operation are two: an operation may start after the deadline,
and `DeadlineEndsWork` is what is left of the promise. The target equals the number of
slots and has no variable; the counts of operations, errors and latency are left
out. `highest` is history.

### RestoreCoordinator

`Restore` of `restore.go` over the table and the ledger, with the stages Control,
Config and Sql in the coordinator's order. The database may be down at the start
(then only the control stage is restored, from the ledger), any call may fail
before or after it took effect, the coordinator may die at any step, and the
session of its restore lock may be dropped, after which a coordinator on another
host, with the table but without this ledger, works beside it. Each mirror's row,
the targets, the plan of the pass and the report are variables; `CoordinatorSafety`
collects what a mirror may say: restored only of a clean target, no tombstone taken
back, no inverse without a record of it, success only when nothing is left.

### ScenarioRuns, FixedRun, LoadController, WorkMemCalibration

`ScenarioRuns` is `Runner.Run` and `runOne`: preflight, Prepare, the barrier, Ramp,
Hold, Verify, Stop and the report of every scenario of a run, with the context of
the run and the one with its duration; nine kinds of scenario stand for the
registered ones, each with the sessions and goroutines it counts. `FixedRun` is
one run with a fixed number of workers: the lanes behind one gate, one deadline, one Stop that
may give up while `stopAll` goes on, and the verdict read from snapshots or live
groups. `LoadController` is one sample after another of `Run` and `RunToMinimum`;
what is measured is a steady system of some gain or any noise. `WorkMemCalibration`
is the doubling and bisecting search of scenarios 201 and 202 over systems whose
memory grows linearly in steps.

### LockEngine

The server's lock table of one scenario (`server`: who holds, wants, was granted or
failed) and `engine` with its Prepare, Ramp, capture of the waits, Hold, Verify and
the Stop in two joins. Topologies are chains, direct waiters, commands and the
deadlock of two, where the server picks the victim.

### Dataset, LegacyMigration

`Dataset` is `init` and `cleanup --data`: finding or creating the schema, the marker,
tables, migrations in batches, batches of rows with their high-water marks, indexes,
the size calibration and the version. A stop anywhere (failed statement, lost reply,
killed process) leaves the catalog and the next init resumes. `LegacyMigration` is
the list of statements that `MigrateLegacyDatasetObject` makes from the columns it found, run one
by one, for each of the three tables it knows. Those of the journal and of the plan cache bring
the columns of an old layout to their formal names. A column of `meta_batches`
is added, filled and required only while it is missing, so that an init that stops in between
leaves it to nobody: `torn` is the history of such columns.

### DbGateway, HealthCollector, DetailPipeline, DetailRequests

`DbGateway` is every call of gstop through one mutex, one pool and one connection:
ensure with its throttle and ping, the detection of the server's kind, statements,
the loop over databases, deadlines, the exit's cancel and Close; a server that
answers, refuses or hangs. `HealthCollector` has the three single-flight refresh
classes that publish into one snapshot, with the baseline of statement counters that may be
reset. `DetailPipeline` is `LoadStream` and the merge of its patches,
`DetailRequests` the page's loader, its bounded channel and the exit.

### GstopRefresher, SelectionView, EmergencyPanel, EmergencyKills

`GstopRefresher` is the scheduler with its slots, the hook after a refresh, exit
requests from two goroutines, the data logger's own goroutine and the cleanup.
`SelectionView` is the input pump, the loop that reads keys, the session and memory
views with their sub-views and prompts, while the server's sessions change. The list on the
terminal is not a variable: the session chosen is the row under the cursor when the key is handled,
and a refresh may have published other rows since the list was drawn.
`EmergencyPanel` is the dispatcher's two sides: Main, which analyses and publishes,
and the screen, which draws, persists and remedies under `TryLock`. `EmergencyKills`
is what the scenarios and the operator end on the server, from rows read earlier. The
anonymous block behind the kills by SQL id is a lookup (`BlockOpens`: the threads of the statement,
or only those active in a transaction over the time) and then one thread after the other,
by its thread alone (`BlockEnds`, `BlockSkips`), while sessions go on and take threads over.

### The panels and detections

`BlockAnalysis` is the walk for deadlocks in any map order. `PlanChange` is the
regressions over the bounded history: the hot statements of a refresh are evaluated one by one, and
both the samples and the baselines have room for `MaxSnap` snapshots, made at the cost of the oldest.
`DetectionWindows` is the streaks of PerformanceJitter and the windows of SlowSQL.
`InstancePanel`, `DbPanel` and `EventPanel` are the panels that keep samples, rates or caches
from one refresh to the next. `AlarmPolicy` is the decision to report and the write
after it, `DataLogFiles` the rollover, compression and retention of data logs: names made in
one second are one name, and each deletion of a backup may fail alone.

### MCProgress and MCComponents

The components of the last five sections run in one TLC model each: `MCProgress` those
somebody waits for, `MCComponents` those whose interest is in what they compute and
keep. The variable `part` is chosen once and says which component a behaviour is
about; the others rest in an initial state. The components share no variable, so
interleaving two of them would add states and no behaviour of either; where two of them
meet in the code, the meeting is inside one module (the exit, which ends loaders,
refreshes, hooks and calls, is an environment step of each that it ends). Each
component also has a specification of its own (`GatewaySpec`, `DatasetSpec`, ...).

## 4. Runs

| Run | Instance | Shows |
|---|---|---|
| `RecoveryLedger` | 3 threads in 2 processes, 3 identities, 2 payloads, a diagnostic, room for 2 actions | `LedgerSafe` (order of the copies, acknowledged calls survive), `NeverUnreadable`, `ReadersSeeLegalChanges` and the refinement of `DurableLedger`, with crashes and power losses at every step |
| `RecoveryLedgerReader` | 2 threads | violation: `Snapshot` can return a tombstone that is not durable yet |
| `Journal` | 3 actions, 2 of them non-repeatable, 1 restorer, 4 failures | the refinement of `WriteAheadFaults`; `Converges` under fairness |
| `JournalUnlocked` | 2 actions, 2 restorers without the restore lock, 2 failures | `JournalSafe` does not need the lock; `ClaimExclusive` is what the compare-and-set gives alone |
| `JournalDoubleInverse` | 1 action, 2 restorers, no restore lock | violation: the compare-and-set admits a second claim of a row read as `restoring` |
| `RestoreCoordinator` | 2 runs, an action of each stage, 2 failures, crashes or losses | `CoordinatorSafety`; `Converges`: repeated restores finish once failures stop |
| `CommandLocks` | any 3 commands, 1 plan scenario, 1 failure or dead process, 1 lost lock session | `DropMeetsOnlyBereft`: cleanup drops the schema beside a command only if one of the two lost a lock session; `CommandsApart`: a live workload keeps its row, a fault its workload, mutators do not meet, a probe never refuses |
| `CommandLocksLive` | any 2 commands, 2 plan scenarios, 1 failure, 1 lost lock session | `StopReachesRuns`, `StaleWorkloadEnds` under fairness |
| `CommandLocksShipped` | a run and a cleanup, lock sessions tagged | violation of `DropAlone`: cleanup terminates its own lock session and every run's lease |
| `WorkerGroup` | 2 workers, targets 0..2 | `WorkersSafe`: exact counts, nothing after Stop; `WorkersEnd`: whoever waits for workers is released |
| `Progress` | ten components, below | what each promises, and `WaitsEnd`: nobody waits in vain |
| `Components` | fourteen components, below | what each promises |

The properties of the last two runs are named for the component; each is the
conjunction of the named parts defined before it in that module:

| Property | Parts |
|---|---|
| `ScenariosSafety` | no scenario is past the barrier while one prepares; a clean end leaves no session or goroutine; a cancelled or failed run is never reported as a success |
| `FixedSafety` | no operation before every lane knows its deadline; success only when nothing is running and nothing failed; a clean Stop closed every session |
| `LockSafety` | the waits on the server are those the topology asks for; a deadlock is reported only if the server broke one; a blocker keeps its locks while somebody waits for it |
| `GatewaySafety` | one result stream at a time; nothing sent after the exit's cancel; a deadline does not make the server unhealthy |
| `CollectorSafety` | the baseline is never ahead; memory never goes back to an older sample; the flag "refreshing" is shown only while one is; nothing runs after Stop |
| `PipelineSafety` | tables shown belong to the plan shown; a complete page shows the best plan and a diagnosis made with all evidence |
| `RequestsSafety` | patches in order, of the open page only; at most one loader not cancelled; the exit leaves none |
| `RefresherSafety` | a success is not forgotten; nothing runs when the cleanup closes what it uses; no logger is left running |
| `PanelSafety` | all results shown are of one analysis; the plan kill is about an id held live; no snapshot is logged twice |
| `SelectionSafety` | a confirmed kill ends the chosen session and no other; a holder killed blocked the chosen session after the confirmation |
| `ControllerSafety` | range and types; a ceiling is reported only after the samples that earn it; a steady system in reach is found |
| `CalibrationSafety` | no size is probed twice; the result is usable and the nearest below; a band in reach is found |
| `DatasetSafety` | high-water marks are rows; a version means migrated rows; a load keeps to the target; foreign schemas are untouched; batches advance |
| `LegacySafety` | no value is lost before its new column has it; at the end the table is current, but for columns of the batches torn by an init that stopped |
| `BlockSafety` | the deadlocks found are exactly the cycles, once each; alarms are for roots |
| `PlanSafety` | a surge that lasts fires at every evaluation while its baseline is kept; a baseline goes with its event, or as the oldest to make room for another that fires; events and baselines agree; room for samples costs the oldest only, and at least `MaxSnap - 1` snapshots stay |
| `KillsSafety` | a sweep by state ends only sessions at rest, whitelists hold, and none that rested all along is left; SlowSQL ends the very session it saw; a block ends, of the sessions there were when it looked, only those it found, each thread once |
| `WindowsSafety` | each strategy inspects in time; streaks are exact; what fired is shown |
| `InstanceSafety`, `DbPanelSafety`, `EventSafety` | rates are of real work over real time, miss none and go on from one another; caches match the panel and the shared gate's pace, also after a refresh that was undone; header, rows and shares fit one sample |
| `AlarmSafety` | a lasting breach is written; reports are apart; each has its evidence |
| `DataLogSafety` | no row is lost but by retention, a failed write or copy, or a name used again; a backup older than a deleted one could not be deleted, and is tried again |

**Bounds and why they are enough.** Two writers of a ledger are the least that can
overwrite each other, the third lets one wait on the mutex and one on the flock; the
third identity overflows a ledger with room for two. The constraint `PlainLedgers`
of that run lets two payloads conflict on one identity only, and `SYMMETRY` exchanges
payloads, identities and the two threads of one process; its properties are safety properties, for
which that is sound. Three actions give restoring a first, a middle and a last;
four failures allow one in the run, one in each of two restore attempts, and one
more. A hazard of the lock protocol needs two commands, and a third that interferes
is in the run; one plan scenario makes every two of its commands meet. Two workers are the least for a lost peak. In `Progress` a scenario
of every kind runs alone with two sessions, and one of fixed workers beside a `VACUUM`;
that what was found holds of any set of scenarios is proved (section 5). In `Components` the dataset has three tables, one without weight and one that was
migrated; controllers take every gain that over- and undershoots their step; blocking
graphs are all those of four rows. Plan regressions have three statements and room for two
snapshots: two baselines in two of them, and a third statement that fires, evict one whose event is open,
on the seventh refresh at the earliest. A refresh samples at most two of the statements, and
behaviours in which two refreshes come at one moment end after five (`FewAtATime`). What is lost only because
there is no room is proved to stay where there is (`EventsAreJudged`, section 5). Kills have two threads, so that a block has
one to end while the session of the other changes or is replaced, and one scenario that sweeps by
state, beside `SlowSQL` and the operator: what the sweeps of a second one do to its sessions, their own end
does as well. Since statements and threads are alike, the first samples are taken in
one order (`FirstInOrder`) and the first session comes to thread 1. Files of the data log have few names but may take
the same one any number of times. Clocks run well past every window. In `Progress` the ten components are as small as lets each step of
theirs still happen, because the check of liveness keeps the whole graph: the
selection is smaller there than in `Components`, where its safety is checked.
Which component a behaviour is about never changes, so the fairness of all components is
stated together, the k-th fair action of each in one condition. The `MC` modules and `.cfg` files name every bound.

**Deadlock.** It is checked for the ledger, where somebody can always call, and for the
coordinator, which can always be started. All others come to an end by design, and their configurations say
`CHECK_DEADLOCK FALSE`; that they end where they should is what the liveness
properties say.

**Fairness.** Weak, and only of steps that the scheduler, the server or a loop of
the code takes without anyone's decision: goroutines and processes that can take
a step take it; the server ends every statement it started, except in `DbGateway`,
where it may hang and only the call's deadline ends it; whoever restores
tries again while rows are pending (the operator repeats the command). In the
components of `Progress` one weak condition covers a group of goroutines; it is implied
by a condition for each of them, so what holds under it holds with a scheduler that is
fair to each. Strong fairness is assumed where a goroutine competes for a mutex
(`LockGateway` and `MarkUnhealthy`: a waiter of `sync.Mutex` gets it after a
millisecond at the latest), of the operator's way out of the emergency panel
(`BackToMain`: whoever asked for the exit does not type for ever), and of the operator who
starts a restore again whenever one can be started (`BeginAll`).
Nothing is assumed of the duration of workloads and
analyses, of failures, or of an operation of a worker whose context is not over.
`StopReachesRuns` speaks of runs whose row was written: a run that failed to record
itself is ended by the termination of its sessions.

**Passing and violated.** A lock that the server has dropped with its session
protects nobody, and no code notices before the release. So the exclusion of commands is a
property of the processes that keep their lock sessions (`bereft` names the others), and this is
checked with a lost session and proved for any number of them. `CommandLocks` has
`LockSessionsTagged = FALSE`, an `application_name` other than `gsbench`; with the shipped
name the theorems hold as well, but cleanup makes itself bereft on its way to the drop, and the
exclusion that the code is after, `DropAlone`, fails (run `CommandLocksShipped`).
`CommandLocksLive` shows what ends a workload that lost its lock. In the same way
`LegacySafety`, `PlanSafety`, `DataLogSafety` and `KillsSafety` say what holds
although a column may be torn, a baseline evicted, a backup replaced or a thread
taken over; where a comment or a document says more, section 6 names it.

## 5. Proofs

TLAPS checks these theorems for every value of the constants that the named
assumptions of the modules allow. An assumption types a constant and says what the
code does: a bound is a number, a configuration is one that
`normalizedControllerConfig` made or the validation of the configuration let pass (`Strategies`,
`slow_sql.go`), each rate has one cell (`configs/monitor/instance.cfg`). The
failures allowed, the clocks and the other bounds of section 4 are constants too, so that the
theorems hold for each of their values.

Every safety theorem has the same shape: an inductive invariant holds at the start, one lemma for
each action or group of actions says that the action keeps it, and it implies the property. What the invariant
adds to the property is the argument, so it is named here.

**Recovery ledger** (`RecoveryLedgerProofs`).

* `LedgerSafety`: `Spec => []LedgerSafe`, with `LedgerSafe` the conjunction
  of `TypeOK`, `CopiesInOrder` and `AcknowledgedSurvives`.
  The inductive invariant is the conjunction itself. `AcknowledgedSurvives` alone
  is not inductive: that a later rename cannot take an acknowledged stage back
  needs the three copies in order and the flock held from the read to the rename,
  which is `CopiesInOrder`. The lemmas say that a call keeps what the file held
  (`PutKeepsLedger`, `MarkKeepsLedger`) and that order is transitive.
* `LedgerImplementsDurableLedger`: every step maps to a step of `DurableLedger` or
  a stutter; a power loss stutters because it leaves `durable` as it is.
* `LedgerStaysReadable`: the limit holds of all three copies (`LimitInv`).
* `ReadersSeeOnlyLegalChanges`: the action property `ReadersSeeLegalChanges`. Only the rename changes
  what a reader sees, and what it is going to install differs from the file of that moment by
  one legal change (`StagedIsLegal`): no other writer renames between the read under the flock and
  the rename.

**Legacy tables** (`RecoveryLedgerProofs`).

* `LegacyValuesSurvive`: `LegacySafety` for any columns, wherever the inits stop. Of the journal
  and the plan cache `LegacyInv` says (`ReplacedInv`) that a column that is gone has left its value in
  the formal one (`RowsKept`), and of what is left of a list (`LegacyComing`) that each of its statements fits the table, that a column it will drop is copied
  before (`WillHold`), and that it ends at the current shape (`ShapeComing`). That the list
  made from any table is such a list (`WholeList`) needs where the parts of a `FlattenSeq` lie
  (`FlattenJoins`, by the least number of parts at which it would fail); that it stays one is shown for each
  statement (`ExecutedComing`). Of the batches it says (`BatchesInv`) that each column is required, torn by an
  init that stopped, missing between two inits, or about to be required by what is left of the
  list. Assumed: no two columns of a table have one name (`LegacyAssumption`).

**Journal** (`JournalProofs`).

* `JournalSafety`: `Spec => []JournalSafe`, that is `TypeOK /\ WriteAhead`. `WriteAhead` is strengthened
  by three facts (`JournalInv`): an action being applied has a row
  (`RunRecorded`); a restorer past the drain has no run and no late forward
  statement beside it (`RestoringDrained`); at the final update the target has
  been seen at its baseline (`MarkedAtBaseline`). No assumption on the restore
  lock is needed.
* `OneClaimSucceeds`: `ClaimExclusive`, with or without the restore lock. It needs that
  a claimed row shows no state of the run any more (`ClaimedRows`), since the
  compare-and-set compares with what the restorer read.
* `JournalImplementsWriteAheadFaults`: each step records, injects, repairs or
  forgets at most one action.

**Commands and locks** (`CommandLocksProofs`).

* `DropIsAlone` and `CommandsStayApart`: `DropMeetsOnlyBereft` and `CommandsApart` for any number
  of processes that fail and die at any step, with any `application_name` and any number of
  lock sessions that the server drops; nothing is assumed of the constants. `CommandsInv` says that two
  processes never hold locks that exclude each other (`LocksExclude`), that a process is at the
  points of its own command (`PointsOfCommands`), which locks cover it at each of them unless it
  is bereft (`LocksCover`), what its row can say at each point (`RowsOfCommands`), and that
  nobody can become active between a probe and the update that marks rows stale, as long as nobody is
  bereft (`NobodyActiveWhileMarking`).

**Restore coordinator** (`RestoreCoordinatorProofs`).

* `CoordinatorIsSafe`: `CoordinatorSafety` for any actions, runs, failures and deaths, also
  beside the coordinator of another host. `CoordinatorInv` adds that a target nothing is
  recorded about is clean (`UnrecordedIsClean`), what a plan knows of its actions
  (`PlanSound`), that the claim of the action in hand is in a mirror or
  another host has restored it (`ClaimRecorded`), that what is about to be written is true
  (`OutcomeSound`), and that a run that was verified has nothing pending again (`MarksVerified`).

**Workers and runs** (`WorkerGroupProofs`, `GsbenchProofs`).

* `WorkersAreSafe`: `WorkersSafe` for a group of any size. Each atomic counter is the number of
  workers at certain points (`CountersOK`, by cardinalities), and the highest value ever
  counted is in `peak` or in the hands of a worker that has yet to store it (`PeakOK`): the
  reason why the loop of `updatePeakActive` loses nothing. `StopOK` is the same for Stop.
* `RetiredGoThroughHook`, an action property: a worker retired while it lived leaves by
  the retire hook, which closes its session.
* `ScenariosAreSafe`: `ScenariosSafety` for any set of scenarios. `ScenariosInv` says of each one
  what its point, goroutines, sessions and error have to do with one another (`Sound`),
  and of all of them where the barrier divides them (`BarrierInv`).
* `FixedRunIsSafe`: `FixedSafety` for any lanes and crew, from `LaneSound` of each lane
  (a snapshot is taken of workers that are over) and `FixedSound` of the verdict.

**What drives the load** (`GsbenchProofs`).

* `CeilingIsTrusted`: of `ControllerSafety` the parts `ControllerTypeOK` and `CeilingIsEarned`, for any
  configuration and over any system. `ControllerInv` keeps the
  counters within their limits, a bracket among the numbers of workers tried, and
  each counted sample at the ceiling among the latest in a row that fell short with
  `MaxWorkers`; several branches leave that counter alone, and they are taken only when it is 0.
* `SteadyIsNeverRefused`: of the third part, `SteadyIsFound`, that the verdict is never that the ceiling is too
  low, and in `RunToMinimum`, which has no limit of samples, no other than `reached`. A step that ends `Run`
  at the ceiling leaves the history `atTop` above 0 (`CeilingIsEarned`), so it saw `MaxWorkers` fall short,
  and then no fewer workers are in the band (`YieldGrows`, `ShortIsOutOfReach`).
  The rest of `SteadyIsFound`, that `Run` has enough samples, is not a theorem:
  it is false where `MaxSamples` is too small for the range and the step, and how many samples
  are enough is a bound on the length of the search, which TLC checks for the shipped shape.
* `CalibrationIsSafe`: `CalibrationSafety` for any `work_mem`, slope, step and limits. `CalibrationInv`
  says that below `low` everything takes too little memory and above `high` too much (`Excluded`, from
  `MemoryGrows`), that all readings lie outside of the two, and that no reading was nearer
  to the band than the one kept (`Nearest`). So when the two cross, nothing was missed.

* `DatasetIsSafe`: `DatasetSafety` for any tables, sizes and batches, wherever the inits stop.
  `DatasetInv` has a part about the database alone, which holds whoever left it
  (`CatalogSound`: marks count rows, a marker means that the schema is gsbench's, the mark of a
  migration and the version tell the truth), and parts about the init that runs: that it goes on
  only with a schema of its own (`OwnedBy`), which rows it has migrated (`MigratedBy`), and that
  the batch in hand starts after the rows there are and the size it works with is the real one
  (`LoadedBy`). That a batch does not pass the target needs the size as a sum over the tables: `RunningTotal`
  and `SumGrows` prove what `SumOf` yields for every list, by the least index at which it would fail
  (`LeastIndex`), since no induction theorem can be used. Assumed: the tables of the plan are
  distinct (`datasetBatches`), and row and batch sizes are positive.
* `BlockersOutlive`: `LockSafety` for any finite choice of layouts, with any number of sessions and any depth
  of a chain (`LockConstants`). `LockInv` says what each session may hold and want (`WaiterPlaces`,
  `HolderPlaces`), that no lock has two holders (`LocksApart`, from `RowsOfChain`: the rows
  of a chain, computed with quotients and remainders, are distinct), and that everybody keeps the locks of the
  definition until something fails (`SteadyLocks`), so that a session that waits does so for its blocker
  (`BlockersHold`). That `Stop` frees nothing under a waiter rests on `Phases`: the holder's
  context is cancelled only after the last waiter has been joined.

**gstop: pages and goroutines** (`GstopProofs`).

* `PageIsConsistent`: `PipelineSafety` for any sources in any order. `PipelineInv`: page and loader agree on the
  plan shown (`Agree`), the loader keeps the best of what came (`KeptBest`), the tables are
  those of a diagnosis of the plan shown (`TablesOf`), and the last diagnosis is of the catalog plan with all
  the evidence there is (`LastIsCurrent`).
* `PanelIsConsistent`: `DbPanelSafety`, whichever cells fail. A refresh can be undone at each
  of its cells to a cache that agrees with the panel, the shared metadata and the gate
  (`Undoable`, `Settled`), and until it has published, the rates it computed continue those shown (`Measured`).
* `RatesAreReal`: `InstanceSafety`. `SweepIsSound` says of each cell of a refresh what
  it will show and what a failure goes back to; a counter grew by no more than
  the work since (`Grown`), and what is shown fits the last two readings (`TilesFit`).
* `CollectorIsSafe`: `CollectorSafety`. Each memory list is of a numbered sample, and the one shown, the one
  under way and the newest are in that order (`SamplesInOrder`); since each class of queries
  runs one refresh at a time, no older list can follow.
* `RequestsAreSafe`: `RequestsSafety` for any number of pages. Request numbers grow with the
  pages (`Numbered`), the cancel that is kept is that of the page that is open
  (`OpenPage`, `Stoppable`), and what that page has not merged of what its loader sent is in the
  channel, in the order sent (`InChannel`, `Awaited`).
* `GatewayIsSafe`: `GatewaySafety` for any number of callers. Until Close there is one pool
  (`OnePool`), because only the owner of the mutex opens one (`MutexOwned`); the pool hands out one
  connection, so the results on it are one at a time (`StreamAlone`), and who is about to mark it
  unhealthy has met a refusal (`BlameHonest`).
* `RefresherIsSafe`: `RefresherSafety`. `SlotHonest`: a slot runs one refresh, which is
  busy and remembers the success its panel already shows until it has published;
  `StopInOrder` and `LoggerOwned` say how far the shutdown is, and who closes the data logger.
* `EventsAddUp`: `EventSafety` for any events and times. `EventInv`: counters grow within
  one life of the server (`GrownSince`), and the sample a refresh compares with is the one behind
  the frame shown (`LastIsShown`). Sums over all events are running sums (`SumsOf`), with
  the lemmas `SumOfDifferences` and `SumCovers` by the smallest set at which
  they would fail. Assumed: the wait events are finitely many.

**gstop: emergencies, log and alarms** (`EmergencyProofs`).

* `KillsSpare`: `KillsSafety` for any threads, sessions and whitelists. A statement by state looks the
  state up itself, and SlowSQL names the session of the row and not only its thread. A block
  names threads only; `FoundInv` says that on those it has yet to end, every session that is older than the block
  is one it found. `LeftInv`, that a statement by state left nobody of those it is for whose thread
  has not changed since, is what makes a sweep thorough when it is over.
* `WindowsAreSafe`: `WindowsSafety`. The samples in the window are of cycles that were, each of
  its own (`SamplesPast`), and SlowSQL's record of its last check is true (`CheckIsRecorded`). That
  the first strategy that matches is found rests on the well-foundedness of the natural numbers (`LeastExists`).
* `DeadlocksAreFound`: `BlockSafety` for any number of rows and any graph of waits. `BlockInv`: the
  path of a walk follows the edges through no deadlock that is known (`WalkIsPath`), what was found
  are deadlocks, once each (`FoundAreDeadlocks`, since deadlocks that share a row are one,
  `DeadlocksApart`), and none is passed by (`NonePassedBy`): a walk that ends without a finding was
  in none. The walk inside a deadlock comes back to its start by the least index at which
  the path would leave it (`PathStays`).
* `ConfirmedKillsAreSafe`: `SelectionSafety` for any threads and sessions. `HolderRemembered`: from
  the confirmation on, the holder about to be ended has blocked the row's thread since, or is that thread.
* `EmergencyPanelIsSafe`: `PanelSafety`. The analysis lock is the hook's or the screen's
  (`LockOwned`), so a prompt is about what is still held (`PromptIsLive`), and an analysis that is under
  way has results of its own snapshot and the rest of the one before (`OneAnalysis`). What
  a capture has not marked as logged is not in its log (`LoggedOnce`).
* `DataLogIsSafe`: `DataLogSafety` for any sizes, counts, failures and repeated names. A file goes once its
  rows are in a backup or known as spoiled (`BackedUp`), names hold rows in their own order, whether
  in a file, a backup or both (`InOrder`), and a row older than a deleted one is under a name with
  `BackupCount` newer backups (`PrunedBelow`), so that the next pruning tries it again.
* `RegressionsStayFound`: `PlanSafety`, its three action properties included, for any statements, samples,
  times and room. `PlanInv`: a statement has at most one baseline, and with it an open event of its own
  (`Matched`), every open event has one if there is room for as many snapshots as statements
  (`Judgeable`), and what fired is worse than the baseline it has, if it is kept (`Remembered`). The action
  properties are `Again`, `Loses` and `KeepsNewest`, shown of each step with the invariant
  (`StepKeeps`). One eviction takes the oldest of a history that is full (`EvictedIsOld`), and several in one
  refresh leave `MaxSnap - 1` snapshots, all younger than what went (`KeysStay`, by the least number of
  evictions at which it would fail). Assumed: the statements are finitely many.
  `EventsAreJudged`, from the same invariant: with room for as many snapshots as there are statements,
  no eviction leaves an open event without the baseline it is judged by (`RoomForAll`: the snapshots that hold
  baselines are fewer than `MaxSnap` as long as some statement has none).
* `AlarmsAreReported`: `AlarmSafety` for any windows, threshold, gap and number of reporters, in whatever
  order they reach the lock. `AlarmInv` bounds how long a breach has lasted without a line
  (`Lasting`) by how long its reports have no longer been held back (`Counted`): in that time
  it was found at least once per `CycleGap` (`Dense`), and ages in windows side by side are as many
  as the windows (`OneInEachWindow`, by the pigeonhole principle), so the policy has
  `ReportThresh` of them, all inside the observation window, after at most `ReportThresh * CycleGap + MaxLate`
  (`SearchEnds`); a report let through then has one `MaxLate` for its line (`Written`). That it has the evidence
  is an injection from what the policy counts into what was seen (`SeenAs`). Assumed of the constants: a
  threshold that is positive, and an observation window that holds it at the rate a breach is found.

**Only model-checked**, and why:

* all liveness (`Converges`, `StopReachesRuns`, `StaleWorkloadEnds`, `WorkersEnd`,
  `WaitsEnd`), which needs fairness and `ENABLED`;
* the last part of `ControllerSafety`, that `Run` finds a steady system before it has taken
  `MaxSamples` samples: a bound on the length of a search, true for the shipped shapes only.

## 6. Where the code and its documents disagree

1. `Snapshot` is said to return durable tombstones; it reads a name that may not
   be durable yet (`RecoveryLedgerReader`).
2. The claim of a journal row is said to prevent a concurrent double inverse; it
   does for rows read as planned or applied, not for one read as restoring
   (`JournalDoubleInverse`). The coordinator's restore lock hides it.
3. `cleanup --data` with the shipped `application_name` ends its own lifecycle
   lock (`CommandLocksShipped`).

Without a run, but in the models, whose properties allow for it:

* A column of `meta_batches` is specified as NOT NULL; one that an init added before it stopped
  (`sqlstore.go:1292`) stays nullable for good, because later inits find it there.
* A rollover is said to open a file with a fresh timestamp (`rotating.go:20`); two in one second share
  the name, and the second backup truncates the first.
* Statements that were quiet for the observation time are said to be marked recovered
  (`plan_change.go:312`); one whose baseline was evicted to make room never is.
* The block that ends sessions over a time is said to require that each is active in such a
  transaction (`model/sql.go:31`); it requires that when it looks, and ends threads later, whoever
  is on them by then.

Without a run or a model: a test reads the peak right after `WaitReady` (`workers_test.go:60`),
which may return before the last worker has raised it; and `README.md:218` calls `q`
the exit key of highest priority, but one typed while a page, a prompt or a menu
reads a key of its own is seen by that reader, and the exit only by the pump's
notification.

What the models show of the code and no property calls wrong:

* *Runs.* The Hold of scenario 208 is always cut short by the workload's deadline, so the
  operations it reads after the hold stay 0. `VacuumScenario.Stop` ignores VACUUM's error and leaves its connection when its
  context ends. `LockEngine` closes a session that failed in Prepare and keeps the
  reference. A failed size sample of the calibration reads as 0.
* *Dataset.* A schema created but not yet marked is refused by init and by cleanup
  alike; tables an interrupted init loaded are not analysed by the one that resumes;
  the refusal in `ConvergePlanData` cannot happen after the migrations.
* *Gateway and health.* A query after Close may open a new pool; a failure that
  arrives late gives up a pool verified since; a plan that cannot be parsed but is
  ranked better suppresses the diagnosis.
* *Emergency.* Eviction drops up to two buckets and with them the start of a long
  regression; a capture that ends writes no snapshot; Persist between Draw and publish
  stores the older one; SlowSQL may end a session whose slow statement has
  ended; ThreadPoolFull ends idle transactions without looking again; the manual kills of
  ConnectionsFull pass the whitelist by; a panel kept open for more than five minutes
  lets the stall check fire; the kills of the memory panel and of a holder name
  the thread only.
* *Alarms and files.* A suppression window is used up by a report whose write fails;
  `CleanExpiredKeys` is never called; writers stop for good when a file cannot be
  reopened; the original is removed even when its copy failed; a `.log` that was
  abandoned is never pruned; the backup of one rollover may be deleted after newer ones,
  when its removal failed before.
* *Panels.* After a restart of the database the event panel's realtime values may be
  negative; its first realtime frame shows values since the start.

## 7. Not modelled

SQL text and EXPLAIN parsing, SQL shapes, statistics over samples, terminal rendering,
configuration parsing and command-line handling, OS commands, and the contents of
evidence and log lines: formatting or I/O with no order of events to check. Fault
providers are an interface over external commands; what the journal and the
coordinator need of them (apply, verify, inverse, each of which may fail) is in those
modules. Of the ledger, the checks of owner, mode and symbolic links are one
nondeterministic failure; of the commands, `doctor`, `status`, dry runs, the display-only
restore and the forms of `stop` and `cleanup` that name a run are left out. Of the
load controller, `RunUntil` and the settled mode, which only tests configure, and
the advisory checks; of the lock scenarios the SQL behind each lock; of gstop the
logger's own rotation, which has the shape of the data log's, and the thresholds of
the emergency scenarios other than those named above.
`BlockAnalysis` and `InstancePanel` take one query's rows as one snapshot.

## 8. Running it

    tlc -config RecoveryLedger.cfg MCRecoveryLedger     # any run of section 4
    tlapm WorkerGroupProofs.tla                         # any *Proofs module

The operators marked "Mutant" replace the definition that follows them to show
that the property named in `PROJECT.json` would notice that mistake; they take no
part in the specification.
