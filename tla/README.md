# A TLA+ model of the wonka orchestrator

Wonka takes a graph of tasks on one git branch (the *lifecycle*), runs an agent
for each task in a tmux session, and drives every task to a terminal status. The
modules here model its dispatch loop, the watchdog beside it, crash and resume,
the lifecycle lock, the start of an engine, the three stores, the validation of
the planner's graph, the pull-request gate and the metrics.

## The system

| Component | State | Operations | Hard part |
|---|---|---|---|
| Dispatcher (`orch/dispatch.go`, `recovery.go`) | abort flag and reason, outcomes channel, retry, handoff and gap counters | `Tick` = Drain, orphans, abort check, dispatch, termination check, lock refresh; outcome handlers; runAgent goroutines | outcomes arrive ticks later, several in one Drain; store calls fail |
| Worker pool (`orch/session.go`, `tmux.go`) | worker records, tmux sessions, exit-code sidecars | Allocate, SpawnSession, RestartSession, Release | multi-step, rolled back |
| Watchdog (`orch/watchdog.go`) | failure windows, stuck tasks | CheckOnce, circuit breaker | second writer on workers, sessions, handoff counters |
| Engine (`orch/engine.go`, `signal.go`) | run ID, tmux server, contexts | Run, Resume, runLoop, Cleanup, planner hook | order of cancel, Wait, Drain, release; every early return of a start |
| Resume (`orch/resume.go`, `eventlog.go`, `internal/cmd/seed.go`) | event log | Reconcile, recoverFromEventLog, SeedPlannerTask | a kill between any two durable writes, Reconcile's own included |
| Lifecycle lock (`orch/lock.go`) | one file per branch | Acquire, Refresh, Release, ReadHolder | other processes between any two file system calls; crashes |
| File-system store (`orch/ledger_fs.go`) | JSON files | the Store interface | readers take no lock; Assign writes two files |
| Beads stores (`orch/ledger_bdcli.go`, `ledger_beads.go`) | issues of the bd tracker, worker files | the Store interface | statuses encoded in statuses and labels; others use bd meanwhile; timeouts after the commit |
| Graph validation (`orch/validate.go`) | none | ValidateLifecycleGraph | two graph searches and their rules |
| Gate (`orch/gate.go`) | none of its own | ExecuteGate | gh fails, hangs or answers late; the attempt is killed and retried |
| Telemetry (`orch/telemetry.go`) | spans, gauges | Record | events lost, late or of another process |
| CLI (`internal/cmd`) | none | flags, presets, formatting | none |

The dispatch goroutine and the watchdog are the two writers of task statuses
inside a process. runAgent goroutines talk to the dispatcher only through the
channel; the watchdog through restarted sessions, the list of stuck tasks and
the circuit breaker. Both use the store and the pool. The engine starts them,
cancels them, waits, drains what they left, and releases the lock. What survives
the process is the ledger, the tmux sessions and the event log.

What makes each part correct: terminal statuses are final (BVV-S-02), one worker
per task (S-03), dependencies first (S-04), bounded gaps (S-07), every lifecycle
and every shutdown ends (L-01), bounded retries and handoffs (ERR-01, L-04) also
across crashes (ERR-07, 08), one orchestrator per branch (S-01), a store that
behaves as if atomic (LDG), exactly the malformed graphs rejected (TG-07..10), no
pull request over a failed predecessor (GT-03), gauges that tell the truth (OBS).

## Modules

`Dispatcher` <- `Supervision` (extends it with the watchdog, uses `Breaker`);
`CircuitBreaker` implements `Breaker`; `FSLedger` and `IssueLedger` implement
`Ledger`; the others stand alone. `MC*` instantiate for TLC, `*Proofs` prove:
`DispatcherProofs` about `Dispatcher` and `Supervision`, `UnitProofs` about
`BdCommand`, `CircuitBreaker`, `Gate` and `Telemetry`, the others about the module
they are named after.

### Dispatcher

One goroutine runs `Tick`; its program counter is `phase`, one action per step.
Each iteration of a loop (an outcome in Drain, a ready task in dispatch) is an
action of its own, so goroutines, agents and signals come in between.

| Model | Code |
|---|---|
| `status`, `assignee`, `escalation`, `current` | ledger: `Task.Status`, `Task.Assignee`, the escalation task of a task, `Worker.CurrentTaskID` (a worker is active iff it is set) |
| `session`, `sidecar` | the session under the worker's name and whose agent runs in it; the task's exit-code file, which survives a retry |
| `monitors`, `outcomes` | live runAgent goroutines with their determined but unsent outcome; the channel |
| `retries`, `handoffs`, `gaps`, `aborted`, `reason` | budgets and abort state |
| `cancelled`, `phase`, `todo`, `spawning`, `result` | merged context, program counter, rest of the ready snapshot, the assignment being spawned, what `Run` returned |
| `faults` | number of store or tmux calls that have failed |

`DrainOne` is one whole handler: status write, release of the worker, gap and
abort logic, `abortCleanup`, planner hook. A handler reads and writes only what
the dispatch goroutine owns; the steps during which others can act (Assign, then
SpawnSession) are separate actions. `MonitorKill` covers the deadline and the
cancelled context, so a deadline may come at any time. A fault is one call of one
handler returning an error; a spawn that fails is not a fault and always possible.

Tasks are numbered in dispatch order; time is a choice; the planner hook's
verdict is a choice of valid or invalid. `NoWatchdog` is the nil branch of
`orphanCk` and `failStuckTasks`: what is checked and proved here is about the
dispatcher alone.

### Supervision, Breaker, CircuitBreaker

The dispatcher with its watchdog. `CheckOnce` is split where the other goroutine
can get in between: list the workers, inspect one, restart its session, record
the restart. `orphanCk` and `failStuckTasks` replace `NoWatchdog`. `Breaker` is
the circuit breaker without clocks: failures may expire at any time.
`CircuitBreaker` has the timestamps and the window, and is shown to implement it.
Failures are appended under the mutex in the order of the clock, so what the prune
loop keeps is an end of the list, and `Prune` says which. Simplified: the writes of
one restart (`session.go:192-223`) are one step, `WdRecord`; a tick that `select`
still takes after the cancellation is one that started before it; Allocate and Assign
are one step, and a refusal because the watchdog made the worker busy in between is
handled like the failing Assign that the model has.

### Recovery

Crashes, `wonka resume` and a second `wonka run`. A handler is the memory it
changes at once and the sequence of durable writes (`steps`) it then performs; a
crash may come before any of them. `Resume` goes through the steps of Reconcile
(reset stale tasks, kill orphaned sessions, recover counters from the log, reset
workers, resolve re-opened tasks) and `replayPlannerValidation`, each a write of
its own. The loops of Reconcile over sessions and over workers are one action each:
they write independent records, and a second Reconcile after a kill in between does
the rest. A spawn may fail, before the session exists or after, and then
`failTaskAndRelease` gives the task up without a gap.

The dispatch loop runs one handler at a time: interleavings are the subject of the
two modules above, but for one thing they leave to a resume. The watchdog deals with
any worker whose session is dead, and `orphanCk` with any active one, whether or not
its runAgent goroutine has answered; the goroutine, or the outcome it has sent, is then
a *stray* (`left`, counted in `strays`), and `ProcessStray` handles its outcome later,
with the task and worker it was started for. The log is a sequence of whole events.

### LifecycleLock, EngineStart

`LifecycleLock`: processes of one branch step through the file system calls of
`Acquire`, `Refresh` and `Release`. The file records who created it, so that a
write to a file unlinked since goes nowhere. `holder` 0 is a file created and not
yet written. `ResumeRun` takes over the run ID it finds, so two processes may hold
under one ID and `Refresh` cannot tell them apart. `MaxContenders` (processes
starting at once) and `MaxStall` (how long a live process may go without
stamping) are assumptions on the environment.

`EngineStart`: what Run and Resume do, one action per operation that can fail: read
the holder, open store and log, probe and create the tmux server, every file system
call of Acquire (create, write, read, remove, and around again), of Refresh and of
Release, reconcile, clean up, and every way out. A tmux server is named by the run ID
of its socket. Instead of a clock the lock file has a flag: the file of a live
process stays fresh, one left behind may go stale (a holder that stalls is the
subject of `LifecycleLock`). Any number of processes may be inside Acquire at once:
the history variable `overlapped` says that two were, `lost` which process held while
the file was not its own, and the properties name these as conditions where the code
needs them.

### Ledger, FSLedger, IssueLedger, BdCommand

`Ledger` is the Store interface as one atomic object: a call takes effect at one
moment before it returns, or is refused; a call that is cut may leave an Assign
with the task written and not the worker. It is also `MockStore` itself.

`FSLedger`: mutex, flock, one step per file read or written, `ReadyTasks` without
any lock, failing writes, killed processes. Clients create and wire tasks in either
order; the history variable `wired` has the dependencies a task had when `ReadyTasks`
read its file. `IssueLedger`: both bd stores in one
module, told apart by `backend`; a step is a bd command or a transaction.
`EncodeStatus` and `ToTask` are the conversions between task statuses and the
tracker's statuses and `orch:failed` label; for the statuses that
`beadsStatusToOrch` has no word for, `BeadsStore` panics (`Panics`). `shared` says whether others use bd
on the same issues. Both map an operation between its two writes to one that has
not happened yet. `BdCommand` is one bd command against the database's exclusive
lock: invocation timeout, doubling delay, budget, error classes, with the code's
own numbers (5 s, 2 s, 75 ms).

### GraphValidation

`CheckRoles`, then `firstCycle` with its colours and call stack, one dependency
looked at per step, then `bfsReach` from the gate along dependencies and from the
plan task against them. The reference definitions use no search: `DependsOn(a,b)`
says that every closed set with a has b, `Acyclic` that every set has a task that
depends on no other of it.

### Gate, Telemetry

`Gate`: predecessor check, `gh pr view`, `create`, `checks --watch`; gh calls fail,
a killed attempt's create may still be served later, predecessors are re-opened.
An event that could not be logged changes nothing but the log (`emitGate` only warns).
`Telemetry`: `EventLog.Emit` writes under its mutex and records afterwards, from
two goroutines; the module keeps the truth next to the gauges. The watchdog reads a
task, and later writes that copy back as in progress, whatever became of the task;
store writes fail. `unreported` says that a task came to be, or stayed, in progress by
a write of which no event of this process tells.

## What the runs check

| Run | What it shows | Instance |
|---|---|---|
| `dispatcher` | outcomes and worker records are never stale, dependencies first, gaps overshoot by at most what is in flight, sends never block, terminal is forever | 5 tasks (planner, two dependents, a critical one, one of unknown role), 2 workers, 1 retry, 1 handoff; agents that block, that hand off, or with one failing call |
| `supervision` | a task gets no session that is not paid for by a retry or handoff, outcomes to come are at most one per worker and per gap below the tolerance, dead sessions are noticed, every shutdown ends, every lifecycle does whose agents end and whose actors do not meet | 1 worker; 1 task at any pace, with and without a failing call; 2 tasks at a calm pace and with a late poll |
| `recovery` | after Reconcile tasks, workers and sessions agree; a restart costs a task at most two sessions and the lifecycle one gap, a failed spawn one more; no budget is renewed for a task nobody re-opened; within one run and its resumes an unvalidated graph is not dispatched from. The first, second and fourth are about histories without strays | planner and 2 tasks, 2 workers, up to 3 ends of the process, one stray, failed spawn or trip of the breaker, in 10 scenarios; 2.9 million states |
| `fs_ledger` | the files implement `Ledger`, `ReadyTasks` returns nothing before the dependencies it had when it was read are terminal, every call returns | 2 goroutines and a second process, in 4 scenarios |
| `issue_ledger` | both bd stores implement `Ledger`, what `ReadyTasks` returns was ready at some moment of the call and is everything ready when nothing was written meanwhile | 2 goroutines, 3 tasks, in 7 scenarios |
| `units` | a bd command is bounded in time and outlasts a short lock; the breaker trips exactly at its threshold and implements `Breaker`; the gate's exit code and pull request are honest; gauges match the ledger while every write of "in progress" is reported; the validation's verdict is exact; the lock excludes, stays its holder's, and one retry takes over a stale one; of processes that start, resume, fail and die around it none takes the holder's lock file away or kills its server, sessions stay reachable, and a refused start leaves nothing open, each under the conditions it names | each unit by itself; every graph on 4 tasks, every choice of 3 out of 5 roles on every graph of 3, self-loops and dependencies outside the branch; 3 lock processes starting one after the other, threshold 2, time to 5; 3 engines in 3 scenarios: a resume racing with two fresh runs, a resume after a crash, a failing call; 3 million states |

A *scenario* is chosen in the initial state and bounds what may happen in the
behaviour: which exit codes agents use, who calls what, how often a process dies
or a call fails. It keeps the interesting combinations and leaves out their
product. Two workers give every race between two goroutines and the dispatch
goroutine; a task with a dependent and a third one give a queue for a worker and
an outcome behind an aborting one. One retry, one handoff and one fault reach both
sides of each budget and hit each call once in each reachable state. Supervision
is the largest product of goroutines, and one worker is enough for its two writers
to meet: they meet on one worker's record. A second task lets the worker pass on
while the watchdog, a goroutine or an outcome still acts for the first. Its
scenarios also compare the paces of the actors: *any*; *alone*, without signals and
kills; *calm*, alone and followed only as long as nobody acts for a task on a worker
that has passed on; *late*, the watchdog sees a dead session before the poll of
runAgent does; *prompt*, in `handoff_unmonitored` only, the poll is first. Three lock processes are one that leaves a file and two that find it.
Two crashes allow one inside the recovery from the other.

Fairness. `Supervision`: the dispatch goroutine, each runAgent goroutine and the
watchdog keep taking steps, because the Go scheduler runs them and every wait in
them is bounded (tick timer, poll ticker, session deadline). Nothing is assumed
of agents, humans, signals or failing calls; `SLifecycleTerminates` adds that
agents end, that no call fails and that nobody acts for a task on a worker that has
passed on (`Undisturbed`): without the last the lifecycle may run for ever
(`lifecycle_hangs`). `DeadSessionNoticed` has the same two conditions, and
`SShutdownTerminates` that the channel has room (`WaitReturns`), for the reason that
`shutdown_blocks` shows. `FSLedger`: strong fairness of each client's step, because
only the two lock steps can be disabled by others and neither `sync.Mutex` nor
`flock` starves a waiter.

`CHECK_DEADLOCK FALSE` is in `lock_create_window` only: every process ends and the
clock is bounded, so the model really stops. `MCUnits` has a step of its own for that.

Most modules have a type invariant; all are conjuncts of the inductive invariants of
the proofs, and `TypeCorrect`, `SupervisedTypeCorrect` and `RecoveryTypeCorrect` are
theorems of their own.

### Disagreements between the code and what the repository says

| Run | What is said | What happens |
|---|---|---|
| `lifecycle_hangs` | BVV-L-01: every lifecycle terminates; `session.go:212`: a task that became terminal after the pre-check makes the assertion fire | the assertion looks at the watchdog's old copy; the write puts a task the dispatcher has given up back in progress, on a worker that is idle or on another task, and nothing ever ends it |
| `shutdown_blocks` | BVV-L-01; `engine.go:730`: cancel and wait for all goroutines | the goroutines of tasks failed as stuck outlive their workers; at the shutdown there are more outcomes to come than the channel holds, nobody receives, and the wait never returns |
| `handoff_unmonitored` | BVV-DSP-04: the exit code decides; `engine_e2e_test.go:233`: a handoff and then exit 0 is no failure | only test mode starts a goroutine for the session after a handoff: its exit code is read by nobody, the watchdog restarts it until the handoffs are used up, and the task is failed |
| `invalid_graph` | `engine.go:633`: a resume does not dispatch from a malformed graph | `graph_invalid` is logged before the clean-up; after a crash in between, the resume neither validates again nor aborts |
| `lock_create_window` | BVV-S-01: one orchestrator per branch | a file just created is unparsable and is removed as corrupt by a second starter |
| `retry_budget` | `ledger_bdcli.go:73-76`: the budget caps the sleep, not the wall time, and the worst case is N invocations and the sleeps | the deadline is fixed before the first invocation: a slow one uses the budget up without a sleep, and the worst case is the budget and one invocation (`WallBounded`) |

Other behaviours the models have, and which limit what the properties say:

* A failure with retries left that is drained after the aborting outcome re-opens
  its task, and a handoff restarts its session; the clean-up has already run.
* The outcome of a goroutine that failOrphanedTask left behind is processed like
  any other: it may re-open the failed task (BVV-S-02), and it kills the session and
  releases the worker of the task that has the worker now. `OutcomesCurrent`,
  `TerminalIrreversible` and `GapOvershootBounded` hold without a watchdog only;
  under supervision gaps may overshoot by more than what is in flight.
* The same outcome, when it is a failure with retries left, re-opens a task whose
  `task_failed` is logged. A resume after it takes the task for re-opened by a human
  and renews its budget; and a worker that it released may end with two tasks in
  progress under its name, which Reconcile does not put right. `CrashCost`,
  `ResolvedOnlyReopened` and `Reconciled` are therefore about histories without strays.
* A task given up because its spawn failed is recorded as failed without a gap
  (`spawnFailures` in `GapLoss`).
* On shutdown the cancelled goroutines report failures, and the final Drain
  applies them. A spawn that fails does not go through the abort logic.
* A retried task whose agent is killed before it writes its exit code is given the
  one of the attempt before (`sidecar` is not removed).
* An abort is in memory only: a resume goes on with what it had not blocked.
* It takes an `escalation_resolved` to withdraw an old `graph_validated`, and two
  histories have none. A plan task that is re-opened and taken up by a second
  `wonka run`: a crash after its second completion resumes without validation. And
  a planner whose "completed" is written while a crash keeps `task_completed` out
  of the log: the resume validates the graph and logs it; when a human re-opens the
  task, the next resume finds no terminal history and takes it for one that never
  ended, contrary to the comment at `resume.go:296`; the planner runs again, and a
  crash between its completion and the hook leaves the new graph unvalidated.
  `OnlyCheckedDispatched` is about one run and its resumes, with `CompletionsLogged`.
* A holder that stalls past the threshold can be taken over and then remove the
  new holder's file (`MaxStall < Staleness` is assumed).
* A fresh run does not take over the socket of a crashed one, so sessions are
  reachable only through a resume that has read the lock it takes over
  and then writes its own (`removed` in `SessionsReachable` has the others: Acquire
  removes a stale lock first, and dies or is refused before it writes). Two resumes may
  share one socket, and the one that is refused may take it down; so may one that
  resumed a run whose lock file a third process had removed, and a call that fails.
  `HolderUndisturbed` is about histories with one resume of each run, no failing call
  and nobody in `lost`.
* A planner that creates a task before it wires it may have it dispatched in between:
  `NeverReadyEarly` is about the dependencies there were when the file was read. The
  repository's own clients (its mock planner, its tests) do create first.
* The first `NewFSStore` of a directory writes an empty `deps.json` when it finds
  none; two of them at once, with an AddDep in between, are not modelled.
* `BDCLIStore`: an issue without labels keeps `orch:failed` after a re-open; a
  created task that is not open is open for one command; Assign writes the status
  and so re-opens an issue closed by hand meanwhile. The first is outside the
  scenarios; the second is mapped as not yet happened, which is right for the calls
  that wait for the mutex and hides that GetTask and ReadyTasks may see the task open;
  of the third nothing is claimed.
  A dependency outside the branch is not listed and never counts as terminal, so
  the task that has it is never ready (`BranchLocal` in `ReadyTruthful`).
* A gate attempt that passed its check does not see a predecessor re-opened later, and
  no property of the gate would notice.
* The passing runs of the lock have no two processes creating it at once and no holder
  that stalls; what happens then is `lock_create_window`, and excluded in `LockKept`.

## What is proved

All theorems are about the specifications that TLC runs, for every value of the
constants within the modules' `ASSUME`s. An `ASSUME` of a theorem or a conjunct next
to `Spec` is a condition the code does not enforce; each is named below.

**Dispatcher.** For every set of tasks and dependencies, every number of workers,
every limit, any number of faults: `TypeCorrect`, `OutcomesAlwaysCurrent`,
`SnapshotAlwaysCurrent`, `DependenciesFirst`, `OneWorkerPerTask`, `SendsNeverBlock`
(by an injection from the outcomes to come into the workers), `TerminalForever`,
`AbortIsFinal`. The inductive invariant `IInv` is the conjunction of the invariants
and `DispatchingUnaborted`. They need each other: a handler preserves the terminal
statuses because the outcome it processes is current; outcomes stay current because
Assign hands out workers nobody is on and no handler runs while a snapshot is
walked; the snapshot stays ready because only the dispatch goroutine moves tasks
meanwhile; dependencies stay terminal because nothing leaves a terminal status.
Worker ownership is conditional on no fault. `GapsOvershootByInFlight` weighs gaps
and outcomes to come together: `GapInv` says that their sum is below the limit plus
the workers, which a handler keeps because it turns one into the other, and a
spawn because it happens unaborted, with the gaps below the limit.

**Supervision.** `SupervisedTypeCorrect`, `SessionsWithinBudget`,
`SupervisedOutcomesBounded`, `WaitReturnsWithRoom`, `LockReleasedLast`. The watchdog
breaks most of `IInv` (it writes back old copies, see `lifecycle_hangs`), so nothing
of it is used. `SessionInv` counts, next to the sessions started, those granted and
not started yet, by the dispatcher (the task is open or being spawned) and by the
watchdog (the handoff is recorded, the restart not yet done). `OutcomesInv` is an
account: the outcomes to come, the one being spawned included (`Owed`), are at most
the active workers plus the gaps, and until the abort the gaps are below the
tolerance. Assign makes a worker active before its goroutine is owed; a handler pays
one outcome and idles at most one worker; failing a stuck task idles a worker without
an outcome, and counts a gap for it; after an abort nothing new is owed. This gives the
bound MaxWorkers + GapTolerance - 1 of `OutcomesBounded`; the assumption of
`WaitReturnsWithRoom`, a buffer of that size, is what the code's max(4, MaxWorkers)
does not provide in general. `ShutdownInv` is the order of the shutdown: the context
is cancelled before the wait, and a cancelled context starts no CheckOnce, so that
after the wait no goroutine, and after the final Drain no outcome, is left.

**Lifecycle lock.** For any number of processes, thresholds and retries, with
crashes and failing calls anywhere, assuming `MaxContenders = 1` and
`MaxStall < Staleness`: `LockExclusive`, `HolderNeverLosesLock` and
`AcquireNeverExhausted`. `LInv` adds to exclusion that a process about to write or
remove the file excludes every owner, that an owner's file holds its ID and last
stamp, and that this stamp is young. `RetryInv` adds that a process goes around a
second time only with the file gone, and nobody is left to create it again.

**Engine start.** For any number of processes, retries, crashes and failing calls:
`LockStaysHolders` and `OneEngineHoldsBranch` (as long as no two processes were inside
Acquire together), `RefusedStartsClean`, `HolderNeverDisturbed` (no failing call, nobody
lost its file, no run resumed twice) and `SessionsStayReachable` (nobody lost its file,
with the exceptions in `removed`). `StartInv` is what they share: a stale or unwritten
file belongs to a process that is gone or about to write it (`LeftBehind`); a run ID in
the lock or in use by another process belongs to one that has been past its write
(`Origin`), so nobody creates a server under the ID of a start still under way
(`NoServerYet`); who holds without its file is in `lost`, and every other holder's file
has its run ID (`Recorded`). `KeptInv` adds that without an overlap a process about to
remove the file has nobody's before it (`Removable`); `QuietInv` that a fresh engine's
server stays up and that one who took over its ID has joined it; `ReachInv` that
sessions are on the socket the lock names or in `removed`, and that an engine which
read a run ID runs under it.

**File-system store.** For any number of processes, goroutines, failing writes and
kills: `WritersExclusive`, `FilesImplementLedger`, `FilesStayAcyclic`, and
`ReadyTasksNeverEarly` under `TerminalStays` (no client takes a task out of a
terminal status, which is `TerminalIrreversible` of the dispatcher), in whatever order
tasks are created and wired. `FSInv` says
that a writer has both locks and that what it has checked still holds when it
writes, also halfway through an Assign. `ReadyInv` adds that the statuses
ReadyTasks has read are not ahead of the files, terminal then, terminal now, and that
no dependency it has seen is taken away again.
`DepsStayAcyclic` is the same as `FilesStayAcyclic` for `Ledger` itself, that is for
`MockStore`: a closed set with d and without t, which the check of AddDep found,
splits every candidate cycle.

**Beads stores.** For any number of goroutines and failing commands:
`TrackersImplementLedger`, `ReadyTasksTruthful` and `TrackersStayAcyclic`. `ILInv` is the mutex and what its holder knows at each point
of its call: with private issues what it checked still holds, with shared ones only
that the issue is there. The conditions are the limits listed above:
`Representable` (an open task has no assignee, an assigned one has; a task without
labels is not completed through BDCLIStore), `WholeCreates` (no command fails
between the two of a `BDCLIStore.CreateTask`) and `UsersOnlyClose`. `ReadyTasksTruthful`
has none: its history variables record what was ready since the listing and whether
anything was written, and `ReadInv` says what the first look is still worth at the
second.

**Recovery.** For any number of tasks, workers, crashes, resumes, failed spawns and trips
of the breaker: `ReconcileRestores`, `RecoveryTypeCorrect`, `NobodyReopened`,
`CrashesCostTwo`, `RestartsForgetOneGap`, `OnlyCheckedGraphs`. All are about histories
without strays: for the three properties that say so themselves the others are
counterexamples; `GapLoss` and `OnlyCheckedDispatched` TLC checks with strays as well.
`Calm` and `HistCalm` are the invariants under that condition. Tasks, workers and sessions agree
(`Settled`) whenever no handler is under way; `Handling` says for each handler which
writes are left and how far from `Settled` the ledger is meanwhile; `Agree` is what
remains of it after a crash at any of them, and just enough for Reconcile to get
back, also when it dies on the way. `HistInv` relates log, counters and ledger, with
the events that a handler has still to append counted as if they were there:
sessions against retries, handoffs and twice the ends of the process; tasks logged
as failed against gaps and ends; the planner's completion against its validation.

**Graph validation.** For every set of tasks, roles and dependencies:
`ValidationExact` (the verdict is the first requirement violated, an edge reported
lies on a cycle). `VInv` says how far each search has got:
black tasks have no cycle among them and depend on black tasks only, the stack is
the gray path, what a visit has looked at is black or next on the stack; what the
breadth-first search reached is connected, and what it reached and took from the
queue has all its neighbours reached.

**Units.** `CommandsReturnInTime`; `ShortHoldsOutlasted`, for a first delay of at
most half the budget and a budget below four invocation timeouts (the code's 75 ms,
2 s and 5 s). `BreakerTripsExactly` and `TimedBreakerImplements`: what the prune
keeps is an end of all rapid failures since the Reset that has every one within the
window (`BreakerInv`). `GateExitHonest`, `NoPullRequestAfterFailure`,
`LeftoverPullRequestReused`: `GateInv` ties an attempt to the pull request and to the
predecessors it has looked at, also for a creation of a killed attempt that is still
in flight. `LockGaugeAlwaysHonest`, `InProgressAlwaysExact`: `SpanInv` says that the
open spans, once the events of a handler that are not yet recorded are applied, are
the tasks in progress, as long as no log write failed and nothing is `unreported`.

Every invariant and every safety action property of the passing runs is the subject
of a theorem, under the conditions given here, and so are all refinements.

Only model-checked: `DeadSessionNoticed`, `SShutdownTerminates`,
`SLifecycleTerminates` and `CallsReturn`, which are liveness properties under fairness, out of the prover's reach (the safety part of a shutdown, that the
wait cannot block, is `WaitReturnsWithRoom`); and the six disagreements, which are
counterexamples.

## Not modelled

* Torn lines of the event log: events are whole.
* The runtime assertions (`verify` build tag): what they assert are properties here.
* Flags, configuration, presets, status output, prompts, command lines, bd
  arguments and JSON, exporter set-up: data that no property is about.
* `Deallocate` of the pool, which nothing calls.

## Plan

The modules and runs are complete with respect to the table at the top, and the
safety properties of the runs are proved. What is left are theorems that join the
parts: the `TerminalStays` of `FSLedger` from the dispatcher's `TerminalIrreversible`,
the fresh and stale files of `EngineStart` from the clock of `LifecycleLock`. When the code behind a
disagreement changes, its condition goes: a buffer sized as `WaitReturnsWithRoom` says,
a watchdog that re-reads before it writes (`Undisturbed`), outcomes that are dropped
when their task has been given up (`strays = 0`), a monitored session after a
handoff, and the conditions of `TrackersImplementLedger`. Liveness stays with TLC.
