---------------------------- MODULE Supervision ----------------------------
(***************************************************************************)
(* The dispatcher under the supervision of orch/watchdog.go.  The watchdog *)
(* runs on a goroutine of its own: CheckOnce lists the workers, then works *)
(* through that listing while the dispatcher goes on releasing, failing    *)
(* and re-assigning them.  What it finds reaches the dispatcher in three   *)
(* ways: a session restarted under the worker's name, the list of stuck    *)
(* tasks, and the circuit breaker, which orphanCk polls.                   *)
(*                                                                         *)
(* CheckOnce is split where the dispatcher can get in between:             *)
(*   idle -> inspect (one step per worker) -> restart -> record -> inspect *)
(* The breaker is the clockless one of Breaker.                            *)
(***************************************************************************)
EXTENDS Dispatcher

CONSTANT CBThreshold     \* CBConfig.Threshold

ASSUME CBAssumption == CBThreshold \in Nat \ {0}

VARIABLES
  wdStep,      \* program counter of CheckOnce
  wdWorker,    \* the worker of the listing that is being inspected
  listing,     \* ListWorkers as read at the start of the tick
  wdCopy,      \* the task read by GetTask, with its assignee at that time
  stuck,       \* Watchdog.stuckTasks
  drained,     \* what failStuckTasks took from it and has yet to fail
  orphanCkDone,\* orphanCk ran in this tick
  cbFailures,  \* CircuitBreaker.failures, per worker
  cbTripped,   \* CircuitBreaker.tripped
  started      \* history: the sessions started for the task so far

watchdog == <<wdStep, wdWorker, listing, wdCopy>>
breaker == <<cbFailures, cbTripped>>
handover == <<stuck, drained, orphanCkDone>>
svars == <<vars, watchdog, breaker, handover, started>>

StuckTask == [task: Tasks, worker: Workers]
NoCopy == [task |-> NoTask, assignee |-> NoWorker]

STypeOK ==
  /\ TypeOK
  /\ wdStep \in {"idle", "inspect", "restart", "record"}
  /\ wdWorker \in 1..(MaxWorkers + 1)
  /\ listing \in [Workers -> Tasks \cup {NoTask}]
  /\ wdCopy \in [task: Tasks \cup {NoTask}, assignee: Workers \cup {NoWorker}]
  /\ wdStep \in {"restart", "record"} => wdCopy.task \in Tasks /\ wdWorker \in Workers
  /\ stuck \in Seq(StuckTask)
  /\ drained \in Seq(StuckTask)
  /\ orphanCkDone \in BOOLEAN
  /\ cbFailures \in [Workers -> 0..CBThreshold]
  /\ cbTripped \in BOOLEAN
  /\ started \in [Tasks -> Nat]

SInit ==
  /\ Init
  /\ wdStep = "idle"
  /\ wdWorker = 1
  /\ listing = [w \in Workers |-> NoTask]
  /\ wdCopy = NoCopy
  /\ stuck = <<>>
  /\ drained = <<>>
  /\ orphanCkDone = FALSE
  /\ cbFailures = [w \in Workers |-> 0]
  /\ cbTripped = FALSE
  /\ started = [t \in Tasks |-> 0]

-----------------------------------------------------------------------------
(* Circuit breaker *)

Breaker == INSTANCE Breaker

RecordFailure(w) == Breaker!RecordFailure(w)
ResetCB == Breaker!ResetCB

-----------------------------------------------------------------------------
(* CheckOnce *)

\* Watchdog.Run's ticker fires; ListWorkers is read once for the whole tick.
\* A listing that fails skips the tick.  Of a tick that is due at the moment of
\* the cancellation, which select may still take, only its start before the
\* cancellation is modelled.
WdList ==
  /\ wdStep = "idle"
  /\ ~cancelled
  /\ wdStep' = "inspect"
  /\ wdWorker' = 1
  /\ listing' = current
  /\ UNCHANGED <<vars, wdCopy, breaker, handover, started>>

NextWorker == wdWorker' = wdWorker + 1 /\ UNCHANGED listing

\* The worker of the listing has no session although its task, as the ledger
\* has it now, is not terminal and has a configured role.
Dead(w) ==
  /\ listing[w] # NoTask
  /\ session[w] = NoTask
  /\ status[listing[w]] \notin Terminal
  /\ listing[w] \notin UnknownRole

\* The worker was idle, is alive, or its task needs no session; or IsAlive or
\* GetTask failed.
WdSkip ==
  /\ wdStep = "inspect"
  /\ wdWorker \in Workers
  /\ \/ ~Dead(wdWorker) /\ UNCHANGED faults
     \/ listing[wdWorker] # NoTask /\ Strike("update")
  /\ NextWorker
  /\ UNCHANGED <<ledger, agents, budgets, control, wdStep, wdCopy, breaker,
                 handover, started>>

WdDeadUncounted ==
  /\ wdStep = "inspect"
  /\ wdWorker \in Workers
  /\ Dead(wdWorker)
  /\ handoffs[listing[wdWorker]] < MaxHandoffs
  /\ RecordFailure(wdWorker)
  /\ wdCopy' = [task |-> listing[wdWorker], assignee |-> assignee[listing[wdWorker]]]
  /\ wdStep' = "restart"
  /\ UNCHANGED <<ledger, agents, budgets, control, faults, wdWorker, listing,
                 handover, started>>

\* Within budget: task_handoff is emitted and the failure recorded before the
\* restart is tried.
WdDead ==
  /\ wdStep = "inspect"
  /\ wdWorker \in Workers
  /\ Dead(wdWorker)
  /\ TryRecord(listing[wdWorker])
  /\ RecordFailure(wdWorker)
  /\ wdCopy' = [task |-> listing[wdWorker], assignee |-> assignee[listing[wdWorker]]]
  /\ wdStep' = "restart"
  /\ UNCHANGED <<ledger, agents, retries, gaps, aborted, reason, control, faults,
                 wdWorker, listing, handover, started>>

WdStuckForgotten ==
  /\ wdStep = "inspect"
  /\ wdWorker \in Workers
  /\ Dead(wdWorker)
  /\ handoffs[listing[wdWorker]] >= MaxHandoffs
  /\ NextWorker
  /\ UNCHANGED <<vars, wdStep, wdCopy, breaker, handover, started>>

\* Budget exhausted: the task is left to failStuckTasks.  An entry that is on
\* the list already is not repeated: it would find the task terminal.
WdStuck ==
  /\ wdStep = "inspect"
  /\ wdWorker \in Workers
  /\ Dead(wdWorker)
  /\ handoffs[listing[wdWorker]] >= MaxHandoffs
  /\ LET s == [task |-> listing[wdWorker], worker |-> wdWorker]
     IN stuck' = IF \E i \in DOMAIN stuck : stuck[i] = s THEN stuck ELSE Append(stuck, s)
  /\ NextWorker
  /\ UNCHANGED <<vars, wdStep, wdCopy, breaker, drained, orphanCkDone, started>>

\* RestartSession up to CreateSession: whatever runs under the worker's name is
\* killed.  It fails when the kill does, or when the spawn does.
WdRestart ==
  /\ wdStep = "restart"
  /\ \/ /\ session' = [session EXCEPT ![wdWorker] = wdCopy.task]
        /\ started' = [started EXCEPT ![wdCopy.task] = @ + 1]
        /\ wdStep' = "record"
        /\ UNCHANGED <<faults, wdWorker, listing>>
     \/ /\ session' = [session EXCEPT ![wdWorker] = NoTask]
        /\ wdStep' = "inspect"
        /\ NextWorker
        /\ UNCHANGED <<started, faults>>
     \/ /\ Strike("release")
        /\ wdStep' = "inspect"
        /\ NextWorker
        /\ UNCHANGED <<session, started>>
  /\ UNCHANGED <<ledger, sidecar, monitors, outcomes, budgets, control, wdCopy,
                 breaker, handover>>

\* The rest of SpawnSession: worker active, the task copy written back whole
\* with status in_progress.  A failing write rolls back: the session is killed,
\* the worker record restored.  The two writes are one step.
WdRecord ==
  /\ wdStep = "record"
  /\ \/ /\ current' = [current EXCEPT ![wdWorker] = wdCopy.task]
        /\ status' = [status EXCEPT ![wdCopy.task] = "in_progress"]
        /\ assignee' = [assignee EXCEPT ![wdCopy.task] = wdCopy.assignee]
        /\ UNCHANGED <<session, faults>>
     \/ /\ Strike("update")
        /\ session' = [session EXCEPT ![wdWorker] = NoTask]
        /\ UNCHANGED <<current, status, assignee>>
  /\ wdStep' = "inspect"
  /\ wdCopy' = NoCopy
  /\ NextWorker
  /\ UNCHANGED <<escalation, sidecar, monitors, outcomes, budgets, control,
                 breaker, handover, started>>

\* The listing is exhausted.
WdDone ==
  /\ wdStep = "inspect"
  /\ wdWorker > MaxWorkers
  /\ wdStep' = "idle"
  /\ wdWorker' = 1
  /\ listing' = [w \in Workers |-> NoTask]
  /\ wdCopy' = NoCopy
  /\ UNCHANGED <<vars, breaker, handover, started>>

WatchdogStep == WdList \/ WdSkip \/ WdDead \/ WdStuck \/ WdRestart \/ WdRecord \/ WdDone

-----------------------------------------------------------------------------
(* The dispatcher's side: orphanCk and failStuckTasks *)

\* failOrphanedTask: the task is read anew, the worker released by its name.
FailOrphanedTask(t, w, f) ==
  /\ status[t] \notin Terminal
  /\ f # "update"
  /\ HandleTerminalFailure(t, [status EXCEPT ![t] = "failed"], f)
  /\ Release(w, f)
  /\ UNCHANGED <<assignee, retries, handoffs>>

\* failOrphanedTask returned false.
NotOrphaned == UNCHANGED <<ledger, session, budgets>>

\* An active worker whose task orphanCk can fail.
Orphan(w) == current[w] # NoTask /\ status[current[w]] \notin Terminal

\* orphanCk, and drainStuckTasks at the start of failStuckTasks: a tripped
\* breaker fails the first orphan and is reset.  lost: an orphan whose write
\* failed; the next one is tried.
OrphanCk ==
  /\ phase = "orphans"
  /\ ~orphanCkDone
  /\ \/ ~cbTripped /\ NotOrphaned /\ UNCHANGED <<breaker, faults>>
     \/ /\ cbTripped
        /\ \E f \in FaultKind :
             /\ Strike(f)
             /\ \E lost \in SUBSET Workers :
                  /\ Cardinality(lost) <= IF f = "update" THEN 1 ELSE 0
                  /\ LET orphans == {w \in Workers \ lost : Orphan(w)}
                         g == IF f = "update" THEN "none" ELSE f
                     IN \/ orphans = {} /\ NotOrphaned /\ UNCHANGED breaker
                        \/ \E w \in orphans :
                             /\ \A v \in orphans : w <= v
                             /\ \A v \in lost : v < w /\ Orphan(v)
                             /\ FailOrphanedTask(current[w], w, g)
                             /\ ResetCB
  /\ orphanCkDone' = TRUE
  /\ drained' = stuck
  /\ stuck' = <<>>
  /\ UNCHANGED <<sidecar, monitors, outcomes, control, watchdog, started>>

FailStuckRequeues ==
  /\ phase = "orphans"
  /\ drained # <<>>
  /\ NotOrphaned
  /\ UNCHANGED faults
  /\ drained' = Append(Tail(drained), Head(drained))
  /\ UNCHANGED <<sidecar, monitors, outcomes, control, watchdog, breaker, stuck,
                 orphanCkDone, started>>

\* One iteration of failStuckTasks.
FailStuck ==
  /\ phase = "orphans"
  /\ drained # <<>>
  /\ \E f \in FaultKind :
       /\ Strike(f)
       /\ \/ FailOrphanedTask(Head(drained).task, Head(drained).worker, f)
          \/ /\ status[Head(drained).task] \in Terminal \/ f = "update"
             /\ NotOrphaned
  /\ drained' = Tail(drained)
  /\ UNCHANGED <<sidecar, monitors, outcomes, control, watchdog, breaker, stuck,
                 orphanCkDone, started>>

OrphansDone ==
  /\ phase = "orphans"
  /\ orphanCkDone
  /\ drained = <<>>
  /\ orphanCkDone' = FALSE
  /\ Goto("abort")
  /\ UNCHANGED <<ledger, agents, budgets, faults, watchdog, breaker, stuck,
                 drained, started>>

-----------------------------------------------------------------------------
(* Composition *)

Unsupervised == UNCHANGED <<watchdog, breaker, handover>>

\* A session started in Spawn.
SpawnStep ==
  /\ Spawn
  /\ started' = [started EXCEPT ![spawning.task] = @ + 1]

\* A session restarted in handleHandoff.
DrainStep ==
  /\ DrainOne
  /\ LET t == Head(outcomes).task
         restarted == /\ handoffs'[t] # handoffs[t]
                      /\ status'[t] = "in_progress"
                      /\ session'[Head(outcomes).worker] = t
     IN started' = IF restarted THEN [started EXCEPT ![t] = @ + 1] ELSE started

\* wg.Wait(): the shutdown also waits for a CheckOnce under way.
WaitStep == WaitDone /\ wdStep = "idle" /\ UNCHANGED started

OtherStep ==
  /\ \/ StartTick \/ DrainDone \/ CheckAbort \/ CreateEscalation
     \/ Assign \/ AssignFails \/ DispatchDone \/ SpawnFails
     \/ CheckTermination \/ Cleanup
  /\ UNCHANGED started

DispatcherStep ==
  /\ SpawnStep \/ DrainStep \/ WaitStep \/ OtherStep
  /\ Unsupervised

\* runAgent reports every end but exit code 0 to the breaker; a shutdown's kill
\* is not reported, which RecordFailure allows for.
MonitorReports(m) ==
  /\ \/ /\ MonitorExit(m)
        /\ IF sidecar[m.task] = 0 THEN UNCHANGED breaker ELSE RecordFailure(m.worker)
     \/ MonitorKill(m) /\ RecordFailure(m.worker)
  /\ UNCHANGED <<watchdog, handover, started>>

SMonitorStep(m) ==
  \/ MonitorReports(m)
  \/ MonitorSend(m) /\ Unsupervised /\ UNCHANGED started

SAgentStep(w) ==
  /\ AgentStep(w)
  /\ Unsupervised
  /\ UNCHANGED started

Environment ==
  \/ \E w \in Workers : SAgentStep(w)
  \/ /\ Signal \/ Ended \/ (\E t \in Tasks : ResolveEscalation(t))
     /\ Unsupervised
     /\ UNCHANGED started

SDispatch == DispatcherStep \/ OrphanCk \/ FailStuck \/ OrphansDone

SNext ==
  \/ SDispatch
  \/ WatchdogStep
  \/ \E m \in monitors : SMonitorStep(m)
  \/ Environment

SSpec == SInit /\ [][SNext]_svars

\* The Go scheduler runs the dispatch, watchdog and runAgent goroutines.
SFairness ==
  /\ WF_svars(SDispatch)
  /\ WF_svars(WatchdogStep)
  /\ \A t \in Tasks, a \in 0..MaxRetries :
       WF_svars(\E m \in monitors : m.task = t /\ m.attempt = a /\ SMonitorStep(m))

-----------------------------------------------------------------------------
(* Properties *)

\* BVV-ERR-01 with BVV-L-04, whatever the two goroutines that restart sessions
\* do to each other: a task gets one session, one more per recorded retry and
\* one more per recorded handoff.
SessionBudget == \A t \in Tasks : started[t] <= 1 + retries[t] + handoffs[t]

\* failOrphanedTask frees a worker whose runAgent goroutine still polls, so
\* supervision adds outcomes to come to the one per worker of ChannelHasRoom: one
\* per gap counted so far, and the gaps stay below the limit until the abort.
OutcomesBounded == Outstanding <= MaxWorkers + GapLimit - 1

\* The lock is released last: by then no runAgent goroutine, no CheckOnce and no
\* outcome is left whose handling could write to the ledger.
NothingOutlivesLock ==
  /\ phase \in {"final", "released"} => monitors = {} /\ wdStep = "idle"
  /\ phase = "released" => outcomes = <<>>

\* "Cancel watchdog + wait for all goroutines" (runLoop): while it waits nobody
\* receives, so the buffer must have room for every outcome still to come.
WaitReturns == phase = "wait" => Outstanding <= BufSize

\* Nobody acts for a task on a worker that has passed to somebody else: not the
\* watchdog between GetTask and the end of RestartSession, no runAgent goroutine,
\* no outcome in the channel.  The code does not see to it; every lifecycle in
\* which dispatcher, polls and watchdog meet each other in time is like that.
Undisturbed ==
  /\ wdStep \in {"restart", "record"} =>
       status[wdCopy.task] = "in_progress" /\ current[wdWorker] = wdCopy.task
  /\ \A m \in monitors : current[m.worker] = m.task
  /\ \A i \in DOMAIN outcomes : current[outcomes[i].worker] = outcomes[i].task

\* What the watchdog is for (BVV-ERR-11): a worker that is active on a task
\* without a live session does not stay so, unless the lifecycle is ending, a
\* call failed (the release of a worker is not tried again) or a worker passed on
\* under somebody's hands.
DeadSessionNoticed ==
  [](faults = 0 /\ Undisturbed) =>
    \A w \in Workers, t \in Tasks :
      (current[w] = t /\ session[w] = NoTask) ~>
        (session[w] # NoTask \/ current[w] # t \/ cancelled)

\* After a signal, or once Run returned, the process gets to release the lock,
\* whatever agents do and whichever calls fail, with the watchdog's goroutine to
\* wait for as well, provided the channel can take every outcome to come.
SShutdownTerminates == []WaitReturns => (cancelled ~> phase = "released")

\* BVV-L-01, for agents that end, calls that do not fail and actors that do not
\* meet: every lifecycle terminates.
AgentsEnd == \A w \in Workers : WF_svars(SAgentStep(w))
SLifecycleTerminates ==
  (AgentsEnd /\ [](faults = 0 /\ Undisturbed)) => <>(phase = "released")

-----------------------------------------------------------------------------
(* What the repository says and the code does not keep *)

\* BVV-L-01, "every lifecycle MUST terminate", with the watchdog as the code has
\* it: agents end and no call fails, and still a lifecycle may run forever.
EveryLifecycleTerminates == (AgentsEnd /\ [](faults = 0)) => <>(phase = "released")

\* The exit code decides (BVV-DSP-04; exit 0 completes the task): the dispatcher
\* does not fail a task as stuck whose agent has just ended with 0.
StuckDidNotSucceed ==
  [][FailStuck => \A t \in Tasks :
       status[t] # "failed" /\ status'[t] = "failed" => sidecar[t] # 0]_svars
=============================================================================
