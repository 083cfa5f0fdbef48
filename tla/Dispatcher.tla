----------------------------- MODULE Dispatcher -----------------------------
(***************************************************************************)
(* The dispatch loop of orch/dispatch.go with what it drives: the task and *)
(* worker records of the ledger, the tmux session of each worker, one      *)
(* runAgent goroutine per launched agent, the buffered channel on which    *)
(* those goroutines report, and the shutdown sequence of Engine.runLoop.   *)
(*                                                                         *)
(* Dispatcher.Tick runs on one goroutine, whose program counter is phase:  *)
(*                                                                         *)
(*   sleep -> drain -> orphans -> abort -> dispatch <-> spawn -> check     *)
(*     ^                            |                             |        *)
(*     +----------------------------|-----------------------------+        *)
(*   (done, aborted, cancelled, error) -> wait -> final -> released        *)
(*                                                                         *)
(* Tasks are positive integers numbered in dispatch order (priority, then  *)
(* ID: taskLess in ledger.go), workers 1..MaxWorkers in name order.  A     *)
(* worker record that was not created yet is an idle one: Allocate takes   *)
(* the first idle record and otherwise creates the next.                   *)
(*                                                                         *)
(* A "fault" is a store write, a store read or a tmux kill that returns an *)
(* error.  One fault strikes one handler; MaxFaults bounds how many strike *)
(* a behaviour.  A spawn that fails (instruction file missing, tmux        *)
(* refuses the session) is not a fault and is always possible.             *)
(***************************************************************************)
EXTENDS Integers, Sequences, FiniteSets

CONSTANTS
  Tasks,         \* the tasks on the branch
  Deps,          \* Deps[t]: the tasks t depends on
  Critical,      \* tasks with criticality:critical
  UnknownRole,   \* tasks whose role has no entry in lifecycle.Roles
  Planners,      \* tasks with role:planner (the post-success hook's)
  MaxWorkers,    \* pool capacity
  MaxRetries,    \* RetryConfig.MaxRetries
  MaxHandoffs,   \* LifecycleConfig.MaxHandoffs
  GapTolerance,  \* LifecycleConfig.GapTolerance
  ExitCodes,     \* the exit codes agents may end with
  MaxFaults      \* bound on the failing store and tmux calls

ASSUME TasksAssumption == Tasks \subseteq Nat \ {0}
ASSUME DepsAssumption == Deps \in [Tasks -> SUBSET Tasks]
ASSUME LabelsAssumption ==
  /\ Critical \subseteq Tasks
  /\ UnknownRole \subseteq Tasks
  /\ Planners \subseteq Tasks
ASSUME LimitsAssumption ==
  /\ MaxWorkers \in Nat \ {0}
  /\ MaxRetries \in Nat
  /\ MaxHandoffs \in Nat
  /\ GapTolerance \in Nat
  /\ MaxFaults \in Nat
ASSUME ExitCodesAssumption == ExitCodes \subseteq Nat

Workers == 1..MaxWorkers
NoTask == 0      \* Worker.CurrentTaskID = "" and "no session"
NoWorker == 0    \* Task.Assignee = ""
NoCode == -1     \* ReadExitCode of a missing sidecar

Status == {"open", "assigned", "in_progress", "completed", "failed", "blocked"}
Terminal == {"completed", "failed", "blocked"}
Running == {"assigned", "in_progress"}
EscalationStatus == {"none", "open", "completed", "blocked"}
AgentOutcome == {"success", "failure", "blocked", "handoff"}
AbortReason == {"", "critical_task_failure", "gap_tolerance_exceeded", "graph_invalid"}
Phase == {"sleep", "drain", "orphans", "abort", "dispatch", "spawn", "check",
          "wait", "final", "released"}
Result == {"none", "done", "aborted", "cancelled", "error"}

\* A runAgent goroutine: the arguments it was launched with, and the outcome
\* it has determined and not yet sent ("none" while it still polls).
Monitor == [task: Tasks, worker: Workers, attempt: 0..MaxRetries,
            outcome: AgentOutcome \cup {"none"}]
\* The fields of TaskOutcome that processOutcome acts on.
TaskOutcome == [task: Tasks, worker: Workers, outcome: AgentOutcome]

\* make(chan TaskOutcome, max(4, pool.MaxWorkers()))
BufSize == IF MaxWorkers < 4 THEN 4 ELSE MaxWorkers

VARIABLES
  status,      \* ledger: Task.Status
  assignee,    \* ledger: Task.Assignee
  escalation,  \* ledger: status of escalation-<t> / escalation-graph-<t>
  current,     \* ledger: Worker.CurrentTaskID; the worker is active iff non-empty
  session,     \* tmux: the task whose agent runs in the worker's live session
  sidecar,     \* disk: <log>.exitcode of the task
  monitors,    \* the live runAgent goroutines
  outcomes,    \* the outcomes channel
  retries,     \* RetryState.attempts
  handoffs,    \* HandoffState.counts
  gaps,        \* GapTracker.gaps
  aborted,     \* Dispatcher.aborted
  reason,      \* Dispatcher.abortReason
  cancelled,   \* mergedCtx is done
  phase,       \* program counter of the dispatch goroutine
  todo,        \* rest of the ready snapshot that dispatch iterates over
  spawning,    \* the assignment whose session dispatch is about to spawn
  result,      \* what Dispatcher.Run returned
  faults       \* store and tmux calls that failed so far

ledger == <<status, assignee, escalation, current>>
agents == <<session, sidecar, monitors, outcomes>>
budgets == <<retries, handoffs, gaps, aborted, reason>>
control == <<cancelled, phase, todo, spawning, result>>
vars == <<ledger, agents, budgets, control, faults>>

TypeOK ==
  /\ status \in [Tasks -> Status]
  /\ assignee \in [Tasks -> Workers \cup {NoWorker}]
  /\ escalation \in [Tasks -> EscalationStatus]
  /\ current \in [Workers -> Tasks \cup {NoTask}]
  /\ session \in [Workers -> Tasks \cup {NoTask}]
  /\ sidecar \in [Tasks -> ExitCodes \cup {NoCode}]
  /\ monitors \subseteq Monitor
  /\ outcomes \in Seq(TaskOutcome)
  /\ Len(outcomes) <= BufSize
  /\ retries \in [Tasks -> 0..MaxRetries]
  /\ handoffs \in [Tasks -> 0..MaxHandoffs]
  /\ gaps \in Nat
  /\ aborted \in BOOLEAN
  /\ reason \in AbortReason
  /\ cancelled \in BOOLEAN
  /\ phase \in Phase
  /\ todo \subseteq Tasks
  /\ spawning \in [task: Tasks \cup {NoTask}, worker: Workers \cup {NoWorker}]
  /\ (phase = "spawn") => (spawning.task \in Tasks /\ spawning.worker \in Workers)
  /\ result \in Result
  /\ faults \in 0..MaxFaults

NoSpawn == [task |-> NoTask, worker |-> NoWorker]

\* Engine.Run: the branch's tasks are open and unassigned, or were made terminal
\* by an earlier lifecycle.
Init ==
  /\ status \in [Tasks -> {"open"} \cup Terminal]
  /\ assignee \in [Tasks -> Workers \cup {NoWorker}]
  /\ \A t \in Tasks : status[t] = "open" => assignee[t] = NoWorker
  /\ escalation = [t \in Tasks |-> "none"]
  /\ current = [w \in Workers |-> NoTask]
  /\ session = [w \in Workers |-> NoTask]
  /\ sidecar = [t \in Tasks |-> NoCode]
  /\ monitors = {}
  /\ outcomes = <<>>
  /\ retries = [t \in Tasks |-> 0]
  /\ handoffs = [t \in Tasks |-> 0]
  /\ gaps = 0
  /\ aborted = FALSE
  /\ reason = ""
  /\ cancelled = FALSE
  /\ phase = "sleep"
  /\ todo = {}
  /\ spawning = NoSpawn
  /\ result = "none"
  /\ faults = 0

-----------------------------------------------------------------------------
(* Failing calls *)

\* Which call of a handler fails: the write that re-opens a task for a retry,
\* every write of the task, the worker's release, the escalation's creation, or
\* writes of abortCleanup.
FaultKind == {"none", "retry", "update", "release", "create", "cleanup"}

Strike(f) ==
  IF f = "none" THEN UNCHANGED faults
  ELSE faults < MaxFaults /\ faults' = faults + 1

-----------------------------------------------------------------------------
(* The ledger and the worker pool *)

ReadyIgnoresDeps(t) ==
  status[t] = "open" /\ assignee[t] = NoWorker

\* Store.ReadyTasks: open, unassigned, every dependency terminal.
Ready(t) ==
  /\ status[t] = "open"
  /\ assignee[t] = NoWorker
  /\ \A d \in Deps[t] : status[d] \in Terminal

Idle(w) == current[w] = NoTask

AllocatedFirst(w) == w = 1

\* WorkerPool.Allocate: the first idle worker; none means ErrPoolExhausted.
Allocated(w) == Idle(w) /\ \A v \in Workers : Idle(v) => w <= v

ReleaseKeepsWorker(w, f) ==
  UNCHANGED current /\ session' = [session EXCEPT ![w] = NoTask]

\* WorkerPool.Release kills the session and idles the worker.  Its kill or its
\* UpdateWorker may fail; the caller only warns.
Release(w, f) ==
  IF f = "release"
  THEN /\ UNCHANGED current
       /\ session' \in {session, [session EXCEPT ![w] = NoTask]}
  ELSE /\ current' = [current EXCEPT ![w] = NoTask]
       /\ session' = [session EXCEPT ![w] = NoTask]

-----------------------------------------------------------------------------
(* Abort *)

AbortCleanupBlocksAll(st, esc, f) ==
  /\ status' = [t \in Tasks |-> "blocked"]
  /\ escalation' = esc

\* abortCleanup: block every open task of the branch, escalations included.
\* st and esc are the records as written so far by the same handler.
AbortCleanup(st, esc, f) ==
  \E missed \in (IF f = "cleanup" THEN SUBSET Tasks ELSE {{}}) :
    /\ status' = [t \in Tasks |->
         IF st[t] = "open" /\ t \notin missed THEN "blocked" ELSE st[t]]
    /\ escalation' = [t \in Tasks |->
         IF esc[t] = "open" /\ t \notin missed THEN "blocked" ELSE esc[t]]

\* AbortLifecycle, and the abort branches of handleTerminalFailure; the first
\* reason recorded wins.
AbortLifecycle(st, esc, why, f) ==
  /\ aborted' = TRUE
  /\ reason' = IF reason = "" THEN why ELSE reason
  /\ AbortCleanup(st, esc, f)

GapAbortsOffByOne == gaps + 1 > GapTolerance

\* GapTracker.IncrementAndCheck
GapAborts == gaps + 1 >= GapTolerance

\* handleTerminalFailure: a critical task aborts, any other one is a gap.
HandleTerminalFailure(t, st, f) ==
  IF t \in Critical
  THEN /\ AbortLifecycle(st, escalation, "critical_task_failure", f)
       /\ UNCHANGED gaps
  ELSE /\ gaps' = gaps + 1
       /\ IF GapAborts
          THEN AbortLifecycle(st, escalation, "gap_tolerance_exceeded", f)
          ELSE status' = st /\ UNCHANGED <<escalation, aborted, reason>>

-----------------------------------------------------------------------------
(* Outcome processing *)

CanRetryOffByOne(t) == retries[t] <= MaxRetries

\* RetryState.CanRetry
CanRetry(t) == retries[t] < MaxRetries

\* terminateAndRelease, the store write having persisted: o.Task is written
\* back whole, its assignee as it was at dispatch.  The caller gives status'.
TerminateAndRelease(t, w, f) ==
  /\ assignee' = [assignee EXCEPT ![t] = w]
  /\ Release(w, f)

\* terminateAndRelease, the store write having failed: nothing is released or
\* emitted, the outcome is consumed.  s: the sessions left behind.
OutcomeLost(s) ==
  /\ session' = s
  /\ UNCHANGED <<ledger, retries, gaps, aborted, reason>>

\* onPlannerCompleted, installed by the engine as the post-success hook.
PostSuccessHook(t, st, f) ==
  \/ /\ t \in Planners
     /\ AbortLifecycle(st, [escalation EXCEPT
          ![t] = IF @ = "none" /\ f # "create" THEN "open" ELSE @], "graph_invalid", f)
  \/ status' = st /\ UNCHANGED <<escalation, aborted, reason>>

HandleSuccess(t, w, f) ==
  IF f = "update" THEN OutcomeLost(session)
  ELSE /\ TerminateAndRelease(t, w, f)
       /\ PostSuccessHook(t, [status EXCEPT ![t] = "completed"], f)
       /\ UNCHANGED <<retries, gaps>>

HandleBlocked(t, w, f) ==
  IF f = "update" THEN OutcomeLost(session)
  ELSE /\ TerminateAndRelease(t, w, f)
       /\ HandleTerminalFailure(t, [status EXCEPT ![t] = "blocked"], f)
       /\ UNCHANGED retries

\* handleFailure's retry branch: the task is open again for a later tick.
RetryTask(t, w, f) ==
  /\ status' = [status EXCEPT ![t] = "open"]
  /\ assignee' = [assignee EXCEPT ![t] = NoWorker]
  /\ retries' = [retries EXCEPT ![t] = @ + 1]
  /\ Release(w, f)
  /\ UNCHANGED <<escalation, gaps, aborted, reason>>

\* handleFailure; a retry that cannot be written becomes a terminal failure.
HandleFailure(t, w, f, s) ==
  IF f = "update" THEN OutcomeLost(s)
  ELSE IF CanRetry(t) /\ f # "retry" THEN RetryTask(t, w, f)
  ELSE /\ TerminateAndRelease(t, w, f)
       /\ HandleTerminalFailure(t, [status EXCEPT ![t] = "failed"], f)
       /\ UNCHANGED retries

\* HandoffState.TryRecord: check and increment under one mutex.
TryRecord(t) ==
  /\ handoffs[t] < MaxHandoffs
  /\ handoffs' = [handoffs EXCEPT ![t] = @ + 1]

\* SpawnSession: create the session, worker active, task in_progress.  a is the
\* assignee in the caller's copy of the task, which is written back whole.
SpawnSession(t, w, a) ==
  /\ session' = [session EXCEPT ![w] = t]
  /\ current' = [current EXCEPT ![w] = t]
  /\ status' = [status EXCEPT ![t] = "in_progress"]
  /\ assignee' = [assignee EXCEPT ![t] = a]

\* handleHandoff.  Within budget the session is restarted; nothing is launched
\* to monitor the new one.  A restart that fails, and an exhausted budget, are
\* a failure.
HandleHandoff(t, w, f) ==
  \/ /\ TryRecord(t)
     /\ \/ /\ f = "none"
           /\ SpawnSession(t, w, w)
           /\ UNCHANGED <<escalation, retries, gaps, aborted, reason>>
        \/ HandleFailure(t, w, f, [session EXCEPT ![w] = NoTask])
  \/ /\ handoffs[t] >= MaxHandoffs
     /\ HandleFailure(t, w, f, session)
     /\ UNCHANGED handoffs

\* processOutcome
ProcessOutcome(o, f) ==
  \/ o.outcome = "success" /\ HandleSuccess(o.task, o.worker, f) /\ UNCHANGED handoffs
  \/ o.outcome = "failure" /\ HandleFailure(o.task, o.worker, f, session) /\ UNCHANGED handoffs
  \/ o.outcome = "blocked" /\ HandleBlocked(o.task, o.worker, f) /\ UNCHANGED handoffs
  \/ o.outcome = "handoff" /\ HandleHandoff(o.task, o.worker, f)

\* One iteration of Drain, in Tick or after Wait in runLoop.
DrainOne ==
  /\ phase \in {"drain", "final"}
  /\ outcomes # <<>>
  /\ outcomes' = Tail(outcomes)
  /\ \E f \in FaultKind : Strike(f) /\ ProcessOutcome(Head(outcomes), f)
  /\ UNCHANGED <<sidecar, monitors, control>>

-----------------------------------------------------------------------------
(* Tick *)

Goto(p) == phase' = p /\ UNCHANGED <<cancelled, todo, spawning, result>>

\* Run returned r; runLoop cancels mergedCtx and waits for the goroutines.
Return(r) ==
  /\ phase' = "wait"
  /\ result' = r
  /\ cancelled' = TRUE
  /\ UNCHANGED <<todo, spawning>>

\* Run: the context is checked before a tick and while waiting for the next.
StartTick ==
  /\ phase = "sleep"
  /\ \/ ~cancelled /\ Goto("drain")
     \/ cancelled /\ Return("cancelled")
  /\ UNCHANGED <<ledger, agents, budgets, faults>>

\* Drain found the channel empty.
DrainDone ==
  /\ phase = "drain"
  /\ outcomes = <<>>
  /\ Goto("orphans")
  /\ UNCHANGED <<ledger, agents, budgets, faults>>

\* orphanCk and failStuckTasks of a dispatcher that has no watchdog.
NoWatchdog ==
  /\ phase = "orphans"
  /\ Goto("abort")
  /\ UNCHANGED <<ledger, agents, budgets, faults>>

\* Tick step 3, then the snapshot of ReadyTasks that dispatch iterates over.
CheckAbort ==
  /\ phase = "abort"
  /\ \/ aborted /\ Return("aborted") /\ UNCHANGED faults
     \/ /\ ~aborted
        /\ phase' = "dispatch"
        /\ todo' = {t \in Tasks : Ready(t)}
        /\ UNCHANGED <<cancelled, spawning, result, faults>>
     \/ ~aborted /\ Strike("update") /\ Return("error")   \* ReadyTasks failed
  /\ UNCHANGED <<ledger, agents, budgets>>

\* The next task of the snapshot, in dispatch order.
NextTodo(t) == t \in todo /\ \A u \in todo : t <= u

\* createEscalation: an unknown role gets an open escalation task, the task
\* itself is blocked.
CreateEscalation ==
  /\ phase = "dispatch"
  /\ \E t \in UnknownRole :
       /\ NextTodo(t)
       /\ todo' = todo \ {t}
       /\ \E f \in {"none", "create", "update"} :
            /\ Strike(f)
            /\ escalation' = IF f = "create" THEN escalation
                 ELSE [escalation EXCEPT ![t] = IF @ = "none" THEN "open" ELSE @]
            /\ status' = IF f = "update" THEN status
                 ELSE [status EXCEPT ![t] = "blocked"]
  /\ UNCHANGED <<assignee, current, agents, budgets, cancelled, phase,
                 spawning, result>>

\* Allocate and Store.Assign: task and worker change together.
Assign ==
  /\ phase = "dispatch"
  /\ \E t \in Tasks \ UnknownRole, w \in Workers :
       /\ NextTodo(t)
       /\ Allocated(w)
       /\ status[t] = "open"
       /\ assignee[t] = NoWorker
       /\ status' = [status EXCEPT ![t] = "assigned"]
       /\ assignee' = [assignee EXCEPT ![t] = w]
       /\ current' = [current EXCEPT ![w] = t]
       /\ spawning' = [task |-> t, worker |-> w]
       /\ todo' = todo \ {t}
  /\ phase' = "spawn"
  /\ UNCHANGED <<escalation, agents, budgets, cancelled, result, faults>>

\* Store.Assign refused (the task is no longer open and unassigned) or failed:
\* the worker goes back to the pool, the next task is tried.  Allocate and Assign
\* are one step: nobody takes the worker in between.
AssignFails ==
  /\ phase = "dispatch"
  /\ \E t \in Tasks \ UnknownRole, w \in Workers :
       /\ NextTodo(t)
       /\ Allocated(w)
       /\ \/ Strike("update")
          \/ ~(status[t] = "open" /\ assignee[t] = NoWorker) /\ UNCHANGED faults
       /\ Release(w, "none")
       /\ todo' = todo \ {t}
  /\ UNCHANGED <<status, assignee, escalation, sidecar, monitors, outcomes,
                 budgets, cancelled, phase, spawning, result>>

\* The snapshot is exhausted, or Allocate returned ErrPoolExhausted or failed.
DispatchDone ==
  /\ phase = "dispatch"
  /\ \/ todo = {} /\ UNCHANGED faults
     \/ \E t \in Tasks \ UnknownRole :
          /\ NextTodo(t)
          /\ \/ (\A w \in Workers : ~Idle(w)) /\ UNCHANGED faults
             \/ Strike("update")
  /\ phase' = "check"
  /\ todo' = {}
  /\ UNCHANGED <<ledger, agents, budgets, cancelled, spawning, result>>

\* SpawnSession succeeded and the runAgent goroutine is launched.  tmux refuses
\* a second session under a name that is alive.
Spawn ==
  /\ phase = "spawn"
  /\ LET t == spawning.task
         w == spawning.worker
     IN /\ session[w] = NoTask
        /\ SpawnSession(t, w, w)
        /\ monitors' = monitors \cup {[task |-> t, worker |-> w,
                          attempt |-> retries[t], outcome |-> "none"]}
  /\ phase' = "dispatch"
  /\ spawning' = NoSpawn
  /\ UNCHANGED <<escalation, sidecar, outcomes, budgets, cancelled, todo,
                 result, faults>>

\* SpawnSession failed and rolled back, or the task could not be re-read after
\* Assign and a stand-in without an assignee is written ("read");
\* failTaskAndRelease is best effort and skips handleTerminalFailure.
SpawnFails ==
  /\ phase = "spawn"
  /\ \E f \in {"none", "read", "update", "release"} :
       /\ Strike(f)
       /\ assignee' = IF f = "read" THEN [assignee EXCEPT ![spawning.task] = NoWorker]
                      ELSE assignee
       /\ status' = IF f = "update" THEN status
                    ELSE [status EXCEPT ![spawning.task] = "failed"]
       /\ Release(spawning.worker, f)
  /\ phase' = "dispatch"
  /\ spawning' = NoSpawn
  /\ UNCHANGED <<escalation, sidecar, monitors, outcomes, budgets,
                 cancelled, todo, result>>

\* checkTermination: no task, no escalation and no worker left to wait for.
Terminated ==
  /\ Tasks # {}
  /\ \A t \in Tasks : status[t] \in Terminal /\ escalation[t] # "open"
  /\ \A w \in Workers : Idle(w)

\* Tick steps 5 and 6; Refresh of the lifecycle lock may fail.
CheckTermination ==
  /\ phase = "check"
  /\ \/ Terminated /\ Return("done") /\ UNCHANGED faults
     \/ ~Terminated /\ Goto("sleep") /\ UNCHANGED faults
     \/ Strike("update") /\ Goto("sleep")                  \* a listing failed
     \/ ~Terminated /\ Strike("update") /\ Return("error")
  /\ UNCHANGED <<ledger, agents, budgets>>

-----------------------------------------------------------------------------
(* Shutdown: Engine.runLoop after Dispatcher.Run returned *)

\* SIGINT, SIGTERM or the caller's context.
Signal ==
  /\ ~cancelled
  /\ cancelled' = TRUE
  /\ UNCHANGED <<ledger, agents, budgets, phase, todo, spawning, result, faults>>

\* disp.Wait() returns when every runAgent goroutine has.
WaitDone ==
  /\ phase = "wait"
  /\ monitors = {}
  /\ Goto("final")
  /\ UNCHANGED <<ledger, agents, budgets, faults>>

\* The final Drain is over; Cleanup kills the tmux server, or fails to, and
\* releases the lock.
Cleanup ==
  /\ phase = "final"
  /\ outcomes = <<>>
  /\ \/ session' = [w \in Workers |-> NoTask] /\ UNCHANGED faults
     \/ UNCHANGED session /\ Strike("release")
  /\ Goto("released")
  /\ UNCHANGED <<ledger, sidecar, monitors, outcomes, budgets>>

\* The process has ended.
Ended == phase = "released" /\ UNCHANGED vars

-----------------------------------------------------------------------------
(* Agent sessions (external) and the goroutines that monitor them *)

\* An agent ends: the shell wrapper writes its exit code to the task's sidecar.
AgentExit(w) ==
  /\ session[w] # NoTask
  /\ \E code \in ExitCodes : sidecar' = [sidecar EXCEPT ![session[w]] = code]
  /\ session' = [session EXCEPT ![w] = NoTask]
  /\ UNCHANGED <<ledger, monitors, outcomes, budgets, control, faults>>

\* An agent dies without its wrapper writing the sidecar (kill, OOM).
AgentKilled(w) ==
  /\ session[w] # NoTask
  /\ session' = [session EXCEPT ![w] = NoTask]
  /\ UNCHANGED <<ledger, sidecar, monitors, outcomes, budgets, control, faults>>

DetermineOutcome(code) ==
  CASE code = 0 -> "success"
    [] code = 2 -> "blocked"
    [] code = 3 -> "handoff"
    [] OTHER -> "failure"

\* The goroutine leaves its poll loop with an outcome it has yet to send.
Determined(m, o) == monitors' = (monitors \ {m}) \cup {[m EXCEPT !.outcome = o]}

\* A poll finds no session under the worker's name; the exit code is whatever
\* the task's sidecar holds.
MonitorExit(m) ==
  /\ m.outcome = "none"
  /\ session[m.worker] = NoTask
  /\ Determined(m, DetermineOutcome(sidecar[m.task]))
  /\ UNCHANGED <<ledger, session, sidecar, outcomes, budgets, control, faults>>

\* The session deadline expires, or the context is done: the session under the
\* worker's name is killed, or the kill fails, and the agent counts as failed
\* with exit code 1.
MonitorKill(m) ==
  /\ m.outcome = "none"
  /\ \/ session' = [session EXCEPT ![m.worker] = NoTask] /\ UNCHANGED faults
     \/ UNCHANGED session /\ Strike("release")
  /\ Determined(m, "failure")
  /\ UNCHANGED <<ledger, sidecar, outcomes, budgets, control>>

MonitorSendTwice(m) ==
  /\ m.outcome # "none"
  /\ Len(outcomes) < BufSize
  /\ outcomes' = Append(outcomes,
       [task |-> m.task, worker |-> m.worker, outcome |-> m.outcome])
  /\ UNCHANGED <<ledger, session, sidecar, monitors, budgets, control, faults>>

\* outcomes <- TaskOutcome{...} blocks while the buffer is full.
MonitorSend(m) ==
  /\ m.outcome # "none"
  /\ Len(outcomes) < BufSize
  /\ outcomes' = Append(outcomes,
       [task |-> m.task, worker |-> m.worker, outcome |-> m.outcome])
  /\ monitors' = monitors \ {m}
  /\ UNCHANGED <<ledger, session, sidecar, budgets, control, faults>>

\* A human closes an escalation task in the ledger.
ResolveEscalation(t) ==
  /\ escalation[t] = "open"
  /\ escalation' = [escalation EXCEPT ![t] = "completed"]
  /\ UNCHANGED <<status, assignee, current, agents, budgets, control, faults>>

-----------------------------------------------------------------------------
(* Specification *)

DispatchStep ==
  \/ StartTick \/ DrainOne \/ DrainDone \/ CheckAbort
  \/ CreateEscalation \/ Assign \/ AssignFails \/ DispatchDone
  \/ Spawn \/ SpawnFails \/ CheckTermination
  \/ WaitDone \/ Cleanup

MonitorStep(m) == MonitorExit(m) \/ MonitorKill(m) \/ MonitorSend(m)

AgentStep(w) == AgentExit(w) \/ AgentKilled(w)

Next ==
  \/ DispatchStep
  \/ NoWatchdog
  \/ Signal
  \/ Ended
  \/ \E w \in Workers : AgentStep(w)
  \/ \E m \in monitors : MonitorStep(m)
  \/ \E t \in Tasks : ResolveEscalation(t)

Spec == Init /\ [][Next]_vars

-----------------------------------------------------------------------------
(* Properties *)

\* Every outcome that a runAgent goroutine will send, or that waits in the
\* channel, is about a task that is still in progress on that very worker, and
\* no task has two: no handler can act on a task somebody else has moved on.
\* (The handlers write back the copy of the task taken at dispatch.)
OutcomesCurrent ==
  /\ \A m \in monitors :
       status[m.task] = "in_progress" /\ current[m.worker] = m.task
  /\ \A i \in DOMAIN outcomes :
       /\ status[outcomes[i].task] = "in_progress"
       /\ current[outcomes[i].worker] = outcomes[i].task
  /\ \A m, n \in monitors : m.task = n.task => m = n
  /\ \A i, j \in DOMAIN outcomes : outcomes[i].task = outcomes[j].task => i = j
  /\ \A m \in monitors, i \in DOMAIN outcomes : m.task # outcomes[i].task

\* BVV-S-02: no step of the orchestrator moves a task out of a terminal status,
\* or from one terminal status to another.
TerminalIrreversible ==
  [][\A t \in Tasks : status[t] \in Terminal => status'[t] = status[t]]_vars

\* BVV-S-04, over the whole execution and not only at the dispatch: while a
\* task is assigned or runs, all its dependencies are terminal.
DependencyOrdering ==
  \A t \in Tasks : status[t] \in Running => \A d \in Deps[t] : status[d] \in Terminal

\* BVV-S-03 and the pairing terminateAndRelease keeps: as long as no store or
\* tmux call has failed, a worker is active exactly on the task that is
\* assigned to it and runs, so a task never has two workers.
WorkerOwnership ==
  faults = 0 =>
    /\ \A w \in Workers : current[w] # NoTask =>
         status[current[w]] \in Running /\ assignee[current[w]] = w
    /\ \A t \in Tasks : status[t] \in Running =>
         assignee[t] \in Workers /\ current[assignee[t]] = t

\* While dispatch walks its snapshot, the task it is about to spawn for is still
\* assigned to the worker it was paired with, and the rest of the snapshot is
\* still ready: nothing was read from the store that has changed since.
SnapshotCurrent ==
  /\ phase = "spawn" =>
       /\ status[spawning.task] = "assigned"
       /\ current[spawning.worker] = spawning.task
  /\ phase \in {"dispatch", "spawn"} => \A t \in todo : Ready(t)

\* The number of outcomes still to come.
Outstanding == Cardinality(monitors) + Len(outcomes)

\* Gaps overshoot the tolerance by at most MaxWorkers - 1 (the comment in
\* handleTerminalFailure, TestProp_GapBoundedOvershoot), without a watchdog; a
\* tolerance of 0 acts like 1.
GapLimit == IF GapTolerance = 0 THEN 1 ELSE GapTolerance
GapOvershootBounded == gaps <= GapLimit + MaxWorkers - 1

\* Without a watchdog there is at most one outcome to come per worker, and the
\* buffer holds as many (BufSize >= MaxWorkers): no send blocks, and disp.Wait()
\* in runLoop cannot hang while nobody receives.  (With one: OutcomesBounded.)
ChannelHasRoom == Outstanding <= MaxWorkers

\* BVV-ERR-03/04: once the lifecycle aborted no further task starts running.
AbortStopsDispatch ==
  [][aborted => \A t \in Tasks : status'[t] \in Running => status[t] \in Running]_vars
=============================================================================
