------------------------------ MODULE Recovery ------------------------------
(***************************************************************************)
(* Crashes, `wonka resume` and repeated `wonka run`: Engine.Run,           *)
(* Engine.Resume, Reconcile (orch/resume.go), the planner hook and its     *)
(* replay, SeedPlannerTask (internal/cmd/seed.go).                         *)
(*                                                                         *)
(* What survives the process is the ledger, the tmux sessions and the      *)
(* event log; retry, handoff and gap counters live in memory and are       *)
(* rebuilt from the log.  Every handler is therefore given as the memory   *)
(* it changes and the sequence of durable writes it performs (steps), and  *)
(* a crash may come before any of them.  The dispatch loop is reduced to   *)
(* one handler at a time; how its goroutines interleave is the subject of  *)
(* Dispatcher and Supervision.  What is kept of that is the runAgent       *)
(* goroutine, or its outcome, that the watchdog leaves behind when it      *)
(* deals with a dead session before the dispatcher does: a stray.          *)
(*                                                                         *)
(*   down -> seed ----------------------------------------------> loop     *)
(*   down -> reset -> kill -> recover -> workers -> reopens -> replay ->   *)
(***************************************************************************)
EXTENDS Integers, Sequences, FiniteSets

CONSTANTS
  Tasks,         \* the planner and the tasks it creates
  Planner,       \* plan-<branch>
  Critical,      \* tasks with criticality:critical, the planner among them
  MaxWorkers,
  MaxRetries,
  MaxHandoffs,
  GapTolerance,
  MaxDowns,      \* bound: how often the process ends or crashes
  MaxRuns,       \* bound: invocations of `wonka run`
  MaxReopens,    \* bound: tasks re-opened by a human
  MaxStrays,     \* bound: goroutines the watchdog leaves behind
  MaxSpawnFailures, \* bound: dispatches whose SpawnSession fails
  MaxTrips,      \* bound: tasks failed because the circuit breaker tripped
  MaxOrders      \* bound: versions of the work order

ASSUME RecoveryAssumption ==
  /\ Tasks \subseteq Nat \ {0} /\ Critical \subseteq Tasks /\ Planner \in Critical
  /\ MaxWorkers \in Nat \ {0} /\ MaxRetries \in Nat /\ MaxHandoffs \in Nat
  /\ GapTolerance \in Nat /\ MaxDowns \in Nat /\ MaxRuns \in Nat
  /\ MaxReopens \in Nat /\ MaxOrders \in Nat \ {0}
  /\ MaxStrays \in Nat /\ MaxSpawnFailures \in Nat /\ MaxTrips \in Nat

Workers == 1..MaxWorkers
NoTask == 0
NoWorker == 0
Running == {"assigned", "in_progress"}
Terminal == {"completed", "failed", "blocked"}
Status == {"absent", "open"} \cup Running \cup Terminal
Code == {"success", "failure", "blocked", "handoff"}
Polling == "polling"
Graph == {"absent", "valid", "invalid"}
Mode == {"down", "seed", "reset", "kill", "recover", "workers", "reopens",
         "replay", "loop", "stopping"}

VARIABLES
  status, assignee,  \* ledger: the tasks; absent until created
  escalation,        \* ledger: escalation-graph-<planner>
  current,           \* ledger: the task of an active worker
  graph,             \* ledger: the shape of what the planner has written
  orderHash,         \* ledger: work-order-hash label of the planner
  order,             \* disk: version of the work order
  session,           \* tmux: the task whose agent runs in the worker's session
  sidecar,           \* disk: exit code last written for the task
  log,               \* events.jsonl: the events recoverFromEventLog looks at
  retries, handoffs, gaps, aborted,   \* memory: the engine's state machines
  monitored,         \* memory: workers with a runAgent goroutine for their task
  left,              \* memory: goroutines left behind, with the code they read
  mode, steps,       \* memory: where the engine is; writes it has yet to do
  todo, live,        \* memory: Reconcile step 1's tasks; those found alive
  reopens, seen,     \* memory: HumanReopens, GraphValidationSeen
  checked,           \* history: the planner's last graph has been validated
  launched,          \* history: sessions started for the task
  crashed,           \* history: the last process did not end in an orderly way
  strays,            \* history: how many were left behind, over all processes
  spawnFailures,     \* history: dispatches whose SpawnSession failed
  trips,             \* history: tasks failed because the circuit breaker tripped
  downs, runs, humanReopens           \* history: counts for the bounds

ledger == <<status, assignee, escalation, current, graph, orderHash>>
outside == <<order, session, sidecar>>
memory == <<retries, handoffs, gaps, aborted, monitored, left>>
resuming == <<todo, live, reopens, seen>>
faults == <<strays, spawnFailures, trips>>
history == <<checked, launched, crashed, faults, downs, runs, humanReopens>>
vars == <<ledger, outside, log, memory, mode, steps, resuming, history>>

Event(k, t) == [kind |-> k, task |-> t]

\* A durable write that a handler has still to do.
NoArg == "none"
TaskStep(t, s, w) == [op |-> "task", task |-> t, worker |-> w, arg |-> s]
WorkerStep(w, t) == [op |-> "worker", task |-> t, worker |-> w, arg |-> NoArg]
SessionStep(w, t) == [op |-> "session", task |-> t, worker |-> w, arg |-> NoArg]
EmitStep(k, t) == [op |-> "emit", task |-> t, worker |-> NoWorker, arg |-> k]
EscalateStep == [op |-> "escalate", task |-> NoTask, worker |-> NoWorker, arg |-> NoArg]
BlockStep == [op |-> "block", task |-> NoTask, worker |-> NoWorker, arg |-> NoArg]

TypeOK ==
  /\ status \in [Tasks -> Status]
  /\ assignee \in [Tasks -> Workers \cup {NoWorker}]
  /\ escalation \in {"absent", "open", "blocked"}
  /\ current \in [Workers -> Tasks \cup {NoTask}]
  /\ session \in [Workers -> Tasks \cup {NoTask}]
  /\ graph \in Graph
  /\ sidecar \in [Tasks -> Code \cup {"none"}]
  /\ \A i \in DOMAIN log : log[i].task \in Tasks
  /\ retries \in [Tasks -> Nat] /\ handoffs \in [Tasks -> Nat] /\ gaps \in Nat
  /\ monitored \subseteq Workers
  /\ left \subseteq [task: Tasks, worker: Workers, code: Code \cup {Polling}]
  /\ strays \in Nat /\ spawnFailures \in Nat /\ trips \in Nat
  /\ mode \in Mode
  /\ mode \notin {"loop", "stopping"} => steps = <<>> /\ monitored = {}

Init ==
  /\ status = [t \in Tasks |-> "absent"]
  /\ assignee = [t \in Tasks |-> NoWorker]
  /\ escalation = "absent"
  /\ current = [w \in Workers |-> NoTask]
  /\ graph = "absent"
  /\ orderHash = 0
  /\ order = 1
  /\ session = [w \in Workers |-> NoTask]
  /\ sidecar = [t \in Tasks |-> "none"]
  /\ log = <<>>
  /\ retries = [t \in Tasks |-> 0]
  /\ handoffs = [t \in Tasks |-> 0]
  /\ gaps = 0
  /\ aborted = FALSE
  /\ monitored = {} /\ left = {}
  /\ mode = "down"
  /\ steps = <<>>
  /\ todo = {} /\ live = {} /\ reopens = {} /\ seen = FALSE
  /\ checked = FALSE
  /\ launched = [t \in Tasks |-> 0]
  /\ crashed = FALSE
  /\ strays = 0 /\ spawnFailures = 0 /\ trips = 0
  /\ downs = 0 /\ runs = 0 /\ humanReopens = 0

-----------------------------------------------------------------------------
(* recoverFromEventLog *)

Count(k, t) == Cardinality({i \in DOMAIN log : log[i] = Event(k, t)})

RecoveredGapsNone == 0

\* One gap per gap_recorded event.
RecoveredGaps == Cardinality({i \in DOMAIN log : log[i].kind = "gap_recorded"})

TerminalHistoryRetried(t) == \E i \in DOMAIN log :
  log[i].task = t /\ log[i].kind \in {"task_completed", "task_failed", "task_retried"}

\* terminalHistory has the task; nothing ever removes it.
TerminalHistory(t) == \E i \in DOMAIN log :
  log[i].task = t /\ log[i].kind \in {"task_completed", "task_failed", "task_blocked"}

GraphValidationSeenEver == \E i \in DOMAIN log :
  log[i].task = Planner /\ log[i].kind \in {"graph_validated", "graph_invalid"}

\* graphValidationSeen: a graph_* event without a later escalation_resolved.
GraphValidationSeen == \E i \in DOMAIN log :
  /\ log[i].task = Planner
  /\ log[i].kind \in {"graph_validated", "graph_invalid"}
  /\ \A j \in DOMAIN log : j > i => log[j] # Event("escalation_resolved", Planner)

-----------------------------------------------------------------------------
(* The dispatch loop *)

Ready(t) ==
  /\ status[t] = "open"
  /\ assignee[t] = NoWorker
  /\ t # Planner => status[Planner] \in Terminal

Free == mode \in {"loop", "stopping"} /\ steps = <<>>

\* dispatch: Assign writes task and worker, SpawnSession starts the session and
\* writes the task again.
Dispatch ==
  /\ mode = "loop" /\ steps = <<>> /\ ~aborted
  /\ \E t \in Tasks, w \in Workers :
       /\ Ready(t)
       /\ current[w] = NoTask
       /\ \A v \in Workers : current[v] = NoTask => w <= v
       /\ steps' = <<TaskStep(t, "assigned", w), WorkerStep(w, t),
                     SessionStep(w, t), TaskStep(t, "in_progress", w)>>
       /\ monitored' = monitored \cup {w}
  /\ UNCHANGED <<ledger, outside, log, retries, handoffs, gaps, aborted, left, mode,
                 resuming, history>>

\* terminateAndRelease
Terminate(t, w, s, k) == <<TaskStep(t, s, w), WorkerStep(w, NoTask), EmitStep(k, t)>>

\* SpawnSession fails, before the session exists or at its last write, and takes
\* the session back; failTaskAndRelease fails the task, without a gap or an abort.
SpawnFails ==
  /\ mode = "loop" /\ spawnFailures < MaxSpawnFailures
  /\ \E t \in Tasks, w \in Workers :
       /\ status[t] = "assigned"
       /\ steps \in {<<SessionStep(w, t), TaskStep(t, "in_progress", w)>>,
                     <<TaskStep(t, "in_progress", w)>>}
       /\ session' = [session EXCEPT ![w] = NoTask]
       /\ monitored' = monitored \ {w}
       /\ steps' = Terminate(t, w, "failed", "task_failed")
  /\ spawnFailures' = spawnFailures + 1
  /\ UNCHANGED <<ledger, order, sidecar, log, retries, handoffs, gaps, aborted, left,
                 mode, resuming, checked, launched, crashed, strays, trips, downs,
                 runs, humanReopens>>

\* handleTerminalFailure
GapReached == gaps + 1 >= GapTolerance
TerminalFailure(t, w, s, k) ==
  /\ steps' = Terminate(t, w, s, k) \o
       (IF t \in Critical THEN <<BlockStep>>
        ELSE <<EmitStep("gap_recorded", t)>> \o (IF GapReached THEN <<BlockStep>> ELSE <<>>))
  /\ gaps' = IF t \in Critical THEN gaps ELSE gaps + 1
  /\ aborted' = (aborted \/ t \in Critical \/ GapReached)

\* onPlannerCompleted: the escalation is created before graph_invalid is
\* emitted, and only then the lifecycle aborts.
HookSteps ==
  IF graph = "valid" THEN <<EmitStep("graph_validated", Planner)>>
  ELSE <<EscalateStep, EmitStep("graph_invalid", Planner), BlockStep>>

HandleSuccess(t, w) ==
  /\ steps' = Terminate(t, w, "completed", "task_completed") \o
       (IF t = Planner THEN HookSteps ELSE <<>>)
  /\ aborted' = (aborted \/ (t = Planner /\ graph # "valid"))
  /\ UNCHANGED <<retries, gaps>>

\* handleFailure: the retry is written to the ledger before it is logged.
HandleFailure(t, w) ==
  IF retries[t] < MaxRetries
  THEN /\ steps' = <<TaskStep(t, "open", NoWorker), WorkerStep(w, NoTask),
                     EmitStep("task_retried", t)>>
       /\ retries' = [retries EXCEPT ![t] = @ + 1]
       /\ UNCHANGED <<gaps, aborted>>
  ELSE TerminalFailure(t, w, "failed", "task_failed") /\ UNCHANGED retries

\* handleHandoff: a restart is logged after it happened; a restart that fails
\* has used up the budget all the same.
HandleHandoff(t, w) ==
  \/ /\ handoffs[t] < MaxHandoffs
     /\ handoffs' = [handoffs EXCEPT ![t] = @ + 1]
     /\ \/ /\ steps' = <<SessionStep(w, t), TaskStep(t, "in_progress", w),
                         EmitStep("task_handoff", t)>>
           /\ UNCHANGED <<retries, gaps, aborted>>
        \/ HandleFailure(t, w)
  \/ handoffs[t] >= MaxHandoffs /\ HandleFailure(t, w) /\ UNCHANGED handoffs

\* processOutcome
HandleOutcome(t, w, code) ==
  \/ code = "success" /\ HandleSuccess(t, w) /\ UNCHANGED handoffs
  \/ code = "failure" /\ HandleFailure(t, w) /\ UNCHANGED handoffs
  \/ /\ code = "blocked"
     /\ TerminalFailure(t, w, "blocked", "task_blocked")
     /\ UNCHANGED <<retries, handoffs>>
  \/ code = "handoff" /\ HandleHandoff(t, w)

\* What runAgent reads once the session is gone; no sidecar counts as a failure.
ExitCode(t) == IF sidecar[t] = "none" THEN "failure" ELSE sidecar[t]

\* The outcome of a worker whose session is gone.
ProcessOutcome ==
  /\ Free
  /\ \E w \in monitored :
       /\ session[w] = NoTask
       /\ monitored' = monitored \ {w}
       /\ HandleOutcome(current[w], w, ExitCode(current[w]))
  /\ UNCHANGED <<ledger, outside, log, left, mode, resuming, history>>

\* runAgent kills the session at its deadline or at shutdown: a failure whatever
\* the sidecar says.
ProcessKilled ==
  /\ Free
  /\ \E w \in monitored :
       /\ session' = [session EXCEPT ![w] = NoTask]
       /\ monitored' = monitored \ {w}
       /\ HandleFailure(current[w], w)
  /\ UNCHANGED <<ledger, order, sidecar, log, handoffs, left, mode, resuming, history>>

Stray(t, w, code) == [task |-> t, worker |-> w, code |-> code]

\* The outcome of a stray is handled like any other, with the task and the worker
\* it was started for, whoever has them by now.  A runAgent goroutine of the
\* worker's present task goes on polling a name that is no longer its own.
ProcessStray ==
  /\ Free
  /\ \E r \in left :
       /\ monitored' = monitored \ {r.worker}
       /\ left' = (left \ {r}) \cup
            {Stray(current[w], w, Polling) : w \in monitored \cap {r.worker}}
       /\ \/ /\ r.code # Polling
             /\ HandleOutcome(r.task, r.worker, r.code)
             /\ UNCHANGED session
          \/ /\ r.code = Polling /\ session[r.worker] = NoTask
             /\ HandleOutcome(r.task, r.worker, ExitCode(r.task))
             /\ UNCHANGED session
          \/ /\ r.code = Polling
             /\ session' = [session EXCEPT ![r.worker] = NoTask]
             /\ HandleFailure(r.task, r.worker) /\ UNCHANGED handoffs
  /\ UNCHANGED <<ledger, order, sidecar, log, mode, resuming, history>>

\* The watchdog acts for a worker whose runAgent goroutine is still there, or has
\* just sent the outcome it read.
LeavesBehind(w, codes) ==
  /\ w \in monitored /\ strays < MaxStrays
  /\ \E c \in codes : left' = left \cup {Stray(current[w], w, c)}
  /\ monitored' = monitored \ {w}
  /\ strays' = strays + 1
NobodyLeft == UNCHANGED <<monitored, left, strays>>

\* The watchdog finds a worker without a session: the handoff is logged before the
\* restart, which a goroutine that has not polled yet will not notice; or the
\* budget is exhausted and failStuckTasks fails the task.
Watchdog ==
  /\ mode = "loop" /\ steps = <<>>
  /\ \E w \in Workers :
       LET t == current[w] IN
       /\ t # NoTask
       /\ session[w] = NoTask
       /\ status[t] \notin Terminal
       /\ \/ /\ handoffs[t] < MaxHandoffs
             /\ handoffs' = [handoffs EXCEPT ![t] = @ + 1]
             /\ steps' = <<EmitStep("task_handoff", t), SessionStep(w, t),
                           TaskStep(t, "in_progress", assignee[t])>>
             /\ NobodyLeft \/ LeavesBehind(w, {ExitCode(t)})
             /\ UNCHANGED <<gaps, aborted>>
          \/ /\ handoffs[t] >= MaxHandoffs
             /\ TerminalFailure(t, w, "failed", "task_failed")
             /\ (w \notin monitored /\ NobodyLeft) \/ LeavesBehind(w, {Polling, ExitCode(t)})
             /\ UNCHANGED handoffs
  /\ UNCHANGED <<ledger, outside, log, retries, mode, resuming, checked, launched, crashed,
                 spawnFailures, trips, downs, runs, humanReopens>>

\* orphanCk: the circuit breaker has tripped, and one task is failed whether its agent
\* runs or not; the release of its worker ends the session.
OrphanCk ==
  /\ mode = "loop" /\ steps = <<>> /\ trips < MaxTrips
  /\ \E w \in Workers :
       LET t == current[w] IN
       /\ t # NoTask
       /\ status[t] \notin Terminal
       /\ TerminalFailure(t, w, "failed", "task_failed")
       /\ \/ w \notin monitored /\ NobodyLeft
          \/ LeavesBehind(w, {Polling})
          \/ session[w] = NoTask /\ LeavesBehind(w, {ExitCode(t)})
  /\ trips' = trips + 1
  /\ UNCHANGED <<ledger, outside, log, retries, handoffs, mode, resuming, checked, launched,
                 crashed, spawnFailures, downs, runs, humanReopens>>

\* abortCleanup, one task at a time.
Block ==
  \/ \E t \in Tasks : status[t] = "open"
       /\ status' = [status EXCEPT ![t] = "blocked"]
       /\ UNCHANGED <<escalation, steps>>
  \/ /\ escalation = "open"
     /\ escalation' = "blocked"
     /\ UNCHANGED <<status, steps>>
  \/ /\ \A t \in Tasks : status[t] # "open"
     /\ escalation # "open"
     /\ steps' = Tail(steps)
     /\ UNCHANGED <<status, escalation>>

\* The next durable write of the handler under way.  Release kills whatever runs
\* under the worker's name; CreateSession replaces it, and SpawnSession records the
\* task with the worker.
DoStep ==
  /\ steps # <<>>
  /\ LET s == Head(steps) IN
     \/ /\ s.op = "task"
        /\ status' = [status EXCEPT ![s.task] = s.arg]
        /\ assignee' = [assignee EXCEPT ![s.task] = s.worker]
        /\ steps' = Tail(steps)
        /\ UNCHANGED <<escalation, current, session, log, checked, launched>>
     \/ /\ s.op = "worker"
        /\ current' = [current EXCEPT ![s.worker] = s.task]
        /\ session' = IF s.task = NoTask THEN [session EXCEPT ![s.worker] = NoTask] ELSE session
        /\ steps' = Tail(steps)
        /\ UNCHANGED <<status, assignee, escalation, log, checked, launched>>
     \/ /\ s.op = "session"
        /\ session' = [session EXCEPT ![s.worker] = s.task]
        /\ current' = [current EXCEPT ![s.worker] = s.task]
        /\ launched' = [launched EXCEPT ![s.task] = @ + 1]
        /\ steps' = Tail(steps)
        /\ UNCHANGED <<status, assignee, escalation, log, checked>>
     \/ /\ s.op = "emit"
        /\ log' = Append(log, Event(s.arg, s.task))
        /\ checked' = (checked \/ s.arg \in {"graph_validated", "graph_invalid"})
        /\ steps' = Tail(steps)
        /\ UNCHANGED <<status, assignee, escalation, current, session, launched>>
     \/ /\ s.op = "escalate"
        /\ escalation' = IF escalation = "absent" THEN "open" ELSE escalation
        /\ steps' = Tail(steps)
        /\ UNCHANGED <<status, assignee, current, session, log, checked, launched>>
     \/ /\ s.op = "block"
        /\ Block
        /\ UNCHANGED <<assignee, current, session, log, checked, launched>>
  /\ UNCHANGED <<graph, orderHash, order, sidecar, memory, mode, resuming, crashed,
                 faults, downs, runs, humanReopens>>

\* SIGINT or SIGTERM.
Interrupt ==
  /\ mode = "loop" /\ steps = <<>>
  /\ mode' = "stopping"
  /\ UNCHANGED <<ledger, outside, log, memory, steps, resuming, history>>

Terminated ==
  /\ \A t \in Tasks : status[t] \in Terminal \cup {"absent"}
  /\ escalation # "open"
  /\ \A w \in Workers : current[w] = NoTask

Forget ==
  /\ retries' = [t \in Tasks |-> 0]
  /\ handoffs' = [t \in Tasks |-> 0]
  /\ gaps' = 0
  /\ aborted' = FALSE
  /\ monitored' = {} /\ left' = {}
  /\ steps' = <<>>
  /\ todo' = {} /\ live' = {} /\ reopens' = {} /\ seen' = FALSE

\* runLoop after the loop: goroutines waited for, outcomes drained, Cleanup kills
\* the tmux server.
Stop ==
  /\ Free
  /\ monitored = {} /\ left = {}
  /\ mode = "stopping" \/ aborted \/ Terminated
  /\ mode' = "down"
  /\ session' = [w \in Workers |-> NoTask]
  /\ crashed' = FALSE
  /\ downs' = downs + 1
  /\ Forget
  /\ UNCHANGED <<ledger, order, sidecar, log, checked, launched, faults, runs, humanReopens>>

\* The process is killed; its sessions live on.
Crash ==
  /\ mode # "down"
  /\ downs < MaxDowns
  /\ mode' = "down"
  /\ crashed' = TRUE
  /\ downs' = downs + 1
  /\ Forget
  /\ UNCHANGED <<ledger, outside, log, checked, launched, faults, runs, humanReopens>>

-----------------------------------------------------------------------------
(* wonka run *)

\* A fresh run starts with fresh counters.  It is modelled for a ledger at rest:
\* after a crash the operator resumes.
Run ==
  /\ mode = "down"
  /\ runs < MaxRuns
  /\ ~crashed
  /\ downs < MaxDowns
  /\ \A w \in Workers : current[w] = NoTask /\ session[w] = NoTask
  /\ \A t \in Tasks : status[t] \notin Running
  /\ mode' = "seed"
  /\ runs' = runs + 1
  /\ UNCHANGED <<ledger, outside, log, memory, steps, resuming, checked, launched,
                 crashed, faults, downs, humanReopens>>

\* SeedPlannerTask: create the planner, or re-open it if it is terminal and the
\* work order has changed.
Seed ==
  /\ mode = "seed"
  /\ mode' = "loop"
  /\ IF status[Planner] = "absent" \/ (status[Planner] \in Terminal /\ orderHash # order)
     THEN /\ status' = [status EXCEPT ![Planner] = "open"]
          /\ assignee' = [assignee EXCEPT ![Planner] = NoWorker]
          /\ orderHash' = order
     ELSE UNCHANGED <<status, assignee, orderHash>>
  /\ UNCHANGED <<escalation, current, graph, outside, log, memory, steps, resuming,
                 history>>

-----------------------------------------------------------------------------
(* wonka resume *)

\* initForResume finds the event log of an earlier run; ListTasks of Reconcile.
Resume ==
  /\ mode = "down"
  /\ runs > 0
  /\ downs < MaxDowns
  /\ mode' = "reset"
  /\ todo' = {t \in Tasks : status[t] \in Running /\ assignee[t] # NoWorker}
  /\ UNCHANGED <<ledger, outside, log, memory, steps, live, reopens, seen, history>>

PreservedAssigned(t) == session[assignee[t]] # NoTask

\* The session of an in_progress task is alive under its assignee's name.
Preserved(t) == status[t] = "in_progress" /\ session[assignee[t]] # NoTask

\* Reconcile step 1.
ResetTask ==
  /\ mode = "reset"
  /\ \/ \E t \in todo :
          /\ todo' = todo \ {t}
          /\ \/ Preserved(t) /\ live' = live \cup {t} /\ UNCHANGED <<status, assignee>>
             \/ /\ ~Preserved(t)
                /\ status' = [status EXCEPT ![t] = "open"]
                /\ assignee' = [assignee EXCEPT ![t] = NoWorker]
                /\ UNCHANGED live
          /\ UNCHANGED mode
     \/ todo = {} /\ mode' = "kill" /\ UNCHANGED <<status, assignee, todo, live>>
  /\ UNCHANGED <<escalation, current, graph, orderHash, outside, log, memory, steps,
                 reopens, seen, history>>

\* Reconcile step 2: sessions that no in_progress task accounts for.
KillOrphans ==
  /\ mode = "kill"
  /\ session' = [w \in Workers |->
       IF \E t \in Tasks : status[t] = "in_progress" /\ assignee[t] = w
       THEN session[w] ELSE NoTask]
  /\ mode' = "recover"
  /\ UNCHANGED <<ledger, order, sidecar, log, memory, steps, resuming, history>>

RecoverWithoutCounters ==
  /\ mode = "recover"
  /\ gaps' = RecoveredGaps
  /\ reopens' = {t \in Tasks : TerminalHistory(t) /\ status[t] = "open"}
  /\ seen' = GraphValidationSeen
  /\ mode' = "workers"
  /\ UNCHANGED <<ledger, outside, log, retries, handoffs, aborted, monitored, left, steps,
                 todo, live, history>>

\* Reconcile steps 3 to 6, and the state machines made from them.
Recover ==
  /\ mode = "recover"
  /\ retries' = [t \in Tasks |-> Count("task_retried", t)]
  /\ handoffs' = [t \in Tasks |-> Count("task_handoff", t)]
  /\ gaps' = RecoveredGaps
  /\ reopens' = {t \in Tasks : TerminalHistory(t) /\ status[t] = "open"}
  /\ seen' = GraphValidationSeen
  /\ mode' = "workers"
  /\ UNCHANGED <<ledger, outside, log, aborted, monitored, left, steps, todo, live, history>>

\* Reconcile step 7.
ResetWorkers ==
  /\ mode = "workers"
  /\ current' = [w \in Workers |-> IF current[w] \in live THEN current[w] ELSE NoTask]
  /\ mode' = "reopens"
  /\ UNCHANGED <<status, assignee, escalation, graph, orderHash, outside, log, memory,
                 steps, resuming, history>>

\* Resume step 4: escalation_resolved is emitted before the counters are reset.
ResolveReopen ==
  /\ mode = "reopens"
  /\ \/ \E t \in reopens :
          /\ log' = Append(log, Event("escalation_resolved", t))
          /\ retries' = [retries EXCEPT ![t] = 0]
          /\ handoffs' = [handoffs EXCEPT ![t] = 0]
          /\ reopens' = reopens \ {t}
          /\ UNCHANGED mode
     \/ reopens = {} /\ mode' = "replay" /\ UNCHANGED <<log, retries, handoffs, reopens>>
  /\ UNCHANGED <<ledger, outside, gaps, aborted, monitored, left, steps, todo, live, seen,
                 history>>

\* replayPlannerValidation, then the dispatch loop.
Replay ==
  /\ mode = "replay"
  /\ mode' = "loop"
  /\ IF status[Planner] = "completed" /\ ~seen
     THEN steps' = HookSteps /\ aborted' = (graph # "valid")
     ELSE UNCHANGED <<steps, aborted>>
  /\ todo' = {} /\ live' = {} /\ seen' = FALSE
  /\ UNCHANGED <<ledger, outside, log, retries, handoffs, gaps, monitored, left, reopens,
                 history>>

-----------------------------------------------------------------------------
(* Agents and humans (external) *)

\* The planner's agent writes its task graph.
AgentPlans(w) ==
  /\ session[w] = Planner
  /\ graph' \in {"valid", "invalid"}
  /\ checked' = FALSE
  /\ status' = [t \in Tasks |-> IF status[t] = "absent" THEN "open" ELSE status[t]]
  /\ UNCHANGED <<assignee, escalation, current, orderHash, outside, log, memory, mode,
                 steps, resuming, launched, crashed, faults, downs, runs, humanReopens>>

\* An agent ends with an exit code, or is killed.
AgentEnds(w) ==
  /\ session[w] # NoTask
  /\ session' = [session EXCEPT ![w] = NoTask]
  /\ \/ \E c \in Code : sidecar' = [sidecar EXCEPT ![session[w]] = c]
     \/ UNCHANGED sidecar
  /\ UNCHANGED <<ledger, order, log, memory, mode, steps, resuming, history>>

\* A human re-opens a task between two sessions: a failed or blocked one, or the
\* plan task, as the escalation for an invalid graph asks for.
HumanReopens(t) ==
  /\ mode = "down"
  /\ status[t] \in (IF t = Planner THEN Terminal ELSE {"failed", "blocked"})
  /\ humanReopens < MaxReopens
  /\ status' = [status EXCEPT ![t] = "open"]
  /\ assignee' = [assignee EXCEPT ![t] = NoWorker]
  /\ humanReopens' = humanReopens + 1
  /\ UNCHANGED <<escalation, current, graph, orderHash, outside, log, memory, mode,
                 steps, resuming, checked, launched, crashed, faults, downs, runs>>

EditWorkOrder ==
  /\ mode = "down"
  /\ runs > 0
  /\ order < MaxOrders
  /\ order' = order + 1
  /\ UNCHANGED <<ledger, session, sidecar, log, memory, mode, steps, resuming, history>>

\* The bound on restarts is reached.
Over == mode = "down" /\ downs >= MaxDowns /\ UNCHANGED vars

EngineStep ==
  \/ Dispatch \/ SpawnFails \/ ProcessOutcome \/ ProcessKilled \/ ProcessStray
  \/ Watchdog \/ OrphanCk \/ DoStep \/ Interrupt \/ Stop
  \/ Run \/ Seed
  \/ Resume \/ ResetTask \/ KillOrphans \/ Recover \/ ResetWorkers
  \/ ResolveReopen \/ Replay

Next ==
  \/ EngineStep
  \/ Crash
  \/ \E w \in Workers : AgentPlans(w) \/ AgentEnds(w)
  \/ \E t \in Tasks : HumanReopens(t)
  \/ EditWorkOrder
  \/ Over

Spec == Init /\ [][Next]_vars

-----------------------------------------------------------------------------
(* Properties *)

\* BVV-ERR-07/08: wherever the previous process died, Reconcile itself included,
\* once it is through tasks, workers and sessions agree: what runs has an active
\* worker of its own, nothing else has one, and every open task can be assigned.
\* A preserved session may have ended meanwhile.  The outcome of a stray releases
\* the worker of another task, which then runs beside the next one under the same
\* name: of a process that had strays nothing is said.
Reconciled ==
  (mode \in {"reopens", "replay"} /\ strays = 0) =>
    /\ \A t \in Tasks : status[t] \in Running =>
         status[t] = "in_progress" /\ assignee[t] # NoWorker /\ current[assignee[t]] = t
    /\ \A w \in Workers : current[w] # NoTask =>
         status[current[w]] = "in_progress" /\ assignee[current[w]] = w
    /\ \A w \in Workers : session[w] # NoTask => current[w] = session[w]
    /\ \A t \in Tasks : status[t] = "open" => assignee[t] = NoWorker

\* BVV-ERR-01 and BVV-L-04 across the resumes of a `wonka run`: a process that ends
\* may take with it the one session it had not logged yet, and costs the task the
\* one that was running.  So, as long as nobody re-opens it, a restart buys a task
\* at most two sessions beyond its budget.  A second `wonka run` has a new budget, and
\* so has, after a resume, a task that failed as stuck and was then put to open by
\* the outcome of the goroutine left behind.
CrashCost ==
  (humanReopens = 0 /\ runs <= 1 /\ strays = 0) =>
    \A t \in Tasks : launched[t] <= 1 + MaxRetries + MaxHandoffs + 2 * downs

\* BVV-ERR-05: of the tasks given up, a restart forgets at most one (the gap counted
\* and not yet logged), and a failed spawn is the only way to give one up that is
\* not counted.  A second `wonka run` counts its own.
GapLoss ==
  (mode = "loop" /\ steps = <<>> /\ runs = 1) =>
    Cardinality({t \in Tasks \ Critical :
      TerminalHistory(t) /\ status[t] \in {"failed", "blocked"}}) <= gaps + downs + spawnFailures

\* A task of the planner's graph is assigned in this step.
GraphDispatched ==
  \E t \in Tasks \ {Planner} : status[t] # "assigned" /\ status'[t] = "assigned"

\* No graph was validated whose planner's completion is missing from the log.
CompletionsLogged ==
  \A i \in DOMAIN log :
    log[i].task = Planner /\ log[i].kind \in {"graph_validated", "graph_invalid"} =>
      \E j \in 1..i : log[j] = Event("task_completed", Planner)

\* BVV-TG-07..10 across crashes: once the planner has completed, no task of its
\* graph is assigned before that graph has been validated, whoever re-opens what.
\* It takes an escalation_resolved to withdraw an earlier graph_validated, and two
\* histories have none.  A plan task that is re-opened, by SeedPlannerTask for a new
\* work order or by a human, and taken up by a second `wonka run`: hence one run and
\* its resumes.  And a plan task whose completion a crash kept out of the log, while
\* the resume validated its graph: re-opened, it is not recognised as such.
OnlyCheckedDispatched ==
  [][(GraphDispatched /\ status[Planner] = "completed" /\ runs = 1 /\ CompletionsLogged)
       => checked]_vars

\* BVV-S-02a: a resume takes no task for re-opened, and gives none a new budget,
\* that nobody re-opened - whatever retries, resets and crashes put it to open.  The
\* late failure of a stray is the exception: it re-opens a task failed as stuck.
ResolvedOnlyReopened ==
  (humanReopens = 0 /\ order = 1 /\ strays = 0) =>
    \A t \in Tasks : Count("escalation_resolved", t) = 0

-----------------------------------------------------------------------------
(* What the repository says and the code does not keep *)

\* The graph that was found invalid is not dispatched from.
InvalidNotDispatched ==
  [][(GraphDispatched /\ status[Planner] = "completed") => graph = "valid"]_vars
=============================================================================
