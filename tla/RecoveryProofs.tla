--------------------------- MODULE RecoveryProofs ---------------------------
(***************************************************************************)
(* Wherever the process dies, a resume puts tasks, workers and sessions in *)
(* order, and what the crashes cost stays within the code's bounds: for    *)
(* any number of tasks, workers, retries, crashes, resumes, failed spawns  *)
(* and trips of the breaker.  All of it is about processes that have left  *)
(* no goroutine behind (strays = 0): the late outcome of one breaks both.  *)
(*                                                                         *)
(* Settled is that order.  It holds whenever no handler is under way, and  *)
(* the handlers break it between their durable writes: Handling says which *)
(* writes are left and how far from Settled the ledger is meanwhile.       *)
(* Agree is the part that survives every crash, and it is just enough for  *)
(* Reconcile to get from there to Settled again.  Together they are RecInv.*)
(*                                                                         *)
(* HistInv adds what the log, the counters and the ledger say of each      *)
(* other: each event a handler has still to append is counted as if it     *)
(* were there, so that the sums hold between any two of its writes.        *)
(***************************************************************************)
EXTENDS Recovery, SequenceTheorems, FiniteSetTheorems, TLAPS

-----------------------------------------------------------------------------
(* The invariant *)

TaskSettled(t) ==
  status[t] \in Running =>
    status[t] = "in_progress" /\ assignee[t] \in Workers /\ current[assignee[t]] = t

WorkerSettled(w) ==
  /\ current[w] # NoTask => status[current[w]] = "in_progress" /\ assignee[current[w]] = w
  /\ session[w] # NoTask => current[w] = session[w]

Settled == (\A t \in Tasks : TaskSettled(t)) /\ (\A w \in Workers : WorkerSettled(w))

\* All but one task and the worker that has it are settled.
SettledBut(t, w) ==
  /\ \A u \in Tasks \ {t} : TaskSettled(u)
  /\ \A v \in Workers \ {w} : WorkerSettled(v)

\* What no crash breaks.
Agree ==
  /\ \A t \in Tasks : status[t] \in Running => assignee[t] \in Workers
  /\ \A t \in Tasks : status[t] = "in_progress" => current[assignee[t]] = t
  /\ \A w \in Workers, t \in Tasks : current[w] = t /\ status[t] \in Running => assignee[t] = w
  /\ \A w \in Workers, t \in Tasks :
       session[w] # NoTask /\ status[t] = "in_progress" /\ assignee[t] = w => session[w] = t

\* A task that can be assigned is assigned to nobody; a task with a session exists.
Blank ==
  /\ \A t \in Tasks : status[t] \in {"absent", "open"} => assignee[t] = NoWorker
  /\ \A w \in Workers : session[w] # NoTask => status[session[w]] # "absent"

-----------------------------------------------------------------------------
(* Handlers *)

TerminalKinds == {"task_completed", "task_failed", "task_blocked"}
Kinds == TerminalKinds \cup {"task_retried", "task_handoff", "gap_recorded", "graph_validated",
                             "graph_invalid", "escalation_resolved"}
StepSet ==
  {s \in [op: {"task", "worker", "session", "emit", "escalate", "block"},
          task: Tasks \cup {NoTask}, worker: Workers \cup {NoWorker},
          arg: Status \cup Kinds \cup {NoArg}] :
     /\ s.op \in {"task", "session", "emit"} => s.task \in Tasks
     /\ s.op \in {"worker", "session"} => s.worker \in Workers
     /\ s.op = "task" => s.arg \in Status
     /\ s.op = "emit" => s.arg \in Kinds /\ s.worker = NoWorker}
EventSet == [kind: Kinds, task: Tasks]

Neutral(s) == s.op \in {"emit", "escalate", "block"}
NeutralFrom(k) == \A i \in k..Len(steps) : Neutral(steps[i])

\* The worker w has the task t.
Has(w, t) == current[w] = t /\ assignee[t] = w /\ status[t] \in Running

Monitoring(w) == \A v \in monitored \ {w} : current[v] # NoTask

\* Assign, then SpawnSession.
Assigning(t, w) ==
  /\ Len(steps) = 4
  /\ steps[1] = TaskStep(t, "assigned", w) /\ steps[2] = WorkerStep(w, t)
  /\ steps[3] = SessionStep(w, t) /\ steps[4] = TaskStep(t, "in_progress", w)
  /\ status[t] = "open" /\ current[w] = NoTask /\ session[w] = NoTask
Assigned(t, w) ==
  /\ Len(steps) = 3
  /\ steps[1] = WorkerStep(w, t)
  /\ steps[2] = SessionStep(w, t) /\ steps[3] = TaskStep(t, "in_progress", w)
  /\ status[t] = "assigned" /\ assignee[t] = w /\ current[w] = NoTask /\ session[w] = NoTask

\* A session is started, by SpawnSession or RestartSession; the watchdog logs first.
Logging(t, w) ==
  /\ Len(steps) >= 3 /\ Neutral(steps[1])
  /\ steps[2] = SessionStep(w, t) /\ steps[3] = TaskStep(t, "in_progress", w)
  /\ NeutralFrom(4)
  /\ Has(w, t) /\ session[w] = NoTask
Starting(t, w) ==
  /\ Len(steps) >= 2
  /\ steps[1] = SessionStep(w, t) /\ steps[2] = TaskStep(t, "in_progress", w)
  /\ NeutralFrom(3)
  /\ Has(w, t) /\ session[w] = NoTask
Started(t, w) ==
  /\ Len(steps) >= 1
  /\ steps[1] = TaskStep(t, "in_progress", w)
  /\ NeutralFrom(2)
  /\ Has(w, t) /\ session[w] \in {t, NoTask}

\* A task is given back or ends, then its worker is released; with a session that still
\* runs if the circuit breaker fails it.
Ending(t, w) ==
  /\ Len(steps) >= 2
  /\ \E s \in Terminal : steps[1] = TaskStep(t, s, w) \/ steps[1] = TaskStep(t, "open", NoWorker)
  /\ steps[2] = WorkerStep(w, NoTask)
  /\ NeutralFrom(3)
  /\ Has(w, t) /\ w \notin monitored
  /\ session[w] = NoTask \/ (session[w] = t /\ steps[1] = TaskStep(t, "failed", w))
Ended(t, w) ==
  /\ Len(steps) >= 1
  /\ steps[1] = WorkerStep(w, NoTask)
  /\ NeutralFrom(2)
  /\ status[t] \in Terminal \cup {"open"} /\ current[w] = t
  /\ session[w] = NoTask \/ (session[w] = t /\ status[t] = "failed")
  /\ w \notin monitored

Handling ==
  \/ NeutralFrom(1) /\ Settled /\ \A v \in monitored : current[v] # NoTask
  \/ \E t \in Tasks, w \in Workers :
       /\ SettledBut(t, w) /\ Monitoring(w)
       /\ \/ Assigning(t, w) \/ Assigned(t, w)
          \/ Logging(t, w) \/ Starting(t, w) \/ Started(t, w)
          \/ Ending(t, w) \/ Ended(t, w)

-----------------------------------------------------------------------------
(* Reconcile *)

\* TypeOK, but for what counts the faults.
Typed ==
  /\ status \in [Tasks -> Status]
  /\ assignee \in [Tasks -> Workers \cup {NoWorker}]
  /\ escalation \in {"absent", "open", "blocked"}
  /\ current \in [Workers -> Tasks \cup {NoTask}]
  /\ session \in [Workers -> Tasks \cup {NoTask}]
  /\ graph \in Graph
  /\ sidecar \in [Tasks -> Code \cup {"none"}]
  /\ \A i \in DOMAIN log : log[i].task \in Tasks
  /\ retries \in [Tasks -> Nat] /\ handoffs \in [Tasks -> Nat] /\ gaps \in Nat
  /\ monitored \subseteq Workers
  /\ mode \in Mode
  /\ mode \notin {"loop", "stopping"} => steps = <<>> /\ monitored = {}

Types ==
  /\ Typed
  /\ steps \in Seq(StepSet) /\ log \in Seq(EventSet)
  /\ todo \subseteq Tasks /\ live \subseteq Tasks /\ reopens \subseteq Tasks

Resetting ==
  /\ mode \in {"reset", "kill", "recover", "workers"} => 
       /\ Agree
       /\ \A t \in live : status[t] = "in_progress"
       /\ todo \cap live = {}
       /\ \A t \in todo : status[t] \in Running
       /\ \A t \in Tasks : status[t] \in Running => t \in todo \cup live
       /\ mode # "reset" => todo = {}
  /\ mode \in {"recover", "workers"} =>
       \A w \in Workers : session[w] # NoTask =>
         \E t \in Tasks : status[t] = "in_progress" /\ assignee[t] = w

RecInv ==
  /\ Types
  /\ Blank
  /\ mode = "down" => Agree /\ live = {}
  /\ Resetting
  /\ mode \in {"reopens", "replay", "seed"} => Settled
  /\ mode \in {"loop", "stopping"} => Handling

-----------------------------------------------------------------------------
(* Histories *)

\* Before the first run, and until it has seeded the plan task, there is nothing.
Nothing ==
  log = <<>> /\ \A t \in Tasks : status[t] = "absent" /\ launched[t] = 0

Bounds ==
  /\ order \in Nat \ {0} /\ runs \in Nat /\ humanReopens \in Nat /\ downs \in Nat
  /\ launched \in [Tasks -> Nat]
  /\ runs = 0 => mode = "down" /\ Nothing
  /\ mode = "seed" /\ runs = 1 => Nothing
  /\ order = 1 /\ status[Planner] # "absent" => orderHash = 1

\* Nobody re-opens a task, the seed included.
Undisturbed == humanReopens = 0 /\ (order = 1 \/ runs <= 1)

\* The task has the status, or is about to get it.
WillBe(t, S) ==
  status[t] \in S \/ (steps # <<>> /\ steps[1].op = "task" /\ steps[1].task = t /\ steps[1].arg \in S)

\* What is logged as ended has ended, and stays so.
Lasting ==
  Undisturbed =>
    /\ reopens = {}
    /\ \A i \in DOMAIN log :
         /\ log[i].kind # "escalation_resolved"
         /\ log[i].kind \in TerminalKinds => status[log[i].task] \in Terminal

\* What the writes of a handler are to one another.
Emits(i, K) == steps[i].op = "emit" /\ steps[i].arg \in K
GraphKinds == {"graph_validated", "graph_invalid"}
Announced(i) ==
  /\ ~Emits(i, {"escalation_resolved"})
  /\ Emits(i, TerminalKinds) => WillBe(steps[i].task, Terminal)
  /\ Emits(i, {"task_completed"}) => WillBe(steps[i].task, {"completed"})
  /\ Emits(i, GraphKinds) => steps[i].task = Planner /\ WillBe(Planner, {"completed"})
OnlyOne(K) == \A i, j \in 1..Len(steps) : Emits(i, K) /\ Emits(j, K) => i = j
OneSession ==
  \A i, j \in 1..Len(steps) : steps[i].op = "session" /\ steps[j].op = "session" => i = j
CounterKinds == {"task_retried", "task_handoff"}
Coherent ==
  /\ \A i \in 1..Len(steps) : Announced(i)
  /\ OneSession /\ OnlyOne(CounterKinds) /\ OnlyOne({"gap_recorded"})

\* Sessions.
OneIf(b) == IF b THEN 1 ELSE 0
Awaits(k, t) == \E i \in 1..Len(steps) : steps[i] = EmitStep(k, t)
Pending(k, t) == OneIf(Awaits(k, t))
Logged(k, t) == Count(k, t) + Pending(k, t)
Launches(t) == \E i \in 1..Len(steps) : steps[i].op = "session" /\ steps[i].task = t
Coming(t) == OneIf(Launches(t))

\* The task has the session that is neither a retry nor a handoff.
Claims(t) == steps # <<>> /\ \E w \in Workers : steps[1] = TaskStep(t, "assigned", w)
GivesBack(t) == steps # <<>> /\ steps[1] = TaskStep(t, "open", NoWorker)
Occupied(t) == (status[t] \in Running \cup Terminal \/ Claims(t)) /\ ~GivesBack(t)
Holds(t) == OneIf(Occupied(t))

Once == humanReopens = 0 /\ runs <= 1

\* The counters in memory are those of the log.
Recovered == {"workers", "reopens", "replay", "seed", "loop", "stopping"}

Budgeted ==
  Once => \A t \in Tasks :
    /\ Logged("task_retried", t) <= MaxRetries
    /\ Logged("task_handoff", t) <= MaxHandoffs
    /\ mode \in Recovered =>
         Logged("task_retried", t) <= retries[t] /\ Logged("task_handoff", t) <= handoffs[t]
Spent ==
  Once => \A t \in Tasks :
    IF mode \in {"loop", "stopping"}
    THEN launched[t] + Coming(t) <=
           Holds(t) + Logged("task_retried", t) + Logged("task_handoff", t) + 2 * downs
    ELSE launched[t] <=
           OneIf(status[t] \in Terminal) + Count("task_retried", t) + Count("task_handoff", t) + 2 * downs

\* Gaps.
Gapped == {t \in Tasks : \E i \in DOMAIN log : log[i] = Event("gap_recorded", t)}
Failed(t) == \E i \in DOMAIN log : log[i].task = t /\ log[i].kind \in {"task_failed", "task_blocked"}
Fallen(t) == Failed(t) \/ Awaits("task_failed", t) \/ Awaits("task_blocked", t)
Lost == {t \in Tasks \ Critical : Fallen(t) /\ t \notin Gapped /\ ~Awaits("gap_recorded", t)}
GapPending == \E t \in Tasks : Awaits("gap_recorded", t)
GapsGapped == IsFiniteSet(Gapped) /\ Cardinality(Gapped) <= RecoveredGaps
FewLost == IsFiniteSet(Lost) /\ Cardinality(Lost) <= downs + spawnFailures
CompletedStay ==
  \A i \in DOMAIN log : log[i].kind = "task_completed" /\ log[i].task \notin Critical =>
    status[log[i].task] = "completed"
GapsKept == mode \in Recovered /\ runs <= 1 => RecoveredGaps + OneIf(GapPending) <= gaps
Counted == GapsGapped /\ FewLost /\ CompletedStay /\ GapsKept

\* Validation.
GraphComing == \E i \in 1..Len(steps) : Emits(i, GraphKinds)
Alive ==
  \A w \in Workers : session[w] # NoTask => status[session[w]] \in Running \cup {"open", "failed"}
Reopened ==
  /\ mode \notin {"workers", "reopens"} => reopens = {}
  /\ \A t \in reopens : status[t] = "open"
OneRun == runs <= 1 /\ CompletionsLogged
SeenEnded ==
  GraphValidationSeen =>
    /\ status[Planner] \in Terminal \cup {"open"}
    /\ mode \in {"workers", "reopens"} => status[Planner] # "open" \/ Planner \in reopens
    /\ mode \in {"replay", "seed", "loop", "stopping"} => status[Planner] # "open"
    /\ status[Planner] = "completed" => checked
SeenLogged ==
  mode \in {"workers", "reopens", "replay"} /\ seen /\ status[Planner] = "completed" =>
    GraphValidationSeen
CheckedOrComing ==
  mode \in {"loop", "stopping"} /\ WillBe(Planner, {"completed"}) =>
    GraphComing \/ (status[Planner] = "completed" /\ checked)
Validated == Alive /\ Reopened /\ (OneRun => SeenEnded /\ SeenLogged /\ CheckedOrComing)

HistInv == Bounds /\ Lasting /\ Coherent /\ Budgeted /\ Spent /\ Counted /\ Validated

-----------------------------------------------------------------------------
(* Sequences of writes *)

LEMMA Numbers ==
  /\ NoTask \notin Tasks /\ NoWorker \notin Workers
  /\ Planner \in Tasks /\ Workers \subseteq Nat
  BY RecoveryAssumption DEF NoTask, NoWorker, Workers

LEMMA StepTypes ==
  /\ \A t \in Tasks, w \in Workers \cup {NoWorker}, s \in Status : TaskStep(t, s, w) \in StepSet
  /\ \A t \in Tasks \cup {NoTask}, w \in Workers : WorkerStep(w, t) \in StepSet
  /\ \A t \in Tasks, w \in Workers : SessionStep(w, t) \in StepSet
  /\ \A t \in Tasks, k \in Kinds : EmitStep(k, t) \in StepSet
  /\ EscalateStep \in StepSet /\ BlockStep \in StepSet
  <1>1. ASSUME NEW t \in Tasks, NEW w \in Workers \cup {NoWorker}, NEW s \in Status
        PROVE  TaskStep(t, s, w) \in StepSet
    BY DEF StepSet, TaskStep
  <1>2. ASSUME NEW t \in Tasks \cup {NoTask}, NEW w \in Workers
        PROVE  WorkerStep(w, t) \in StepSet
    BY DEF StepSet, WorkerStep
  <1>3. ASSUME NEW t \in Tasks, NEW w \in Workers
        PROVE  SessionStep(w, t) \in StepSet
    BY DEF StepSet, SessionStep
  <1>4. ASSUME NEW t \in Tasks, NEW k \in Kinds
        PROVE  EmitStep(k, t) \in StepSet
    BY DEF StepSet, EmitStep
  <1>5. EscalateStep \in StepSet /\ BlockStep \in StepSet
    BY DEF StepSet, EscalateStep, BlockStep
  <1>6. QED
    BY <1>1, <1>2, <1>3, <1>4, <1>5

LEMMA Constants ==
  /\ Terminal \subseteq Status /\ Running \subseteq Status /\ "open" \in Status
  /\ "assigned" \in Running /\ "in_progress" \in Running
  /\ TerminalKinds \subseteq Kinds
  /\ {"task_retried", "task_handoff", "gap_recorded", "graph_validated", "graph_invalid",
      "escalation_resolved"} \subseteq Kinds
  /\ Terminal \cap Running = {} /\ "open" \notin Terminal \cup Running
  BY DEF Terminal, Running, Status, TerminalKinds, Kinds

\* What may follow the writes to the task and the worker.
Trailing(s) ==
  /\ Neutral(s)
  /\ s.op = "emit" => s.arg \in {"gap_recorded", "graph_validated", "graph_invalid"}
Trail == {X \in Seq(StepSet) : \A i \in 1..Len(X) : Trailing(X[i])}

LEMMA ThreeThen ==
  ASSUME NEW a \in StepSet, NEW b \in StepSet, NEW c \in StepSet, NEW X \in Seq(StepSet),
         NEW q, q = <<a, b, c>> \o X
  PROVE  /\ q \in Seq(StepSet) /\ Len(q) = 3 + Len(X) /\ Len(X) \in Nat
         /\ q[1] = a /\ q[2] = b /\ q[3] = c
         /\ \A i \in 4..Len(q) : q[i] = X[i - 3] /\ i - 3 \in 1..Len(X)
  <1>1. <<a, b, c>> \in Seq(StepSet) /\ Len(<<a, b, c>>) = 3
    OBVIOUS
  <1>2. Len(X) \in Nat
    BY LenProperties
  <1>3. /\ q \in Seq(StepSet) /\ Len(q) = 3 + Len(X)
        /\ \A i \in 1..3 + Len(X) : q[i] = IF i <= 3 THEN <<a, b, c>>[i] ELSE X[i - 3]
    BY <1>1, ConcatProperties
  <1>4. q[1] = a /\ q[2] = b /\ q[3] = c
    BY <1>2, <1>3
  <1>5. \A i \in 4..Len(q) : q[i] = X[i - 3] /\ i - 3 \in 1..Len(X)
    BY <1>2, <1>3
  <1>6. QED
    BY <1>2, <1>3, <1>4, <1>5

LEMMA TrailingSteps ==
  /\ \A t \in Tasks, k \in {"gap_recorded", "graph_validated", "graph_invalid"} : Trailing(EmitStep(k, t))
  /\ Trailing(EscalateStep) /\ Trailing(BlockStep)
  BY DEF Trailing, Neutral, EmitStep, EscalateStep, BlockStep

LEMMA Pair ==
  ASSUME NEW a \in StepSet, NEW b \in StepSet
  PROVE  /\ <<a>> \o <<b>> \in Seq(StepSet) /\ Len(<<a>> \o <<b>>) = 2
         /\ (<<a>> \o <<b>>)[1] = a /\ (<<a>> \o <<b>>)[2] = b
  <1> DEFINE x == <<a>>  y == <<b>>  q == x \o y
  <1>1. x \in Seq(StepSet) /\ Len(x) = 1 /\ x[1] = a /\ y \in Seq(StepSet) /\ Len(y) = 1 /\ y[1] = b
    OBVIOUS
  <1> HIDE DEF x, y
  <1>2. /\ q \in Seq(StepSet) /\ Len(q) = Len(x) + Len(y)
        /\ \A i \in 1..Len(x) + Len(y) : q[i] = IF i <= Len(x) THEN x[i] ELSE y[i - Len(x)]
    BY <1>1, ConcatProperties
  <1> HIDE DEF q
  <1>3. Len(q) = 2 /\ q[1] = x[1]
    BY <1>1, <1>2
  <1>4. 2 \in 1..Len(x) + Len(y) /\ ~(2 <= Len(x)) /\ 2 - Len(x) = 1
    BY <1>1
  <1>5. q[2] = y[2 - Len(x)]
    BY <1>2, <1>4
  <1>6. QED
    BY <1>1, <1>2, <1>3, <1>4, <1>5 DEF q, x, y

LEMMA ShortTrails ==
  /\ <<>> \in Trail
  /\ \A a \in StepSet : Trailing(a) => <<a>> \in Trail
  /\ \A a, b \in StepSet : Trailing(a) /\ Trailing(b) => <<a>> \o <<b>> \in Trail
  /\ \A a, b, c \in StepSet :
       Trailing(a) /\ Trailing(b) /\ Trailing(c) => <<a, b, c>> \in Trail
  <1>1. <<>> \in Trail
    BY DEF Trail
  <1>2. ASSUME NEW a \in StepSet, Trailing(a)
        PROVE  <<a>> \in Trail
    <2>1. <<a>> \in Seq(StepSet) /\ Len(<<a>>) = 1 /\ <<a>>[1] = a
      OBVIOUS
    <2>2. \A i \in 1..Len(<<a>>) : Trailing(<<a>>[i])
      BY <1>2, <2>1
    <2>3. QED
      BY <2>1, <2>2 DEF Trail
  <1>3. ASSUME NEW a \in StepSet, NEW b \in StepSet, Trailing(a), Trailing(b)
        PROVE  <<a>> \o <<b>> \in Trail
    <2> DEFINE q == <<a>> \o <<b>>
    <2>1. q \in Seq(StepSet) /\ Len(q) = 2 /\ q[1] = a /\ q[2] = b
      BY Pair
    <2> HIDE DEF q
    <2>2. \A i \in 1..Len(q) : q[i] = a \/ q[i] = b
      BY <2>1
    <2>3. \A i \in 1..Len(q) : Trailing(q[i])
      BY <1>3, <2>2
    <2>4. QED
      BY <2>1, <2>3 DEF Trail, q
  <1>4. ASSUME NEW a \in StepSet, NEW b \in StepSet, NEW c \in StepSet,
               Trailing(a), Trailing(b), Trailing(c)
        PROVE  <<a, b, c>> \in Trail
    <2> DEFINE q == <<a, b, c>>
    <2>1. q \in Seq(StepSet) /\ Len(q) = 3 /\ q[1] = a /\ q[2] = b /\ q[3] = c
      OBVIOUS
    <2> HIDE DEF q
    <2>2. \A i \in 1..Len(q) : Trailing(q[i])
      BY <1>4, <2>1
    <2>3. QED
      BY <2>1, <2>2 DEF Trail, q
  <1>5. QED
    BY <1>1, <1>2, <1>3, <1>4

LEMMA HookTrails == HookSteps \in Trail
  <1>1. CASE graph = "valid"
    <2>1. EmitStep("graph_validated", Planner) \in StepSet
          /\ Trailing(EmitStep("graph_validated", Planner))
      BY StepTypes, TrailingSteps, Numbers, Constants
    <2> DEFINE a == EmitStep("graph_validated", Planner)
    <2>2. HookSteps = <<a>>
      BY <1>1 DEF HookSteps
    <2> HIDE DEF a
    <2>3. QED
      BY <2>1, <2>2, ShortTrails DEF a
  <1>2. CASE graph # "valid"
    <2> DEFINE a == EscalateStep  b == EmitStep("graph_invalid", Planner)  c == BlockStep
    <2>1. a \in StepSet /\ b \in StepSet /\ c \in StepSet /\ Trailing(a) /\ Trailing(b) /\ Trailing(c)
      BY StepTypes, TrailingSteps, Numbers, Constants
    <2>2. HookSteps = <<a, b, c>>
      BY <1>2 DEF HookSteps
    <2> HIDE DEF a, b, c
    <2>3. QED
      BY <2>1, <2>2, ShortTrails
  <1>3. QED
    BY <1>1, <1>2

\* The writes of a handler that ends a task or gives it back.
Ends(q, t, w) ==
  /\ q \in Seq(StepSet) /\ Len(q) >= 3
  /\ \/ \E s \in Terminal, k \in TerminalKinds : q[1] = TaskStep(t, s, w) /\ q[3] = EmitStep(k, t)
     \/ q[1] = TaskStep(t, "open", NoWorker) /\ q[3] = EmitStep("task_retried", t)
  /\ q[2] = WorkerStep(w, NoTask)
  /\ \A i \in 4..Len(q) : Trailing(q[i])

LEMMA TerminateEnds ==
  ASSUME NEW t \in Tasks, NEW w \in Workers, NEW s \in Terminal, NEW k \in TerminalKinds,
         NEW X \in Trail, NEW q, q = Terminate(t, w, s, k) \o X
  PROVE  Ends(q, t, w)
  <1>1. /\ TaskStep(t, s, w) \in StepSet /\ WorkerStep(w, NoTask) \in StepSet
        /\ EmitStep(k, t) \in StepSet
    BY StepTypes, Constants
  <1>2. q = <<TaskStep(t, s, w), WorkerStep(w, NoTask), EmitStep(k, t)>> \o X
    BY DEF Terminate
  <1>3. X \in Seq(StepSet) /\ \A i \in 1..Len(X) : Trailing(X[i])
    BY DEF Trail
  <1>4. /\ q \in Seq(StepSet) /\ Len(q) = 3 + Len(X) /\ Len(X) \in Nat
        /\ q[1] = TaskStep(t, s, w) /\ q[2] = WorkerStep(w, NoTask) /\ q[3] = EmitStep(k, t)
        /\ \A i \in 4..Len(q) : q[i] = X[i - 3] /\ i - 3 \in 1..Len(X)
    BY <1>1, <1>2, <1>3, ThreeThen
  <1>5. Len(q) >= 3 /\ \A i \in 4..Len(q) : Trailing(q[i])
    BY <1>3, <1>4
  <1>6. QED
    BY <1>4, <1>5 DEF Ends

LEMMA FailureTrails ==
  ASSUME NEW t \in Tasks
  PROVE  (IF t \in Critical THEN <<BlockStep>>
          ELSE <<EmitStep("gap_recorded", t)>> \o (IF GapReached THEN <<BlockStep>> ELSE <<>>)) \in Trail
  <1> DEFINE a == EmitStep("gap_recorded", t)  b == BlockStep
  <1>1. a \in StepSet /\ b \in StepSet /\ Trailing(a) /\ Trailing(b)
    BY StepTypes, TrailingSteps, Constants
  <1> HIDE DEF a, b
  <1>2. <<b>> \in Trail /\ <<a>> \o <<b>> \in Trail /\ <<a>> \o <<>> \in Trail
    <2>1. <<a>> \in Trail /\ <<b>> \in Trail /\ <<a>> \o <<b>> \in Trail
      BY <1>1, ShortTrails
    <2>2. <<a>> \in Seq(StepSet)
      BY <1>1
    <2>3. <<a>> \o <<>> = <<a>>
      BY <2>2, ConcatEmptySeq
    <2>4. QED
      BY <2>1, <2>3
  <1>3. QED
    BY <1>2 DEF a, b

LEMMA HandlersEnd ==
  ASSUME NEW t \in Tasks, NEW w \in Workers,
         \/ HandleSuccess(t, w) \/ HandleFailure(t, w)
         \/ TerminalFailure(t, w, "blocked", "task_blocked")
         \/ TerminalFailure(t, w, "failed", "task_failed")
  PROVE  Ends(steps', t, w)
  <1>1. ASSUME NEW s \in Terminal, NEW k \in TerminalKinds, TerminalFailure(t, w, s, k)
        PROVE  Ends(steps', t, w)
    <2>1. \E X \in Trail : steps' = Terminate(t, w, s, k) \o X
      BY <1>1, FailureTrails DEF TerminalFailure
    <2>2. QED
      BY <2>1, TerminateEnds
  <1>2. CASE HandleSuccess(t, w)
    <2>1. <<>> \in Trail
      BY ShortTrails
    <2>2. \E X \in Trail : steps' = Terminate(t, w, "completed", "task_completed") \o X
      BY <1>2, <2>1, HookTrails DEF HandleSuccess
    <2>3. QED
      BY <2>2, TerminateEnds DEF Terminal, TerminalKinds
  <1>3. CASE HandleFailure(t, w) /\ retries[t] < MaxRetries
    <2> DEFINE a == TaskStep(t, "open", NoWorker)  b == WorkerStep(w, NoTask)
               c == EmitStep("task_retried", t)
    <2>1. steps' = <<a, b, c>>
      BY <1>3 DEF HandleFailure
    <2>2. a \in StepSet /\ b \in StepSet /\ c \in StepSet
      BY StepTypes, Constants
    <2> HIDE DEF a, b, c
    <2>3. /\ steps' \in Seq(StepSet) /\ Len(steps') = 3
          /\ steps'[1] = a /\ steps'[2] = b /\ steps'[3] = c
      BY <2>1, <2>2
    <2>4. QED
      BY <2>3 DEF Ends, a, b, c
  <1>4. QED
    BY <1>1, <1>2, <1>3 DEF HandleFailure, Terminal, TerminalKinds

LEMMA FailsFirst ==
  ASSUME NEW t \in Tasks, NEW w \in Workers, TerminalFailure(t, w, "failed", "task_failed")
  PROVE  steps'[1] = TaskStep(t, "failed", w)
  <1>1. PICK X \in Trail : steps' = Terminate(t, w, "failed", "task_failed") \o X
    BY FailureTrails DEF TerminalFailure
  <1>2. X \in Seq(StepSet)
    BY DEF Trail
  <1>3. /\ TaskStep(t, "failed", w) \in StepSet /\ WorkerStep(w, NoTask) \in StepSet
        /\ EmitStep("task_failed", t) \in StepSet
    BY StepTypes, Constants DEF Terminal, TerminalKinds
  <1>4. steps' = <<TaskStep(t, "failed", w), WorkerStep(w, NoTask), EmitStep("task_failed", t)>> \o X
    BY <1>1 DEF Terminate
  <1>5. QED
    BY <1>2, <1>3, <1>4, ThreeThen

\* The next write taken off.
LEMMA TailFacts ==
  ASSUME Types, steps # <<>>
  PROVE  /\ Len(steps) \in Nat \ {0} /\ DOMAIN steps = 1..Len(steps)
         /\ Head(steps) = steps[1] /\ steps[1] \in StepSet
         /\ Tail(steps) \in Seq(StepSet) /\ Len(Tail(steps)) = Len(steps) - 1
         /\ \A i \in 1..Len(steps) - 1 : Tail(steps)[i] = steps[i + 1]
  <1>1. steps \in Seq(StepSet)
    BY DEF Types
  <1>2. Len(steps) \in Nat \ {0}
    BY <1>1, EmptySeq
  <1>3. DOMAIN steps = 1..Len(steps) /\ steps \in [1..Len(steps) -> StepSet]
    BY <1>1, LenProperties
  <1>4. steps[1] \in StepSet
    BY <1>2, <1>3
  <1>5. /\ Tail(steps) \in Seq(StepSet) /\ Len(Tail(steps)) = Len(steps) - 1
        /\ \A i \in 1..Len(Tail(steps)) : Tail(steps)[i] = steps[i + 1]
    BY <1>1, HeadTailProperties
  <1>6. Head(steps) = steps[1]
    BY <1>1
  <1>7. QED
    BY <1>2, <1>3, <1>4, <1>5, <1>6

-----------------------------------------------------------------------------
(* The parts of the invariant *)

LEMMA Frame ==
  ASSUME UNCHANGED <<status, assignee, current, session>>
  PROVE  /\ Agree => Agree'
         /\ Blank => Blank'
         /\ Settled => Settled'
         /\ \A t \in Tasks, w \in Workers : SettledBut(t, w) => SettledBut(t, w)'
  BY DEF Agree, Blank, Settled, SettledBut, TaskSettled, WorkerSettled

LEMMA AtRest ==
  ASSUME Types, Handling, steps = <<>>
  PROVE  Settled /\ \A v \in monitored : current[v] # NoTask
  <1>1. Len(steps) = 0
    OBVIOUS
  <1>2. QED
    BY <1>1 DEF Handling, Assigning, Assigned, Logging, Starting, Started, Ending, Ended

LEMMA SettledAgrees ==
  ASSUME Types, Settled
  PROVE  Agree
  BY Numbers DEF Settled, TaskSettled, WorkerSettled, Agree, Types, Typed, Running

\* SettledBut is enough for Agree when the task and its worker agree.
LEMMA ButAgrees ==
  ASSUME Types, NEW t \in Tasks, NEW w \in Workers, SettledBut(t, w),
         current[w] \in {t, NoTask}, session[w] \in {t, NoTask},
         status[t] \in Running => assignee[t] = w,
         status[t] = "in_progress" => current[w] = t
  PROVE  Agree
  <1>1. \A u \in Tasks : status[u] \in Running => assignee[u] \in Workers
    BY DEF SettledBut, TaskSettled
  <1>2. \A u \in Tasks : status[u] = "in_progress" => current[assignee[u]] = u
    BY DEF SettledBut, TaskSettled, Running
  <1>3. \A v \in Workers, u \in Tasks : current[v] = u /\ status[u] \in Running => assignee[u] = v
    BY Numbers DEF SettledBut, WorkerSettled
  <1>4. ASSUME NEW v \in Workers, NEW u \in Tasks,
               session[v] # NoTask, status[u] = "in_progress", assignee[u] = v
        PROVE  session[v] = u
    <2>1. CASE u = t
      BY <1>4, <2>1 DEF Running
    <2>2. CASE u # t
      <3>1. current[v] = u
        BY <1>2, <1>4
      <3>2. v # w
        BY <3>1, <2>2, Numbers
      <3>3. QED
        BY <1>4, <3>1, <3>2 DEF SettledBut, WorkerSettled
    <2>3. QED
      BY <2>1, <2>2
  <1>5. QED
    BY <1>1, <1>2, <1>3, <1>4 DEF Agree

LEMMA HandlingAgrees ==
  ASSUME Types, Handling
  PROVE  Agree
  <1>1. CASE Settled
    BY <1>1, SettledAgrees
  <1>2. ASSUME NEW t \in Tasks, NEW w \in Workers, SettledBut(t, w),
               \/ Assigning(t, w) \/ Assigned(t, w)
               \/ Logging(t, w) \/ Starting(t, w) \/ Started(t, w)
               \/ Ending(t, w) \/ Ended(t, w)
        PROVE  Agree
    <2>1. /\ current[w] \in {t, NoTask} /\ session[w] \in {t, NoTask}
          /\ status[t] \in Running => assignee[t] = w
          /\ status[t] = "in_progress" => current[w] = t
      BY <1>2, Constants
         DEF Assigning, Assigned, Logging, Starting, Started, Ending, Ended, Has
    <2>2. QED
      BY <1>2, <2>1, ButAgrees
  <1>3. QED
    BY <1>1, <1>2 DEF Handling

\* Settled does not look at tasks that are open or absent.
LEMMA OpenedSettled ==
  ASSUME Types, UNCHANGED <<assignee, current, session>>,
         status' \in [Tasks -> Status],
         \A t \in Tasks : status'[t] = status[t] \/ (status[t] \notin Running /\ status'[t] \notin Running)
  PROVE  /\ Settled => Settled'
         /\ \A t \in Tasks, w \in Workers : SettledBut(t, w) => SettledBut(t, w)'
         /\ Agree => Agree'
  <1>1. \A t \in Tasks : TaskSettled(t) => TaskSettled(t)'
    BY DEF TaskSettled
  <1>2. ASSUME NEW w \in Workers, WorkerSettled(w)
        PROVE  WorkerSettled(w)'
    <2>1. CASE current[w] = NoTask
      BY <1>2, <2>1 DEF WorkerSettled
    <2>2. CASE current[w] # NoTask
      <3>1. current[w] \in Tasks /\ status[current[w]] = "in_progress"
        BY <1>2, <2>2 DEF WorkerSettled, Types, Typed
      <3>2. status'[current[w]] = "in_progress"
        BY <3>1, Constants
      <3>3. QED
        BY <1>2, <3>2 DEF WorkerSettled
    <2>3. QED
      BY <2>1, <2>2
  <1>3. Agree => Agree'
    BY Constants DEF Agree
  <1>4. QED
    BY <1>1, <1>2, <1>3 DEF Settled, SettledBut

-----------------------------------------------------------------------------
(* Handlers begin *)

\* A worker with a task, between two handlers.
LEMMA Busy ==
  ASSUME RecInv, mode \in {"loop", "stopping"}, steps = <<>>,
         NEW w \in Workers, current[w] # NoTask
  PROVE  /\ current[w] \in Tasks /\ Has(w, current[w]) /\ SettledBut(current[w], w)
         /\ status[current[w]] = "in_progress"
         /\ session[w] \in {current[w], NoTask}
         /\ \A v \in monitored : current[v] # NoTask
  <1>1. Types /\ Settled /\ \A v \in monitored : current[v] # NoTask
    BY AtRest DEF RecInv
  <1>2. current[w] \in Tasks
    BY <1>1 DEF Types, Typed
  <1>3. QED
    BY <1>1, <1>2, Constants DEF Settled, SettledBut, WorkerSettled, Has

\* A handler that ends the worker's task, or gives it back, begins.
LEMMA EndIs ==
  ASSUME RecInv, NEW t \in Tasks, NEW w \in Workers,
         Has(w, t), SettledBut(t, w), Monitoring(w),
         UNCHANGED <<status, assignee, current, mode>>,
         session' \in [Workers -> Tasks \cup {NoTask}],
         session'[w] = NoTask \/ (session'[w] = t /\ steps'[1] = TaskStep(t, "failed", w)),
         \A v \in Workers \ {w} : session'[v] = session[v],
         monitored' = monitored \ {w},
         Ends(steps', t, w)
  PROVE  /\ Handling' /\ Blank' /\ steps' \in Seq(StepSet)
  <1>2. SettledBut(t, w)'
    BY DEF SettledBut, TaskSettled, WorkerSettled
  <1>3. Monitoring(w)'
    BY DEF Monitoring
  <1>4. Has(w, t)'
    BY DEF Has
  <1>5. Blank'
    BY DEF RecInv, Blank, Has, Running
  <1>6. Ends(steps', t, w)
    OBVIOUS
  <1>7. \A i \in 3..Len(steps') : Neutral(steps'[i])
    <2>1. Neutral(steps'[3])
      <3>1. \E k : steps'[3] = EmitStep(k, t)
        BY <1>6 DEF Ends
      <3>2. \A k : Neutral(EmitStep(k, t))
        BY DEF Neutral, EmitStep
      <3>3. QED
        BY <3>1, <3>2
    <2>2. \A i \in 4..Len(steps') : Neutral(steps'[i])
      BY <1>6 DEF Ends, Trailing
    <2>3. Len(steps') \in Nat
      BY <1>6, LenProperties DEF Ends
    <2>4. QED
      BY <2>1, <2>2, <2>3
  <1>8. Len(steps') >= 2
    <2>1. Len(steps') \in Nat /\ Len(steps') >= 3
      BY <1>6, LenProperties DEF Ends
    <2>2. QED
      BY <2>1
  <1>9. \E s \in Terminal : steps'[1] = TaskStep(t, s, w) \/ steps'[1] = TaskStep(t, "open", NoWorker)
    BY <1>6 DEF Ends, Terminal
  <1>10. steps'[2] = WorkerStep(w, NoTask) /\ steps' \in Seq(StepSet)
    BY <1>6 DEF Ends
  <1>11. \E u \in Tasks, v \in Workers : SettledBut(u, v)' /\ Monitoring(v)' /\ Ending(u, v)'
    <2>1. Ending(t, w)'
      BY <1>4, <1>7, <1>8, <1>9, <1>10 DEF Ending, NeutralFrom
    <2>2. QED
      BY <1>2, <1>3, <2>1
  <1>12. QED
    BY <1>5, <1>10, <1>11 DEF Handling

LEMMA EndBegins ==
  ASSUME RecInv, mode \in {"loop", "stopping"}, steps = <<>>,
         NEW t \in Tasks, NEW w \in Workers, current[w] = t,
         UNCHANGED <<status, assignee, current, mode>>,
         session' \in [Workers -> Tasks \cup {NoTask}],
         session'[w] = NoTask \/ (session'[w] = t /\ steps'[1] = TaskStep(t, "failed", w)),
         \A v \in Workers \ {w} : session'[v] = session[v],
         monitored' = monitored \ {w},
         Ends(steps', t, w)
  PROVE  /\ Handling' /\ Blank' /\ steps' \in Seq(StepSet)
  <1>1. /\ Has(w, t) /\ SettledBut(t, w)
        /\ \A v \in monitored : current[v] # NoTask
    BY Busy, Numbers
  <1>2. Monitoring(w)
    BY <1>1 DEF Monitoring
  <1>3. QED
    BY <1>1, <1>2, EndIs

LEMMA InLoop ==
  ASSUME Types', Blank', Handling', mode' \in {"loop", "stopping"}
  PROVE  RecInv'
  BY DEF RecInv, Resetting

LEMMA Bump ==
  ASSUME NEW f \in [Tasks -> Nat], NEW t \in Tasks
  PROVE  [f EXCEPT ![t] = @ + 1] \in [Tasks -> Nat]
  <1>1. f[t] + 1 \in Nat
    OBVIOUS
  <1>2. QED
    BY <1>1

\* What a handler does to the counters.
LEMMA CountersTyped ==
  ASSUME Types, NEW t \in Tasks, NEW w \in Workers
  PROVE  /\ HandleSuccess(t, w) => retries' \in [Tasks -> Nat] /\ gaps' \in Nat
         /\ HandleFailure(t, w) => retries' \in [Tasks -> Nat] /\ gaps' \in Nat
         /\ \A s, k : TerminalFailure(t, w, s, k) => gaps' \in Nat
  <1>1. retries \in [Tasks -> Nat] /\ gaps \in Nat
    BY DEF Types, Typed
  <1>2. ASSUME NEW s, NEW k, TerminalFailure(t, w, s, k)
        PROVE  gaps' \in Nat
    BY <1>1, <1>2 DEF TerminalFailure
  <1>3. HandleSuccess(t, w) => retries' \in [Tasks -> Nat] /\ gaps' \in Nat
    BY <1>1 DEF HandleSuccess
  <1>4. HandleFailure(t, w) => retries' \in [Tasks -> Nat] /\ gaps' \in Nat
    BY <1>1, <1>2, Bump DEF HandleFailure
  <1>5. QED
    BY <1>2, <1>3, <1>4

LEMMA DispatchStep ==
  ASSUME RecInv, Dispatch
  PROVE  RecInv'
  <1>1. PICK t \in Tasks, w \in Workers :
          /\ Ready(t) /\ current[w] = NoTask
          /\ steps' = <<TaskStep(t, "assigned", w), WorkerStep(w, t),
                        SessionStep(w, t), TaskStep(t, "in_progress", w)>>
          /\ monitored' = monitored \cup {w}
    BY DEF Dispatch
  <1>2. Types /\ Blank /\ Settled /\ \A v \in monitored : current[v] # NoTask
    BY AtRest DEF RecInv, Dispatch
  <1>3. UNCHANGED <<status, assignee, current, session>>
    BY DEF Dispatch, ledger, outside
  <1>4. SettledBut(t, w)
    BY <1>2 DEF Settled, SettledBut
  <1>5. SettledBut(t, w)' /\ Blank'
    BY <1>2, <1>3, <1>4, Frame
  <1> DEFINE a == TaskStep(t, "assigned", w)  b == WorkerStep(w, t)
             c == SessionStep(w, t)  d == TaskStep(t, "in_progress", w)
  <1>6. a \in StepSet /\ b \in StepSet /\ c \in StepSet /\ d \in StepSet
    BY StepTypes, Constants
  <1>7. steps' = <<a, b, c, d>>
    BY <1>1
  <1> HIDE DEF a, b, c, d
  <1>8. /\ steps' \in Seq(StepSet) /\ Len(steps') = 4
        /\ steps'[1] = a /\ steps'[2] = b /\ steps'[3] = c /\ steps'[4] = d
    BY <1>6, <1>7
  <1>9. session[w] = NoTask /\ status[t] = "open"
    BY <1>1, <1>2 DEF Settled, WorkerSettled, Ready
  <1>10. Assigning(t, w)'
    BY <1>1, <1>3, <1>8, <1>9 DEF Assigning, a, b, c, d
  <1>11. Monitoring(w)'
    BY <1>1, <1>2, <1>3 DEF Monitoring
  <1>12. Handling'
    BY <1>5, <1>10, <1>11 DEF Handling
  <1>13. Types'
    BY <1>1, <1>2, <1>8 DEF Types, Typed, Dispatch, ledger, outside, resuming
  <1>14. QED
    BY <1>5, <1>12, <1>13, InLoop DEF Dispatch

\* A handler that restarts the session of the worker's task begins.
LEMMA RestartBegins ==
  ASSUME RecInv, mode \in {"loop", "stopping"}, steps = <<>>,
         NEW t \in Tasks, NEW w \in Workers, current[w] = t,
         UNCHANGED <<status, assignee, current, session, mode>>,
         session[w] = NoTask, monitored' \subseteq monitored,
         \/ steps' = <<SessionStep(w, t), TaskStep(t, "in_progress", w), EmitStep("task_handoff", t)>>
         \/ steps' = <<EmitStep("task_handoff", t), SessionStep(w, t), TaskStep(t, "in_progress", w)>>
  PROVE  /\ Handling' /\ Blank' /\ steps' \in Seq(StepSet)
  <1>1. /\ Has(w, t) /\ SettledBut(t, w)
        /\ \A v \in monitored : current[v] # NoTask
    BY Busy, Numbers
  <1>2. SettledBut(t, w)' /\ Blank'
    BY <1>1, Frame DEF RecInv
  <1>3. Monitoring(w)' /\ Has(w, t)'
    BY <1>1 DEF Monitoring, Has
  <1> DEFINE c == SessionStep(w, t)  d == TaskStep(t, "in_progress", w)
             e == EmitStep("task_handoff", t)
  <1>4. c \in StepSet /\ d \in StepSet /\ e \in StepSet
    BY StepTypes, Constants
  <1>5. Neutral(e)
    BY DEF Neutral, EmitStep
  <1>6. CASE steps' = <<c, d, e>>
    <2> HIDE DEF c, d, e
    <2>1. /\ steps' \in Seq(StepSet) /\ Len(steps') = 3
          /\ steps'[1] = c /\ steps'[2] = d /\ steps'[3] = e
      BY <1>4, <1>6
    <2>2. \A i \in 3..Len(steps') : Neutral(steps'[i])
      BY <1>5, <2>1
    <2>3. Starting(t, w)'
      BY <1>3, <2>1, <2>2 DEF Starting, NeutralFrom, c, d
    <2>4. QED
      BY <1>2, <1>3, <2>1, <2>3 DEF Handling
  <1>7. CASE steps' = <<e, c, d>>
    <2> HIDE DEF c, d, e
    <2>1. /\ steps' \in Seq(StepSet) /\ Len(steps') = 3
          /\ steps'[1] = e /\ steps'[2] = c /\ steps'[3] = d
      BY <1>4, <1>7
    <2>2. \A i \in 4..Len(steps') : Neutral(steps'[i])
      BY <2>1
    <2>3. Logging(t, w)'
      BY <1>3, <1>5, <2>1, <2>2 DEF Logging, NeutralFrom, c, d
    <2>4. QED
      BY <1>2, <1>3, <2>1, <2>3 DEF Handling
  <1>8. QED
    BY <1>6, <1>7

LEMMA ProcessOutcomeStep ==
  ASSUME RecInv, ProcessOutcome
  PROVE  RecInv'
  <1>1. PICK w \in monitored :
          /\ session[w] = NoTask /\ monitored' = monitored \ {w}
          /\ \/ HandleSuccess(current[w], w) /\ UNCHANGED handoffs
             \/ HandleFailure(current[w], w) /\ UNCHANGED handoffs
             \/ /\ TerminalFailure(current[w], w, "blocked", "task_blocked")
                /\ UNCHANGED <<retries, handoffs>>
             \/ HandleHandoff(current[w], w)
    BY DEF ProcessOutcome, HandleOutcome
  <1>2. Types /\ mode \in {"loop", "stopping"} /\ steps = <<>>
    BY DEF RecInv, ProcessOutcome, Free
  <1>3. w \in Workers /\ current[w] # NoTask /\ Handling
    <2>1. Handling
      BY <1>2 DEF RecInv
    <2>2. QED
      BY <1>2, <2>1, AtRest DEF Types, Typed
  <1>4. PICK t \in Tasks : t = current[w]
    BY <1>2, <1>3 DEF Types, Typed
  <1>5. UNCHANGED <<status, assignee, current, session, mode>>
    BY DEF ProcessOutcome, ledger, outside
  <1>6. handoffs \in [Tasks -> Nat] /\ [handoffs EXCEPT ![t] = @ + 1] \in [Tasks -> Nat]
    BY <1>2, Bump DEF Types, Typed
  <1>7. CASE /\ steps' = <<SessionStep(w, t), TaskStep(t, "in_progress", w), EmitStep("task_handoff", t)>>
             /\ handoffs' = [handoffs EXCEPT ![t] = @ + 1]
             /\ UNCHANGED <<retries, gaps>>
    <2>1. Handling' /\ Blank' /\ steps' \in Seq(StepSet)
      BY <1>1, <1>2, <1>3, <1>4, <1>5, <1>7, RestartBegins
    <2>2. Types'
      BY <1>1, <1>2, <1>5, <1>6, <1>7, <2>1
         DEF Types, Typed, ProcessOutcome, ledger, outside, resuming
    <2>3. QED
      BY <1>2, <1>5, <2>1, <2>2, InLoop
  <1>8. CASE /\ \/ HandleSuccess(t, w) \/ HandleFailure(t, w)
                \/ TerminalFailure(t, w, "blocked", "task_blocked") /\ UNCHANGED retries
             /\ handoffs' \in [Tasks -> Nat]
    <2>1. Ends(steps', t, w)
      BY <1>3, <1>8, HandlersEnd
    <2>2. Handling' /\ Blank' /\ steps' \in Seq(StepSet)
      <3>1. session \in [Workers -> Tasks \cup {NoTask}]
        BY <1>2 DEF Types, Typed
      <3>2. QED
        BY <1>1, <1>2, <1>3, <1>4, <1>5, <2>1, <3>1, EndBegins
    <2>3. retries' \in [Tasks -> Nat] /\ gaps' \in Nat
      <3>1. retries \in [Tasks -> Nat]
        BY <1>2 DEF Types, Typed
      <3>2. QED
        BY <1>2, <1>3, <1>8, <3>1, CountersTyped
    <2>4. Types'
      BY <1>1, <1>2, <1>5, <1>8, <2>2, <2>3
         DEF Types, Typed, ProcessOutcome, ledger, outside, resuming
    <2>5. QED
      BY <1>2, <1>5, <2>2, <2>4, InLoop
  <1>9. QED
    <2>1. CASE HandleHandoff(t, w)
      BY <1>6, <1>7, <1>8, <2>1 DEF HandleHandoff
    <2>2. CASE ~HandleHandoff(t, w)
      BY <1>1, <1>4, <1>6, <1>8, <2>2
    <2>3. QED
      BY <2>1, <2>2

LEMMA ProcessKilledStep ==
  ASSUME RecInv, ProcessKilled
  PROVE  RecInv'
  <1>1. PICK w \in monitored :
          /\ session' = [session EXCEPT ![w] = NoTask]
          /\ monitored' = monitored \ {w}
          /\ HandleFailure(current[w], w)
    BY DEF ProcessKilled
  <1>2. Types /\ mode \in {"loop", "stopping"} /\ steps = <<>>
    BY DEF RecInv, ProcessKilled, Free
  <1>3. w \in Workers /\ current[w] # NoTask
    <2>1. Handling
      BY <1>2 DEF RecInv
    <2>2. QED
      BY <1>2, <2>1, AtRest DEF Types, Typed
  <1>4. PICK t \in Tasks : t = current[w]
    BY <1>2, <1>3 DEF Types, Typed
  <1>5. UNCHANGED <<status, assignee, current, mode>>
    BY DEF ProcessKilled, ledger
  <1>6. /\ session' \in [Workers -> Tasks \cup {NoTask}] /\ session'[w] = NoTask
        /\ \A v \in Workers \ {w} : session'[v] = session[v]
    BY <1>1, <1>2, <1>3 DEF Types, Typed
  <1>7. Ends(steps', t, w)
    BY <1>1, <1>3, <1>4, HandlersEnd
  <1>8. Handling' /\ Blank' /\ steps' \in Seq(StepSet)
    BY <1>1, <1>2, <1>3, <1>4, <1>5, <1>6, <1>7, EndBegins
  <1>9. retries' \in [Tasks -> Nat] /\ gaps' \in Nat
    BY <1>1, <1>2, <1>3, <1>4, CountersTyped
  <1>10. Types'
    BY <1>1, <1>2, <1>5, <1>6, <1>8, <1>9
       DEF Types, Typed, ProcessKilled, ledger, resuming
  <1>11. QED
    BY <1>2, <1>5, <1>8, <1>10, InLoop

LEMMA WatchdogStep ==
  ASSUME RecInv, Watchdog, strays \in Nat, strays' = strays
  PROVE  RecInv'
  <1>1. PICK w \in Workers :
          /\ current[w] # NoTask /\ session[w] = NoTask
          /\ \/ /\ handoffs' = [handoffs EXCEPT ![current[w]] = @ + 1]
                /\ steps' = <<EmitStep("task_handoff", current[w]), SessionStep(w, current[w]),
                              TaskStep(current[w], "in_progress", assignee[current[w]])>>
                /\ UNCHANGED <<gaps, aborted>>
             \/ /\ TerminalFailure(current[w], w, "failed", "task_failed") /\ UNCHANGED handoffs
                /\ w \notin monitored
          /\ UNCHANGED monitored
    BY DEF Watchdog, LeavesBehind, NobodyLeft
  <1>2. Types /\ mode = "loop" /\ steps = <<>>
    BY DEF RecInv, Watchdog
  <1>3. PICK t \in Tasks : t = current[w]
    BY <1>1, <1>2 DEF Types, Typed
  <1>4. UNCHANGED <<status, assignee, current, session, mode, monitored, retries>>
    BY <1>1 DEF Watchdog, ledger, outside
  <1>5. /\ handoffs \in [Tasks -> Nat] /\ [handoffs EXCEPT ![t] = @ + 1] \in [Tasks -> Nat]
        /\ session \in [Workers -> Tasks \cup {NoTask}]
    BY <1>2, Bump DEF Types, Typed
  <1>6. assignee[t] = w
    BY <1>1, <1>2, <1>3, Busy DEF Has
  <1>7. CASE /\ steps' = <<EmitStep("task_handoff", t), SessionStep(w, t), TaskStep(t, "in_progress", w)>>
             /\ handoffs' = [handoffs EXCEPT ![t] = @ + 1]
             /\ UNCHANGED gaps
    <2>1. Handling' /\ Blank' /\ steps' \in Seq(StepSet)
      BY <1>1, <1>2, <1>3, <1>4, <1>7, RestartBegins
    <2>2. Types'
      BY <1>2, <1>4, <1>5, <1>7, <2>1 DEF Types, Typed, Watchdog, ledger, outside, resuming
    <2>3. QED
      BY <1>2, <1>4, <2>1, <2>2, InLoop
  <1>8. CASE /\ TerminalFailure(t, w, "failed", "task_failed") /\ UNCHANGED handoffs
             /\ w \notin monitored
    <2>1. Ends(steps', t, w)
      BY <1>8, HandlersEnd
    <2>2. monitored' = monitored \ {w}
      BY <1>4, <1>8
    <2>3. Handling' /\ Blank' /\ steps' \in Seq(StepSet)
      BY <1>1, <1>2, <1>3, <1>4, <1>5, <2>1, <2>2, EndBegins
    <2>4. gaps' \in Nat
      BY <1>2, <1>8, CountersTyped
    <2>5. Types'
      BY <1>2, <1>4, <1>8, <2>3, <2>4 DEF Types, Typed, Watchdog, ledger, outside, resuming
    <2>6. QED
      BY <1>2, <1>4, <2>3, <2>5, InLoop
  <1>9. QED
    BY <1>1, <1>3, <1>6, <1>7, <1>8

LEMMA OrphanCkStep ==
  ASSUME RecInv, OrphanCk, strays \in Nat, strays' = strays
  PROVE  RecInv'
  <1>1. PICK w \in Workers :
          /\ current[w] # NoTask /\ w \notin monitored
          /\ TerminalFailure(current[w], w, "failed", "task_failed")
          /\ UNCHANGED monitored
    BY DEF OrphanCk, LeavesBehind, NobodyLeft
  <1>2. Types /\ mode = "loop" /\ steps = <<>>
    BY DEF RecInv, OrphanCk
  <1>3. PICK t \in Tasks : t = current[w]
    BY <1>1, <1>2 DEF Types, Typed
  <1>4. /\ UNCHANGED <<status, assignee, current, session, mode, retries, handoffs>>
        /\ monitored' = monitored \ {w}
    BY <1>1 DEF OrphanCk, ledger, outside
  <1>5. session \in [Workers -> Tasks \cup {NoTask}] /\ session[w] \in {t, NoTask}
    BY <1>1, <1>2, <1>3, Busy DEF Types, Typed
  <1>6. Ends(steps', t, w) /\ steps'[1] = TaskStep(t, "failed", w)
    BY <1>1, <1>3, HandlersEnd, FailsFirst
  <1>7. Handling' /\ Blank' /\ steps' \in Seq(StepSet)
    BY <1>2, <1>3, <1>4, <1>5, <1>6, EndBegins
  <1>8. gaps' \in Nat
    BY <1>1, <1>2, <1>3, CountersTyped
  <1>9. Types'
    BY <1>1, <1>2, <1>4, <1>7, <1>8 DEF Types, Typed, OrphanCk, ledger, outside, resuming
  <1>10. QED
    BY <1>2, <1>4, <1>7, <1>9, InLoop

\* A task is being assigned: what is left is to start its session, or to record it.
LEMMA Spawning ==
  ASSUME RecInv, mode \in {"loop", "stopping"}, NEW t \in Tasks, NEW w \in Workers,
         steps \in {<<SessionStep(w, t), TaskStep(t, "in_progress", w)>>,
                   <<TaskStep(t, "in_progress", w)>>}
  PROVE  Has(w, t) /\ SettledBut(t, w) /\ Monitoring(w) /\ session[w] \in {t, NoTask}
  <1>1. Handling
    BY DEF RecInv
  <1> DEFINE c == SessionStep(w, t)  d == TaskStep(t, "in_progress", w)
  <1>2. Len(steps) \in 1..2 /\ steps[1] \in {c, d} /\ (Len(steps) = 2 => steps[1] = c)
    <2>1. steps = <<c, d>> \/ steps = <<d>>
      OBVIOUS
    <2> HIDE DEF c, d
    <2>2. QED
      BY <2>1
  <1>3. /\ c.op = "session" /\ c.task = t /\ c.worker = w
        /\ d.op = "task" /\ d.task = t /\ d.worker = w /\ d.arg = "in_progress"
    BY DEF SessionStep, TaskStep
  <1> HIDE DEF c, d
  <1>4. ~NeutralFrom(1)
    BY <1>2, <1>3 DEF NeutralFrom, Neutral
  <1>5. ASSUME NEW u \in Tasks, NEW v \in Workers
        PROVE  ~Assigning(u, v) /\ ~Assigned(u, v) /\ ~Logging(u, v) /\ ~Ending(u, v) /\ ~Ended(u, v)
    <2>1. ~Assigning(u, v) /\ ~Assigned(u, v) /\ ~Logging(u, v)
      BY <1>2, <1>3 DEF Assigning, Assigned, Logging
    <2>2. ~Ended(u, v)
      BY <1>2, <1>3 DEF Ended, WorkerStep
    <2>3. Ending(u, v) => Len(steps) >= 2 /\ steps[1].op = "task"
      BY DEF Ending, TaskStep
    <2>4. Len(steps) >= 2 => steps[1].op = "session"
      BY <1>2, <1>3
    <2>5. QED
      BY <2>1, <2>2, <2>3, <2>4
  <1>6. PICK u \in Tasks, v \in Workers :
          SettledBut(u, v) /\ Monitoring(v) /\ (Starting(u, v) \/ Started(u, v))
    BY <1>1, <1>4, <1>5 DEF Handling
  <1>7. steps[1].task = u /\ steps[1].worker = v
    BY <1>6 DEF Starting, Started, SessionStep, TaskStep
  <1>8. u = t /\ v = w
    BY <1>2, <1>3, <1>7
  <1>9. QED
    BY <1>6, <1>8 DEF Starting, Started

LEMMA SpawnFailsStep ==
  ASSUME RecInv, SpawnFails
  PROVE  RecInv'
  <1>1. PICK t \in Tasks, w \in Workers :
          /\ steps \in {<<SessionStep(w, t), TaskStep(t, "in_progress", w)>>,
                       <<TaskStep(t, "in_progress", w)>>}
          /\ session' = [session EXCEPT ![w] = NoTask]
          /\ monitored' = monitored \ {w}
          /\ steps' = Terminate(t, w, "failed", "task_failed")
    BY DEF SpawnFails
  <1>2. Types /\ mode = "loop"
    BY DEF RecInv, SpawnFails
  <1>3. UNCHANGED <<status, assignee, current, mode>>
    BY DEF SpawnFails, ledger
  <1>4. Has(w, t) /\ SettledBut(t, w) /\ Monitoring(w)
    BY <1>1, <1>2, Spawning
  <1>5. Ends(steps', t, w)
    <2> DEFINE q == Terminate(t, w, "failed", "task_failed")
    <2>1. <<>> \in Trail
      BY ShortTrails
    <2>2. q \o <<>> = q
      <3>1. /\ TaskStep(t, "failed", w) \in StepSet /\ WorkerStep(w, NoTask) \in StepSet
            /\ EmitStep("task_failed", t) \in StepSet
        BY StepTypes, Constants DEF Terminal, TerminalKinds
      <3>2. q \in Seq(StepSet)
        BY <3>1 DEF Terminate
      <3>3. QED
        BY <3>2, ConcatEmptySeq
    <2>3. QED
      BY <1>1, <2>1, <2>2, TerminateEnds DEF Terminal, TerminalKinds
  <1>6. /\ session' \in [Workers -> Tasks \cup {NoTask}] /\ session'[w] = NoTask
        /\ \A v \in Workers \ {w} : session'[v] = session[v]
    BY <1>1, <1>2 DEF Types, Typed
  <1>7. Handling' /\ Blank' /\ steps' \in Seq(StepSet)
    BY <1>1, <1>3, <1>4, <1>5, <1>6, EndIs
  <1>8. Types'
    BY <1>1, <1>2, <1>3, <1>6, <1>7 DEF Types, Typed, SpawnFails, ledger, resuming
  <1>9. QED
    BY <1>2, <1>3, <1>7, <1>8, InLoop

-----------------------------------------------------------------------------
(* Handlers go on: one durable write *)

LEMMA DoTask ==
  ASSUME Types, DoStep, NEW t, NEW s, NEW w, steps[1] = TaskStep(t, s, w)
  PROVE  /\ status' = [status EXCEPT ![t] = s] /\ assignee' = [assignee EXCEPT ![t] = w]
         /\ steps' = Tail(steps) /\ UNCHANGED <<current, session, monitored>>
  <1>1. Head(steps) = steps[1]
    BY TailFacts DEF DoStep
  <1>2. /\ Head(steps).op = "task" /\ Head(steps).task = t
        /\ Head(steps).worker = w /\ Head(steps).arg = s
    BY <1>1 DEF TaskStep
  <1>3. QED
    BY <1>2 DEF DoStep, memory

LEMMA DoWorker ==
  ASSUME Types, DoStep, NEW t, NEW w \in Workers, steps[1] = WorkerStep(w, t),
         session[w] = NoTask
  PROVE  /\ current' = [current EXCEPT ![w] = t]
         /\ steps' = Tail(steps) /\ UNCHANGED <<status, assignee, session, monitored>>
  <1>1. Head(steps) = steps[1]
    BY TailFacts DEF DoStep
  <1>2. Head(steps).op = "worker" /\ Head(steps).task = t /\ Head(steps).worker = w
    BY <1>1 DEF WorkerStep
  <1>3. [session EXCEPT ![w] = NoTask] = session
    BY DEF Types, Typed
  <1>4. QED
    BY <1>2, <1>3 DEF DoStep, memory

LEMMA DoRelease ==
  ASSUME Types, DoStep, NEW w \in Workers, steps[1] = WorkerStep(w, NoTask)
  PROVE  /\ current' = [current EXCEPT ![w] = NoTask] /\ session' = [session EXCEPT ![w] = NoTask]
         /\ steps' = Tail(steps) /\ UNCHANGED <<status, assignee, monitored>>
  <1>1. Head(steps) = steps[1]
    BY TailFacts DEF DoStep
  <1>2. Head(steps).op = "worker" /\ Head(steps).task = NoTask /\ Head(steps).worker = w
    BY <1>1 DEF WorkerStep
  <1>3. QED
    BY <1>2 DEF DoStep, memory

LEMMA DoSession ==
  ASSUME Types, DoStep, NEW t, NEW w \in Workers, steps[1] = SessionStep(w, t),
         current[w] = t
  PROVE  /\ session' = [session EXCEPT ![w] = t]
         /\ steps' = Tail(steps) /\ UNCHANGED <<status, assignee, current, monitored>>
  <1>1. Head(steps) = steps[1]
    BY TailFacts DEF DoStep
  <1>2. Head(steps).op = "session" /\ Head(steps).task = t /\ Head(steps).worker = w
    BY <1>1 DEF SessionStep
  <1>3. [current EXCEPT ![w] = t] = current
    BY DEF Types, Typed
  <1>4. QED
    BY <1>2, <1>3 DEF DoStep, memory

\* abortCleanup blocks open tasks; the other writes that may follow leave tasks alone.
LEMMA DoNeutral ==
  ASSUME RecInv, DoStep, Neutral(steps[1])
  PROVE  /\ UNCHANGED <<assignee, current, session, monitored>>
         /\ status' \in [Tasks -> Status]
         /\ \A t \in Tasks : status'[t] = status[t] \/ (status[t] = "open" /\ status'[t] = "blocked")
         /\ steps' = Tail(steps) \/ (steps' = steps /\ steps[1].op = "block")
         /\ steps[1].op # "block" => UNCHANGED status
         /\ Blank'
  <1>1. Types /\ Blank
    BY DEF RecInv
  <1>2. Head(steps) = steps[1] /\ Head(steps).op \in {"emit", "escalate", "block"}
    BY <1>1, TailFacts DEF DoStep, Neutral
  <1>3. /\ UNCHANGED <<assignee, current, session, monitored>>
        /\ \/ UNCHANGED status
           \/ /\ Head(steps).op = "block"
              /\ \E t \in Tasks : status[t] = "open" /\ status' = [status EXCEPT ![t] = "blocked"]
        /\ steps' = Tail(steps) \/ (steps' = steps /\ Head(steps).op = "block")
    BY <1>2 DEF DoStep, memory, Block
  <1>4. /\ status' \in [Tasks -> Status]
        /\ \A t \in Tasks : status'[t] = status[t] \/ (status[t] = "open" /\ status'[t] = "blocked")
    BY <1>1, <1>3, Constants DEF Types, Typed, Terminal
  <1>5. Blank'
    BY <1>1, <1>3, <1>4 DEF Blank, Types, Typed
  <1>6. QED
    BY <1>2, <1>3, <1>4, <1>5

LEMMA NeutralKeeps ==
  ASSUME RecInv, DoStep, Neutral(steps[1])
  PROVE  /\ Settled => Settled'
         /\ \A t \in Tasks, w \in Workers : SettledBut(t, w) => SettledBut(t, w)'
  <1>1. \A t \in Tasks : status'[t] = status[t] \/ (status[t] \notin Running /\ status'[t] \notin Running)
    BY DoNeutral DEF Running
  <1>2. QED
    BY <1>1, DoNeutral, OpenedSettled DEF RecInv

LEMMA DoStepTypes ==
  ASSUME RecInv, DoStep
  PROVE  Types'
  <1>1. /\ Types /\ steps # <<>>
        /\ Head(steps) \in StepSet /\ Tail(steps) \in Seq(StepSet)
    BY TailFacts DEF RecInv, DoStep
  <1>2. mode \in {"loop", "stopping"} /\ mode' = mode
    BY <1>1 DEF Types, Typed, DoStep
  <1> DEFINE s == Head(steps)
  <1>3. /\ s.op \in {"task", "session", "emit"} => s.task \in Tasks
        /\ s.op \in {"worker", "session"} => s.worker \in Workers
        /\ s.op = "task" => s.arg \in Status
        /\ s.op = "emit" => s.arg \in Kinds
        /\ s.task \in Tasks \cup {NoTask} /\ s.worker \in Workers \cup {NoWorker}
    BY <1>1 DEF StepSet
  <1> HIDE DEF s
  <1>4. steps' \in Seq(StepSet)
    BY <1>1 DEF DoStep, Block, Types
  <1>5. status' \in [Tasks -> Status]
    BY <1>1, <1>3 DEF DoStep, Block, Types, Typed, s, Status, Terminal
  <1>6. assignee' \in [Tasks -> Workers \cup {NoWorker}]
    BY <1>1, <1>3 DEF DoStep, Types, Typed, s
  <1>7. /\ current' \in [Workers -> Tasks \cup {NoTask}]
        /\ session' \in [Workers -> Tasks \cup {NoTask}]
    BY <1>1, <1>3 DEF DoStep, Types, Typed, s
  <1>8. escalation' \in {"absent", "open", "blocked"}
    BY <1>1 DEF DoStep, Block, Types, Typed
  <1>9. log' \in Seq(EventSet)
    <2>1. CASE s.op = "emit"
      <3>1. log' = Append(log, Event(s.arg, s.task))
        BY <2>1 DEF DoStep, s
      <3>2. Event(s.arg, s.task) \in EventSet
        BY <1>3, <2>1 DEF Event, EventSet
      <3>3. QED
        BY <1>1, <3>1, <3>2, AppendProperties DEF Types
    <2>2. CASE s.op # "emit"
      BY <1>1, <2>2 DEF DoStep, Types, s
    <2>3. QED
      BY <2>1, <2>2
  <1>10. \A i \in DOMAIN log' : log'[i].task \in Tasks
    <2>1. \A i \in DOMAIN log' : log'[i] \in EventSet
      BY <1>9, ElementOfSeq, LenProperties
    <2>2. QED
      BY <2>1 DEF EventSet
  <1>11. UNCHANGED <<graph, sidecar, retries, handoffs, gaps, monitored, todo, live, reopens>>
    BY DEF DoStep, memory, resuming
  <1>12. QED
    BY <1>1, <1>2, <1>4, <1>5, <1>6, <1>7, <1>8, <1>9, <1>10, <1>11 DEF Types, Typed

LEMMA Shifted ==
  ASSUME Types, steps # <<>>, steps' = Tail(steps)
  PROVE  /\ Len(steps) \in Nat /\ Len(steps') = Len(steps) - 1
         /\ Len(steps) >= 2 => steps'[1] = steps[2]
         /\ Len(steps) >= 3 => steps'[2] = steps[3]
         /\ Len(steps) >= 4 => steps'[3] = steps[4]
  <1>1. /\ Len(steps) \in Nat \ {0} /\ Len(steps') = Len(steps) - 1
        /\ \A i \in 1..Len(steps) - 1 : steps'[i] = steps[i + 1]
    BY TailFacts
  <1>2. Len(steps) >= 2 => steps'[1] = steps[1 + 1]
    BY <1>1
  <1>3. Len(steps) >= 3 => steps'[2] = steps[2 + 1]
    BY <1>1
  <1>4. Len(steps) >= 4 => steps'[3] = steps[3 + 1]
    BY <1>1
  <1>5. 1 + 1 = 2 /\ 2 + 1 = 3 /\ 3 + 1 = 4
    OBVIOUS
  <1>6. QED
    BY <1>1, <1>2, <1>3, <1>4, <1>5

LEMMA NeutralTail ==
  ASSUME Types, steps # <<>>, steps' = Tail(steps)
  PROVE  /\ NeutralFrom(1) => NeutralFrom(1)'
         /\ NeutralFrom(2) => NeutralFrom(1)'
         /\ NeutralFrom(3) => NeutralFrom(2)'
         /\ NeutralFrom(4) => NeutralFrom(3)'
  <1>1. /\ Len(steps) \in Nat \ {0} /\ Len(steps') = Len(steps) - 1
        /\ \A i \in 1..Len(steps) - 1 : steps'[i] = steps[i + 1]
    BY TailFacts
  <1>2. ASSUME NEW k \in {1, 2, 3}, \A i \in k + 1..Len(steps) : Neutral(steps[i])
        PROVE  \A i \in k..Len(steps') : Neutral(steps'[i])
    <2>1. ASSUME NEW i \in k..Len(steps')
          PROVE  Neutral(steps'[i])
      <3>1. i \in 1..Len(steps) - 1 /\ i + 1 \in k + 1..Len(steps)
        BY <1>1
      <3>2. QED
        BY <1>1, <1>2, <3>1
    <2>2. QED
      BY <2>1
  <1>3. NeutralFrom(2) => NeutralFrom(1)'
    BY <1>2 DEF NeutralFrom
  <1>4. NeutralFrom(3) => NeutralFrom(2)'
    BY <1>2 DEF NeutralFrom
  <1>5. NeutralFrom(4) => NeutralFrom(3)'
    BY <1>2 DEF NeutralFrom
  <1>6. NeutralFrom(1) => NeutralFrom(2)
    BY <1>1 DEF NeutralFrom
  <1>7. QED
    BY <1>3, <1>4, <1>5, <1>6

LEMMA NeutralNext ==
  ASSUME RecInv, DoStep, NeutralFrom(1), Settled, \A v \in monitored : current[v] # NoTask
  PROVE  Blank' /\ Handling'
  <1>1. Types /\ steps # <<>>
    BY DEF RecInv, DoStep
  <1>2. Neutral(steps[1])
    BY <1>1, TailFacts DEF NeutralFrom
  <1>3. NeutralFrom(1)'
    <2>1. CASE steps' = Tail(steps)
      BY <1>1, <2>1, NeutralTail
    <2>2. CASE steps' = steps
      BY <2>2 DEF NeutralFrom
    <2>3. QED
      BY <1>2, <2>1, <2>2, DoNeutral
  <1>4. QED
    BY <1>2, <1>3, DoNeutral, NeutralKeeps DEF Handling

LEMMA AssigningNext ==
  ASSUME RecInv, DoStep, NEW t \in Tasks, NEW w \in Workers,
         SettledBut(t, w), Monitoring(w), Assigning(t, w)
  PROVE  Blank' /\ Handling'
  <1>1. Types /\ Blank /\ steps # <<>>
    BY DEF RecInv, DoStep
  <1>2. /\ status' = [status EXCEPT ![t] = "assigned"] /\ assignee' = [assignee EXCEPT ![t] = w]
        /\ steps' = Tail(steps) /\ UNCHANGED <<current, session, monitored>>
    BY <1>1, DoTask DEF Assigning
  <1>3. /\ Len(steps') = 3 /\ steps'[1] = WorkerStep(w, t)
        /\ steps'[2] = SessionStep(w, t) /\ steps'[3] = TaskStep(t, "in_progress", w)
    <2>1. Len(steps) = 4
      BY DEF Assigning
    <2>2. steps' = Tail(steps)
      BY <1>2
    <2>3. /\ Len(steps') = Len(steps) - 1
          /\ Len(steps) >= 2 => steps'[1] = steps[2]
          /\ Len(steps) >= 3 => steps'[2] = steps[3]
          /\ Len(steps) >= 4 => steps'[3] = steps[4]
      BY <1>1, <2>2, Shifted, Zenon
    <2>4. steps'[1] = steps[2] /\ steps'[2] = steps[3] /\ steps'[3] = steps[4] /\ Len(steps') = 3
      BY <2>1, <2>3
    <2>5. QED
      BY <2>4 DEF Assigning
  <1>4. status \in [Tasks -> Status] /\ assignee \in [Tasks -> Workers \cup {NoWorker}]
        /\ current \in [Workers -> Tasks \cup {NoTask}]
    BY <1>1 DEF Types, Typed
  <1>5. Assigned(t, w)'
    BY <1>2, <1>3, <1>4 DEF Assigning, Assigned
  <1>6. \A u \in Tasks \ {t} : TaskSettled(u)'
    BY <1>2, <1>4 DEF SettledBut, TaskSettled
  <1>7. \A v \in Workers \ {w} : WorkerSettled(v)'
    <2>1. ASSUME NEW v \in Workers \ {w}
          PROVE  WorkerSettled(v)'
      <3>1. WorkerSettled(v) /\ current[v] # t
        BY Numbers DEF SettledBut, WorkerSettled, Assigning
      <3>2. QED
        BY <1>2, <1>4, <3>1 DEF WorkerSettled
    <2>2. QED
      BY <2>1
  <1>8. Blank'
    BY <1>1, <1>2, <1>4 DEF Blank
  <1>9. Monitoring(w)'
    BY <1>2 DEF Monitoring
  <1>10. QED
    BY <1>5, <1>6, <1>7, <1>8, <1>9 DEF Handling, SettledBut

LEMMA AssignedNext ==
  ASSUME RecInv, DoStep, NEW t \in Tasks, NEW w \in Workers,
         SettledBut(t, w), Monitoring(w), Assigned(t, w)
  PROVE  Blank' /\ Handling'
  <1>1. Types /\ Blank /\ steps # <<>>
    BY DEF RecInv, DoStep
  <1>2. /\ current' = [current EXCEPT ![w] = t]
        /\ steps' = Tail(steps) /\ UNCHANGED <<status, assignee, session, monitored>>
    BY <1>1, DoWorker DEF Assigned
  <1>3. /\ Len(steps') = 2 /\ steps'[1] = SessionStep(w, t) /\ steps'[2] = TaskStep(t, "in_progress", w)
    <2>1. Len(steps) = 3
      BY DEF Assigned
    <2>2. steps' = Tail(steps)
      BY <1>2
    <2>3. /\ Len(steps') = Len(steps) - 1
          /\ Len(steps) >= 2 => steps'[1] = steps[2]
          /\ Len(steps) >= 3 => steps'[2] = steps[3]
          /\ Len(steps) >= 4 => steps'[3] = steps[4]
      BY <1>1, <2>2, Shifted, Zenon
    <2>4. steps'[1] = steps[2] /\ steps'[2] = steps[3] /\ Len(steps') = 2
      BY <2>1, <2>3
    <2>5. QED
      BY <2>4 DEF Assigned
  <1>4. current \in [Workers -> Tasks \cup {NoTask}]
    BY <1>1 DEF Types, Typed
  <1>5. NeutralFrom(3)' /\ Len(steps') >= 2
    BY <1>3 DEF NeutralFrom
  <1>6. Starting(t, w)'
    BY <1>2, <1>3, <1>4, <1>5, Constants DEF Assigned, Starting, Has
  <1>7. \A u \in Tasks \ {t} : TaskSettled(u)'
    BY <1>2, <1>4, Numbers DEF SettledBut, TaskSettled, Assigned
  <1>8. \A v \in Workers \ {w} : WorkerSettled(v)'
    BY <1>2, <1>4 DEF SettledBut, WorkerSettled
  <1>9. Blank'
    BY <1>1, <1>2 DEF Blank
  <1>10. Monitoring(w)'
    BY <1>1, <1>2, <1>4 DEF Monitoring, Types, Typed
  <1>11. QED
    BY <1>6, <1>7, <1>8, <1>9, <1>10 DEF Handling, SettledBut

LEMMA LoggingNext ==
  ASSUME RecInv, DoStep, NEW t \in Tasks, NEW w \in Workers,
         SettledBut(t, w), Monitoring(w), Logging(t, w)
  PROVE  Blank' /\ Handling'
  <1>1. Types /\ steps # <<>> /\ Neutral(steps[1])
    BY DEF RecInv, DoStep, Logging
  <1>2. /\ UNCHANGED <<assignee, current, session, monitored>> /\ Blank'
        /\ steps' = Tail(steps) \/ steps' = steps
        /\ \A u \in Tasks : status'[u] = status[u] \/ status[u] = "open"
    BY <1>1, DoNeutral
  <1>3. SettledBut(t, w)' /\ Monitoring(w)'
    BY <1>1, <1>2, NeutralKeeps DEF Monitoring
  <1>4. Has(w, t)' /\ session'[w] = NoTask
    BY <1>2, Constants DEF Logging, Has
  <1>5. CASE steps' = Tail(steps)
    <2>1. NeutralFrom(3)' /\ Len(steps') >= 2 /\ steps'[1] = steps[2] /\ steps'[2] = steps[3]
      BY <1>1, <1>5, NeutralTail, Shifted DEF Logging
    <2>2. Starting(t, w)'
      BY <1>4, <2>1 DEF Logging, Starting
    <2>3. QED
      BY <1>2, <1>3, <2>2 DEF Handling
  <1>6. CASE steps' = steps
    <2>1. Logging(t, w)'
      BY <1>4, <1>6 DEF Logging, NeutralFrom
    <2>2. QED
      BY <1>2, <1>3, <2>1 DEF Handling
  <1>7. QED
    BY <1>2, <1>5, <1>6

LEMMA StartingNext ==
  ASSUME RecInv, DoStep, NEW t \in Tasks, NEW w \in Workers,
         SettledBut(t, w), Monitoring(w), Starting(t, w)
  PROVE  Blank' /\ Handling'
  <1>1. Types /\ Blank /\ steps # <<>>
    BY DEF RecInv, DoStep
  <1>2. /\ session' = [session EXCEPT ![w] = t]
        /\ steps' = Tail(steps) /\ UNCHANGED <<status, assignee, current, monitored>>
    BY <1>1, DoSession DEF Starting, Has
  <1>3. NeutralFrom(2)' /\ Len(steps') >= 1 /\ steps'[1] = steps[2]
    BY <1>1, <1>2, NeutralTail, Shifted DEF Starting
  <1>4. session \in [Workers -> Tasks \cup {NoTask}]
    BY <1>1 DEF Types, Typed
  <1>5. Started(t, w)'
    BY <1>2, <1>3, <1>4 DEF Starting, Started, Has
  <1>6. SettledBut(t, w)'
    BY <1>2, <1>4 DEF SettledBut, TaskSettled, WorkerSettled
  <1>7. Blank'
    BY <1>1, <1>2, <1>4, Constants DEF Blank, Starting, Has, Running
  <1>8. Monitoring(w)'
    BY <1>2 DEF Monitoring
  <1>9. QED
    BY <1>5, <1>6, <1>7, <1>8 DEF Handling

\* The task and its worker are settled as well.
LEMMA StartedNext ==
  ASSUME RecInv, DoStep, NEW t \in Tasks, NEW w \in Workers,
         SettledBut(t, w), Monitoring(w), Started(t, w)
  PROVE  Blank' /\ Handling'
  <1>1. Types /\ Blank /\ steps # <<>>
    BY DEF RecInv, DoStep
  <1>2. /\ status' = [status EXCEPT ![t] = "in_progress"] /\ assignee' = [assignee EXCEPT ![t] = w]
        /\ steps' = Tail(steps) /\ UNCHANGED <<current, session, monitored>>
    BY <1>1, DoTask DEF Started
  <1>3. NeutralFrom(1)'
    BY <1>1, <1>2, NeutralTail DEF Started
  <1>4. status \in [Tasks -> Status] /\ assignee \in [Tasks -> Workers \cup {NoWorker}]
        /\ current \in [Workers -> Tasks \cup {NoTask}] /\ monitored \subseteq Workers
    BY <1>1 DEF Types, Typed
  <1>5. current[w] = t /\ assignee[t] = w /\ session[w] \in {t, NoTask}
    BY DEF Started, Has
  <1>6. \A u \in Tasks : TaskSettled(u)'
    BY <1>2, <1>4, <1>5 DEF SettledBut, TaskSettled
  <1>7. ASSUME NEW v \in Workers
        PROVE  WorkerSettled(v)'
    <2>1. CASE v = w
      BY <1>2, <1>4, <1>5, <2>1 DEF WorkerSettled
    <2>2. CASE v # w
      <3>1. WorkerSettled(v) /\ current[v] # t
        BY <1>5, <2>2, Numbers DEF SettledBut, WorkerSettled
      <3>2. QED
        BY <1>2, <1>4, <3>1 DEF WorkerSettled
    <2>3. QED
      BY <2>1, <2>2
  <1>8. Blank'
    BY <1>1, <1>2, <1>4 DEF Blank
  <1>9. \A v \in monitored' : current'[v] # NoTask
    BY <1>2, <1>4, <1>5, Numbers DEF Monitoring
  <1>10. QED
    BY <1>3, <1>6, <1>7, <1>8, <1>9 DEF Handling, Settled

LEMMA EndingNext ==
  ASSUME RecInv, DoStep, NEW t \in Tasks, NEW w \in Workers,
         SettledBut(t, w), Monitoring(w), Ending(t, w)
  PROVE  Blank' /\ Handling'
  <1>1. Types /\ Blank /\ steps # <<>>
    BY DEF RecInv, DoStep
  <1>2. PICK s \in Terminal \cup {"open"}, x \in {w, NoWorker} :
          steps[1] = TaskStep(t, s, x) /\ (s = "open" => x = NoWorker)
    BY Constants DEF Ending
  <1>3. /\ status' = [status EXCEPT ![t] = s] /\ assignee' = [assignee EXCEPT ![t] = x]
        /\ steps' = Tail(steps) /\ UNCHANGED <<current, session, monitored>>
    BY <1>1, <1>2, DoTask
  <1>4. NeutralFrom(2)' /\ Len(steps') >= 1 /\ steps'[1] = steps[2]
    BY <1>1, <1>3, NeutralTail, Shifted DEF Ending
  <1>5. status \in [Tasks -> Status] /\ assignee \in [Tasks -> Workers \cup {NoWorker}]
        /\ current \in [Workers -> Tasks \cup {NoTask}]
    BY <1>1 DEF Types, Typed
  <1>6. Ended(t, w)'
    <2>1. steps[1] = TaskStep(t, "failed", w) => s = "failed"
      BY <1>2 DEF TaskStep
    <2>2. session[w] = NoTask \/ (session[w] = t /\ s = "failed")
      BY <2>1 DEF Ending
    <2>3. status'[t] = s /\ current'[w] = t /\ session'[w] = session[w] /\ w \notin monitored'
      BY <1>3, <1>5 DEF Ending, Has
    <2>4. steps'[1] = WorkerStep(w, NoTask)
      BY <1>4 DEF Ending
    <2>5. QED
      BY <1>2, <1>4, <2>2, <2>3, <2>4 DEF Ended
  <1>7. \A u \in Tasks \ {t} : TaskSettled(u)'
    BY <1>3, <1>5 DEF SettledBut, TaskSettled
  <1>8. ASSUME NEW v \in Workers \ {w}
        PROVE  WorkerSettled(v)'
    <2>1. WorkerSettled(v) /\ current[v] # t
      BY Numbers DEF SettledBut, WorkerSettled, Ending, Has
    <2>2. QED
      BY <1>3, <1>5, <2>1 DEF WorkerSettled
  <1>9. Blank'
    <2>1. s # "absent"
      BY DEF Terminal
    <2>2. s \in {"absent", "open"} => x = NoWorker
      BY <1>2, <2>1
    <2>3. QED
      BY <1>1, <1>3, <1>5, <2>1, <2>2 DEF Blank
  <1>10. Monitoring(w)'
    BY <1>3 DEF Monitoring
  <1>11. QED
    BY <1>6, <1>7, <1>8, <1>9, <1>10 DEF Handling, SettledBut

\* The worker is released: all are settled.
LEMMA EndedNext ==
  ASSUME RecInv, DoStep, NEW t \in Tasks, NEW w \in Workers,
         SettledBut(t, w), Monitoring(w), Ended(t, w)
  PROVE  Blank' /\ Handling'
  <1>1. Types /\ Blank /\ steps # <<>>
    BY DEF RecInv, DoStep
  <1>2. /\ current' = [current EXCEPT ![w] = NoTask] /\ session' = [session EXCEPT ![w] = NoTask]
        /\ steps' = Tail(steps) /\ UNCHANGED <<status, assignee, monitored>>
    BY <1>1, DoRelease DEF Ended
  <1>3. NeutralFrom(1)'
    BY <1>1, <1>2, NeutralTail DEF Ended
  <1>4. /\ current \in [Workers -> Tasks \cup {NoTask}] /\ monitored \subseteq Workers
        /\ session \in [Workers -> Tasks \cup {NoTask}]
    BY <1>1 DEF Types, Typed
  <1>5. status[t] \notin Running /\ current[w] = t /\ w \notin monitored
    BY Constants DEF Ended
  <1>6. \A u \in Tasks : TaskSettled(u)'
    BY <1>2, <1>4, <1>5 DEF SettledBut, TaskSettled
  <1>7. \A v \in Workers : WorkerSettled(v)'
    BY <1>2, <1>4, <1>5 DEF SettledBut, WorkerSettled
  <1>8. Blank'
    BY <1>1, <1>2, <1>4 DEF Blank
  <1>9. \A v \in monitored' : current'[v] # NoTask
    BY <1>2, <1>4, <1>5 DEF Monitoring
  <1>10. QED
    BY <1>3, <1>6, <1>7, <1>8, <1>9 DEF Handling, Settled

LEMMA DoStepStep ==
  ASSUME RecInv, DoStep
  PROVE  RecInv'
  <1>1. Types /\ steps # <<>>
    BY DEF RecInv, DoStep
  <1>2. mode \in {"loop", "stopping"} /\ mode' = mode
    BY <1>1 DEF Types, Typed, DoStep
  <1>3. Handling
    BY <1>2 DEF RecInv
  <1>4. Blank' /\ Handling'
    <2>1. CASE NeutralFrom(1) /\ Settled /\ \A v \in monitored : current[v] # NoTask
      BY <2>1, NeutralNext
    <2>2. ASSUME NEW t \in Tasks, NEW w \in Workers, SettledBut(t, w), Monitoring(w),
                 \/ Assigning(t, w) \/ Assigned(t, w)
                 \/ Logging(t, w) \/ Starting(t, w) \/ Started(t, w)
                 \/ Ending(t, w) \/ Ended(t, w)
          PROVE  Blank' /\ Handling'
      BY <2>2, AssigningNext, AssignedNext, LoggingNext, StartingNext, StartedNext, EndingNext,
         EndedNext
    <2>3. QED
      BY <1>3, <2>1, <2>2 DEF Handling
  <1>5. QED
    BY <1>2, <1>4, DoStepTypes, InLoop

-----------------------------------------------------------------------------
(* The process ends, and starts again *)

LEMMA ForgetTypes ==
  ASSUME Forget
  PROVE  /\ retries' \in [Tasks -> Nat] /\ handoffs' \in [Tasks -> Nat] /\ gaps' \in Nat
         /\ steps' = <<>> /\ steps' \in Seq(StepSet)
         /\ monitored' = {} /\ todo' = {} /\ live' = {} /\ reopens' = {}
  BY DEF Forget

LEMMA InterruptStep ==
  ASSUME RecInv, Interrupt
  PROVE  RecInv'
  <1>1. Types /\ Blank /\ Handling
    BY DEF RecInv, Interrupt
  <1>2. /\ UNCHANGED <<status, assignee, escalation, current, graph, session, sidecar, log,
                       retries, handoffs, gaps, monitored, steps, todo, live, reopens>>
        /\ mode' = "stopping"
    BY DEF Interrupt, ledger, outside, memory, resuming
  <1>3. Types'
    BY <1>1, <1>2 DEF Types, Typed, Mode
  <1>4. Blank'
    BY <1>1, <1>2 DEF Blank
  <1>5. Settled => Settled'
    BY <1>2, Frame
  <1>6. \A t \in Tasks, w \in Workers : SettledBut(t, w) => SettledBut(t, w)'
    BY <1>2, Frame
  <1>7. Handling'
    BY <1>1, <1>2, <1>5, <1>6
       DEF Handling, NeutralFrom, Monitoring, Has, Assigning, Assigned, Logging, Starting,
           Started, Ending, Ended
  <1>8. QED
    BY <1>2, <1>3, <1>4, <1>7, InLoop

LEMMA StopStep ==
  ASSUME RecInv, Stop
  PROVE  RecInv'
  <1>1. Types /\ Blank /\ Settled
    BY AtRest DEF RecInv, Stop, Free
  <1>2. Agree
    BY <1>1, SettledAgrees
  <1>3. /\ mode' = "down" /\ session' = [w \in Workers |-> NoTask] /\ Forget
        /\ UNCHANGED <<status, assignee, escalation, current, graph, sidecar, log>>
    BY DEF Stop, ledger
  <1>4. Types'
    BY <1>1, <1>3, ForgetTypes DEF Types, Typed, Mode
  <1>5. Blank' /\ Agree'
    BY <1>1, <1>2, <1>3 DEF Blank, Agree
  <1>6. QED
    BY <1>3, <1>4, <1>5, ForgetTypes DEF RecInv, Resetting

LEMMA CrashStep ==
  ASSUME RecInv, Crash
  PROVE  RecInv'
  <1>1. Types /\ Blank
    BY DEF RecInv
  <1>2. Agree
    <2>1. mode \in Mode \ {"down"}
      BY <1>1 DEF Crash, Types, Typed
    <2>2. CASE mode \in {"loop", "stopping"}
      BY <1>1, <2>2, HandlingAgrees DEF RecInv
    <2>3. CASE mode \in {"reopens", "replay", "seed"}
      BY <1>1, <2>3, SettledAgrees DEF RecInv
    <2>4. CASE mode \in {"reset", "kill", "recover", "workers"}
      BY <2>4 DEF RecInv, Resetting
    <2>5. QED
      BY <2>1, <2>2, <2>3, <2>4 DEF Mode
  <1>3. /\ mode' = "down" /\ Forget
        /\ UNCHANGED <<status, assignee, escalation, current, graph, session, sidecar, log>>
    BY DEF Crash, ledger, outside
  <1>4. Types'
    BY <1>1, <1>3, ForgetTypes DEF Types, Typed, Mode
  <1>5. Blank' /\ Agree'
    BY <1>1, <1>2, <1>3, Frame
  <1>6. QED
    BY <1>3, <1>4, <1>5, ForgetTypes DEF RecInv, Resetting

LEMMA RunStep ==
  ASSUME RecInv, Run
  PROVE  RecInv'
  <1>1. Types /\ Blank
    BY DEF RecInv
  <1>2. Settled
    BY DEF Run, Settled, TaskSettled, WorkerSettled
  <1>3. /\ mode = "down" /\ mode' = "seed"
        /\ UNCHANGED <<status, assignee, escalation, current, graph, session, sidecar, log,
                       retries, handoffs, gaps, monitored, steps, todo, live, reopens>>
    BY DEF Run, ledger, outside, memory, resuming
  <1>4. Types'
    BY <1>1, <1>3 DEF Types, Typed, Mode
  <1>5. Blank' /\ Settled'
    BY <1>1, <1>2, <1>3, Frame
  <1>6. QED
    BY <1>3, <1>4, <1>5 DEF RecInv, Resetting

LEMMA EmptyNeutral ==
  ASSUME steps' = <<>>
  PROVE  NeutralFrom(1)'
  <1>1. Len(steps') = 0
    OBVIOUS
  <1>2. QED
    BY <1>1 DEF NeutralFrom

LEMMA SeedStep ==
  ASSUME RecInv, Seed
  PROVE  RecInv'
  <1>1. Types /\ Blank /\ Settled
    BY DEF RecInv, Seed
  <1>2. /\ mode = "seed" /\ mode' = "loop"
        /\ UNCHANGED <<escalation, current, graph, session, sidecar, log,
                       retries, handoffs, gaps, monitored, steps, todo, live, reopens>>
    BY DEF Seed, outside, memory, resuming
  <1>3. steps = <<>> /\ monitored = {}
    BY <1>1, <1>2 DEF Types, Typed
  <1>4. status \in [Tasks -> Status] /\ assignee \in [Tasks -> Workers \cup {NoWorker}]
        /\ session \in [Workers -> Tasks \cup {NoTask}]
    BY <1>1 DEF Types, Typed
  <1>5. \/ /\ status[Planner] \notin Running
           /\ status' = [status EXCEPT ![Planner] = "open"]
           /\ assignee' = [assignee EXCEPT ![Planner] = NoWorker]
        \/ UNCHANGED <<status, assignee>>
    BY Constants DEF Seed, Running
  <1>6. Types'
    <2>1. status' \in [Tasks -> Status] /\ assignee' \in [Tasks -> Workers \cup {NoWorker}]
      BY <1>4, <1>5, Constants
    <2>2. QED
      BY <1>1, <1>2, <2>1 DEF Types, Typed, Mode
  <1>7. Blank'
    BY <1>1, <1>2, <1>4, <1>5, Numbers DEF Blank
  <1>8. \A t \in Tasks : TaskSettled(t)'
    BY <1>1, <1>2, <1>4, <1>5, Constants DEF Settled, TaskSettled
  <1>9. ASSUME NEW w \in Workers
        PROVE  WorkerSettled(w)'
    <2>1. WorkerSettled(w) /\ (current[w] # NoTask => status[current[w]] \in Running)
      BY <1>1, Constants DEF Settled, WorkerSettled
    <2>2. CASE UNCHANGED <<status, assignee>>
      BY <1>2, <2>1, <2>2 DEF WorkerSettled
    <2>3. CASE /\ status[Planner] \notin Running
               /\ status' = [status EXCEPT ![Planner] = "open"]
               /\ assignee' = [assignee EXCEPT ![Planner] = NoWorker]
      BY <1>2, <1>4, <2>1, <2>3 DEF WorkerSettled
    <2>4. QED
      BY <1>5, <2>2, <2>3
  <1>10. NeutralFrom(1)' /\ monitored' = {}
    BY <1>2, <1>3, EmptyNeutral
  <1>11. Handling'
    BY <1>8, <1>9, <1>10 DEF Handling, Settled
  <1>12. QED
    BY <1>2, <1>6, <1>7, <1>11, InLoop

-----------------------------------------------------------------------------
(* Reconcile *)

LEMMA ResumeStep ==
  ASSUME RecInv, Resume
  PROVE  RecInv'
  <1>1. Types /\ Blank /\ Agree /\ live = {}
    BY DEF RecInv, Resume
  <1>2. /\ mode = "down" /\ mode' = "reset"
        /\ todo' = {t \in Tasks : status[t] \in Running /\ assignee[t] # NoWorker}
        /\ UNCHANGED <<status, assignee, escalation, current, graph, session, sidecar, log,
                       retries, handoffs, gaps, monitored, steps, live, reopens>>
    BY DEF Resume, ledger, outside, memory
  <1>3. Types'
    BY <1>1, <1>2 DEF Types, Typed, Mode
  <1>4. Blank' /\ Agree'
    BY <1>1, <1>2, Frame
  <1>5. \A t \in Tasks : status[t] \in Running => assignee[t] # NoWorker
    BY <1>1, Numbers DEF Agree
  <1>6. Resetting'
    BY <1>1, <1>2, <1>4, <1>5 DEF Resetting
  <1>7. QED
    BY <1>2, <1>3, <1>4, <1>6 DEF RecInv

LEMMA ResetTaskStep ==
  ASSUME RecInv, ResetTask
  PROVE  RecInv'
  <1>1. /\ Types /\ Blank /\ Agree /\ mode = "reset"
        /\ \A t \in live : status[t] = "in_progress"
        /\ todo \cap live = {}
        /\ \A t \in todo : status[t] \in Running
        /\ \A t \in Tasks : status[t] \in Running => t \in todo \cup live
    BY DEF RecInv, ResetTask, Resetting
  <1>2. UNCHANGED <<escalation, current, graph, session, sidecar, log, retries, handoffs, gaps,
                    monitored, steps, reopens>>
    BY DEF ResetTask, outside, memory
  <1>3. status \in [Tasks -> Status] /\ assignee \in [Tasks -> Workers \cup {NoWorker}]
        /\ session \in [Workers -> Tasks \cup {NoTask}] /\ todo \subseteq Tasks /\ live \subseteq Tasks
    BY <1>1 DEF Types, Typed
  <1>4. CASE todo = {} /\ mode' = "kill" /\ UNCHANGED <<status, assignee, todo, live>>
    <2>1. Types'
      BY <1>1, <1>2, <1>4 DEF Types, Typed, Mode
    <2>2. Blank' /\ Agree'
      BY <1>1, <1>2, <1>4, Frame
    <2>3. Resetting'
      BY <1>1, <1>4, <2>2 DEF Resetting
    <2>4. QED
      BY <1>4, <2>1, <2>2, <2>3 DEF RecInv
  <1>5. ASSUME NEW t \in todo, todo' = todo \ {t}, Preserved(t), live' = live \cup {t},
               UNCHANGED <<status, assignee, mode>>
        PROVE  RecInv'
    <2>1. Types'
      BY <1>1, <1>2, <1>3, <1>5 DEF Types, Typed
    <2>2. Blank' /\ Agree'
      BY <1>1, <1>2, <1>5, Frame
    <2>3. Resetting'
      BY <1>1, <1>3, <1>5, <2>2 DEF Resetting, Preserved
    <2>4. QED
      BY <1>1, <1>5, <2>1, <2>2, <2>3 DEF RecInv
  <1>6. ASSUME NEW t \in todo, todo' = todo \ {t}, status' = [status EXCEPT ![t] = "open"],
               assignee' = [assignee EXCEPT ![t] = NoWorker], UNCHANGED <<live, mode>>
        PROVE  RecInv'
    <2>1. Types'
      <3>1. status' \in [Tasks -> Status] /\ assignee' \in [Tasks -> Workers \cup {NoWorker}]
        BY <1>3, <1>6, Constants
      <3>2. QED
        BY <1>1, <1>2, <1>6, <3>1 DEF Types, Typed
    <2>2. t \in Tasks /\ \A u \in Tasks : u # t => status'[u] = status[u] /\ assignee'[u] = assignee[u]
      BY <1>3, <1>6
    <2>3. status'[t] = "open" /\ assignee'[t] = NoWorker
      BY <1>3, <1>6
    <2>4. Blank'
      BY <1>1, <1>2, <1>3, <2>2, <2>3 DEF Blank
    <2>5. Agree'
      BY <1>1, <1>2, <2>2, <2>3, Constants DEF Agree
    <2>6. Resetting'
      BY <1>1, <1>3, <1>6, <2>2, <2>3, <2>5, Constants DEF Resetting
    <2>7. QED
      BY <1>1, <1>6, <2>1, <2>4, <2>6 DEF RecInv
  <1>7. QED
    BY <1>4, <1>5, <1>6 DEF ResetTask

LEMMA KillOrphansStep ==
  ASSUME RecInv, KillOrphans
  PROVE  RecInv'
  <1>1. Types /\ Blank /\ Agree /\ mode = "kill" /\ Resetting
    BY DEF RecInv, KillOrphans, Resetting
  <1>2. /\ mode' = "recover"
        /\ session' = [w \in Workers |->
             IF \E t \in Tasks : status[t] = "in_progress" /\ assignee[t] = w
             THEN session[w] ELSE NoTask]
        /\ UNCHANGED <<status, assignee, escalation, current, graph, sidecar, log,
                       retries, handoffs, gaps, monitored, steps, todo, live, reopens>>
    BY DEF KillOrphans, ledger, memory, resuming
  <1>3. session \in [Workers -> Tasks \cup {NoTask}]
    BY <1>1 DEF Types, Typed
  <1>4. \A w \in Workers : session'[w] # NoTask =>
          /\ session'[w] = session[w]
          /\ \E t \in Tasks : status[t] = "in_progress" /\ assignee[t] = w
    BY <1>2
  <1>5. session' \in [Workers -> Tasks \cup {NoTask}]
    BY <1>2, <1>3
  <1>6. Types'
    BY <1>1, <1>2, <1>5 DEF Types, Typed, Mode
  <1>7. Blank' /\ Agree'
    BY <1>1, <1>2, <1>4 DEF Blank, Agree
  <1>8. Resetting'
    BY <1>1, <1>2, <1>4, <1>7 DEF Resetting
  <1>9. QED
    BY <1>2, <1>6, <1>7, <1>8 DEF RecInv

LEMMA CountTyped ==
  ASSUME Types
  PROVE  /\ \A k, t : Count(k, t) \in Nat
         /\ RecoveredGaps \in Nat
  <1>1. IsFiniteSet(DOMAIN log)
    <2>1. Len(log) \in Nat /\ DOMAIN log = 1..Len(log)
      BY LenProperties DEF Types
    <2>2. QED
      BY <2>1, FS_Interval
  <1>2. \A S : S \subseteq DOMAIN log => Cardinality(S) \in Nat
    BY <1>1, FS_Subset, FS_CardinalityType
  <1>3. QED
    BY <1>2 DEF Count, RecoveredGaps

LEMMA RecoverStep ==
  ASSUME RecInv, Recover
  PROVE  RecInv'
  <1>1. Types /\ Blank /\ Agree /\ mode = "recover" /\ Resetting
    BY DEF RecInv, Recover, Resetting
  <1>2. /\ mode' = "workers"
        /\ retries' = [t \in Tasks |-> Count("task_retried", t)]
        /\ handoffs' = [t \in Tasks |-> Count("task_handoff", t)]
        /\ gaps' = RecoveredGaps /\ reopens' \subseteq Tasks
        /\ UNCHANGED <<status, assignee, escalation, current, graph, session, sidecar, log,
                       monitored, steps, todo, live>>
    BY DEF Recover, ledger, outside
  <1>3. retries' \in [Tasks -> Nat] /\ handoffs' \in [Tasks -> Nat] /\ gaps' \in Nat
    BY <1>1, <1>2, CountTyped
  <1>4. Types'
    BY <1>1, <1>2, <1>3 DEF Types, Typed, Mode
  <1>5. Blank' /\ Agree'
    BY <1>1, <1>2, Frame
  <1>6. Resetting'
    BY <1>1, <1>2, <1>5 DEF Resetting
  <1>7. QED
    BY <1>2, <1>4, <1>5, <1>6 DEF RecInv

LEMMA ResetWorkersStep ==
  ASSUME RecInv, ResetWorkers
  PROVE  RecInv'
  <1>1. /\ Types /\ Blank /\ Agree /\ mode = "workers"
        /\ \A t \in live : status[t] = "in_progress"
        /\ \A t \in Tasks : status[t] \in Running => t \in live
        /\ \A w \in Workers : session[w] # NoTask =>
             \E t \in Tasks : status[t] = "in_progress" /\ assignee[t] = w
    BY DEF RecInv, ResetWorkers, Resetting
  <1>2. /\ mode' = "reopens"
        /\ current' = [w \in Workers |-> IF current[w] \in live THEN current[w] ELSE NoTask]
        /\ UNCHANGED <<status, assignee, escalation, graph, session, sidecar, log,
                       retries, handoffs, gaps, monitored, steps, todo, live, reopens>>
    BY DEF ResetWorkers, outside, memory, resuming
  <1>3. /\ current \in [Workers -> Tasks \cup {NoTask}] /\ live \subseteq Tasks
        /\ session \in [Workers -> Tasks \cup {NoTask}]
    BY <1>1 DEF Types, Typed
  <1>4. Types'
    BY <1>1, <1>2, <1>3 DEF Types, Typed, Mode
  <1>5. Blank'
    BY <1>1, <1>2 DEF Blank
  <1>6. ASSUME NEW t \in Tasks
        PROVE  TaskSettled(t)'
    BY <1>1, <1>2 DEF TaskSettled, Agree
  <1>7. ASSUME NEW w \in Workers
        PROVE  WorkerSettled(w)'
    <2>1. current'[w] # NoTask => status[current'[w]] = "in_progress" /\ assignee[current'[w]] = w
      <3>1. SUFFICES ASSUME current[w] \in live
                     PROVE  status[current[w]] = "in_progress" /\ assignee[current[w]] = w
        BY <1>2
      <3>2. QED
        BY <1>1, <1>3, <3>1, Constants DEF Agree
    <2>2. session[w] # NoTask => current'[w] = session[w]
      <3>1. SUFFICES ASSUME session[w] # NoTask
                     PROVE  current'[w] = session[w]
        OBVIOUS
      <3>2. PICK t \in Tasks : status[t] = "in_progress" /\ assignee[t] = w
        BY <1>1, <3>1
      <3>3. session[w] = t /\ current[w] = t /\ t \in live
        BY <1>1, <3>1, <3>2, Constants DEF Agree
      <3>4. QED
        BY <1>2, <3>3
    <2>3. QED
      BY <1>2, <2>1, <2>2 DEF WorkerSettled
  <1>8. QED
    BY <1>2, <1>4, <1>5, <1>6, <1>7 DEF RecInv, Resetting, Settled

LEMMA ResolveReopenStep ==
  ASSUME RecInv, ResolveReopen
  PROVE  RecInv'
  <1>1. Types /\ Blank /\ Settled /\ mode = "reopens"
    BY DEF RecInv, ResolveReopen
  <1>2. /\ UNCHANGED <<status, assignee, escalation, current, graph, session, sidecar,
                       gaps, monitored, steps, todo, live>>
        /\ mode' \in {"reopens", "replay"}
    BY <1>1 DEF ResolveReopen, ledger, outside
  <1>3. /\ log' \in Seq(EventSet)
        /\ retries' \in [Tasks -> Nat] /\ handoffs' \in [Tasks -> Nat]
    <2>1. CASE UNCHANGED <<log, retries, handoffs>>
      BY <1>1, <2>1 DEF Types, Typed
    <2>2. ASSUME NEW t \in reopens, t \in Tasks, log' = Append(log, Event("escalation_resolved", t)),
                 retries' = [retries EXCEPT ![t] = 0], handoffs' = [handoffs EXCEPT ![t] = 0]
          PROVE  /\ log' \in Seq(EventSet)
                 /\ retries' \in [Tasks -> Nat] /\ handoffs' \in [Tasks -> Nat]
      <3>1. Event("escalation_resolved", t) \in EventSet
        BY <2>2, Constants DEF Event, EventSet
      <3>2. log' \in Seq(EventSet)
        BY <1>1, <2>2, <3>1, AppendProperties DEF Types
      <3>3. QED
        BY <1>1, <2>2, <3>2 DEF Types, Typed
    <2>3. reopens \subseteq Tasks
      BY <1>1 DEF Types
    <2>4. QED
      BY <2>1, <2>2, <2>3 DEF ResolveReopen
  <1>4. \A i \in DOMAIN log' : log'[i].task \in Tasks
    <2>1. \A i \in DOMAIN log' : log'[i] \in EventSet
      BY <1>3, ElementOfSeq, LenProperties
    <2>2. QED
      BY <2>1 DEF EventSet
  <1>5. reopens' \subseteq Tasks
    BY <1>1 DEF ResolveReopen, Types
  <1>6. Types'
    BY <1>1, <1>2, <1>3, <1>4, <1>5 DEF Types, Typed, Mode
  <1>7. Blank' /\ Settled'
    BY <1>1, <1>2, Frame
  <1>8. QED
    BY <1>2, <1>6, <1>7 DEF RecInv, Resetting

LEMMA ReplayStep ==
  ASSUME RecInv, Replay
  PROVE  RecInv'
  <1>1. Types /\ Blank /\ Settled /\ mode = "replay" /\ steps = <<>> /\ monitored = {}
    BY DEF RecInv, Replay, Types, Typed
  <1>2. /\ mode' = "loop" /\ todo' = {} /\ live' = {}
        /\ steps' = HookSteps \/ steps' = steps
        /\ UNCHANGED <<status, assignee, escalation, current, graph, session, sidecar, log,
                       retries, handoffs, gaps, monitored, reopens>>
    BY DEF Replay, ledger, outside
  <1>3. steps' \in Seq(StepSet) /\ NeutralFrom(1)'
    <2>1. CASE steps' = HookSteps
      BY <2>1, HookTrails DEF Trail, Trailing, NeutralFrom
    <2>2. CASE steps' = steps
      BY <1>1, <2>2, EmptyNeutral DEF Types
    <2>3. QED
      BY <1>2, <2>1, <2>2
  <1>4. Types'
    BY <1>1, <1>2, <1>3 DEF Types, Typed, Mode
  <1>5. Blank' /\ Settled'
    BY <1>1, <1>2, Frame
  <1>6. Handling'
    BY <1>1, <1>2, <1>3, <1>5 DEF Handling
  <1>7. QED
    BY <1>2, <1>4, <1>5, <1>6, InLoop

-----------------------------------------------------------------------------
(* Agents and humans *)

LEMMA AgentPlansStep ==
  ASSUME RecInv, NEW a \in Workers, AgentPlans(a)
  PROVE  RecInv'
  <1>1. Types /\ Blank
    BY DEF RecInv
  <1>2. /\ status' = [t \in Tasks |-> IF status[t] = "absent" THEN "open" ELSE status[t]]
        /\ graph' \in Graph
        /\ UNCHANGED <<assignee, escalation, current, session, sidecar, log, retries, handoffs,
                       gaps, monitored, mode, steps, todo, live, reopens>>
    BY DEF AgentPlans, Graph, outside, memory, resuming
  <1>3. /\ status' \in [Tasks -> Status]
        /\ \A t \in Tasks : status[t] # "absent" => status'[t] = status[t]
        /\ \A t \in Tasks : status[t] = "absent" => status'[t] = "open"
    BY <1>1, <1>2, Constants DEF Types, Typed
  <1>4. Types'
    BY <1>1, <1>2, <1>3 DEF Types, Typed
  <1>5. Blank'
    BY <1>1, <1>2, <1>3 DEF Blank, Types, Typed
  <1>6. \A t \in Tasks : status'[t] = status[t] \/ (status[t] \notin Running /\ status'[t] \notin Running)
    BY <1>3 DEF Running
  <1>7. /\ Settled => Settled'
        /\ \A t \in Tasks, w \in Workers : SettledBut(t, w) => SettledBut(t, w)'
        /\ Agree => Agree'
    BY <1>1, <1>2, <1>3, <1>6, OpenedSettled
  <1>8. Resetting => Resetting'
    <2>1. \A t \in Tasks : status[t] \in Running <=> status'[t] \in Running
      BY <1>6
    <2>2. \A t \in Tasks : status[t] = "in_progress" => status'[t] = "in_progress"
      BY <1>3
    <2>3. live \subseteq Tasks /\ todo \subseteq Tasks
      BY <1>1 DEF Types
    <2>4. QED
      BY <1>2, <1>7, <2>1, <2>2, <2>3 DEF Resetting
  <1>9. Handling => Handling'
    <2>1. ASSUME NEW t \in Tasks, NEW w \in Workers
          PROVE  /\ Monitoring(w) => Monitoring(w)'
                 /\ Assigning(t, w) => Assigning(t, w)'
                 /\ Assigned(t, w) => Assigned(t, w)'
                 /\ Logging(t, w) => Logging(t, w)'
                 /\ Starting(t, w) => Starting(t, w)'
                 /\ Started(t, w) => Started(t, w)'
                 /\ Ending(t, w) => Ending(t, w)'
                 /\ Ended(t, w) => Ended(t, w)'
      <3>1. Has(w, t) => Has(w, t)'
        BY <1>2, <1>3 DEF Has, Running
      <3>2. \A k : NeutralFrom(k) => NeutralFrom(k)'
        BY <1>2 DEF NeutralFrom
      <3>3. status[t] \in {"open", "assigned"} \cup Terminal => status'[t] = status[t]
        BY <1>3 DEF Terminal
      <3>4. QED
        BY <1>2, <3>1, <3>2, <3>3
           DEF Monitoring, Assigning, Assigned, Logging, Starting, Started, Ending, Ended
    <2>2. NeutralFrom(1) => NeutralFrom(1)'
      BY <1>2 DEF NeutralFrom
    <2>3. QED
      BY <1>2, <1>7, <2>1, <2>2 DEF Handling
  <1>10. QED
    BY <1>2, <1>4, <1>5, <1>7, <1>8, <1>9 DEF RecInv

LEMMA AgentEndsStep ==
  ASSUME RecInv, NEW a \in Workers, AgentEnds(a)
  PROVE  RecInv'
  <1>1. Types /\ Blank
    BY DEF RecInv
  <1>2. /\ session[a] # NoTask /\ session' = [session EXCEPT ![a] = NoTask]
        /\ UNCHANGED <<status, assignee, escalation, current, graph, log, retries, handoffs,
                       gaps, monitored, mode, steps, todo, live, reopens>>
    BY DEF AgentEnds, ledger, memory, resuming
  <1>3. /\ session \in [Workers -> Tasks \cup {NoTask}]
        /\ sidecar \in [Tasks -> Code \cup {"none"}]
    BY <1>1 DEF Types, Typed
  <1>4. /\ session' \in [Workers -> Tasks \cup {NoTask}]
        /\ \A w \in Workers : session'[w] = session[w] \/ session'[w] = NoTask
    BY <1>2, <1>3
  <1>5. sidecar' \in [Tasks -> Code \cup {"none"}]
    BY <1>2, <1>3 DEF AgentEnds
  <1>6. Types'
    BY <1>1, <1>2, <1>4, <1>5 DEF Types, Typed
  <1>7. Blank' /\ (Agree => Agree')
    BY <1>1, <1>2, <1>4 DEF Blank, Agree
  <1>8. /\ \A t \in Tasks : TaskSettled(t) => TaskSettled(t)'
        /\ \A w \in Workers : WorkerSettled(w) => WorkerSettled(w)'
    BY <1>2, <1>4 DEF TaskSettled, WorkerSettled
  <1>9. /\ Settled => Settled'
        /\ \A t \in Tasks, w \in Workers : SettledBut(t, w) => SettledBut(t, w)'
    BY <1>8 DEF Settled, SettledBut
  <1>10. Resetting => Resetting'
    BY <1>2, <1>4, <1>7 DEF Resetting
  <1>11. Handling => Handling'
    <2>1. ASSUME NEW t \in Tasks, NEW w \in Workers
          PROVE  /\ Monitoring(w) => Monitoring(w)'
                 /\ Assigning(t, w) => Assigning(t, w)'
                 /\ Assigned(t, w) => Assigned(t, w)'
                 /\ Logging(t, w) => Logging(t, w)'
                 /\ Starting(t, w) => Starting(t, w)'
                 /\ Started(t, w) => Started(t, w)'
                 /\ Ending(t, w) => Ending(t, w)'
                 /\ Ended(t, w) => Ended(t, w)'
      <3>1. Has(w, t) => Has(w, t)'
        BY <1>2 DEF Has
      <3>2. \A k : NeutralFrom(k) => NeutralFrom(k)'
        BY <1>2 DEF NeutralFrom
      <3>3. /\ session[w] = NoTask => session'[w] = NoTask
            /\ session[w] \in {t, NoTask} => session'[w] \in {t, NoTask}
        BY <1>4
      <3>4. QED
        BY <1>2, <3>1, <3>2, <3>3
           DEF Monitoring, Assigning, Assigned, Logging, Starting, Started, Ending, Ended
    <2>2. NeutralFrom(1) => NeutralFrom(1)'
      BY <1>2 DEF NeutralFrom
    <2>3. QED
      BY <1>2, <1>9, <2>1, <2>2 DEF Handling
  <1>12. QED
    BY <1>2, <1>6, <1>7, <1>9, <1>10, <1>11 DEF RecInv

LEMMA HumanReopensStep ==
  ASSUME RecInv, NEW t \in Tasks, HumanReopens(t)
  PROVE  RecInv'
  <1>1. Types /\ Blank /\ Agree /\ live = {} /\ mode = "down"
    BY DEF RecInv, HumanReopens
  <1>2. /\ status[t] \in Terminal
        /\ status' = [status EXCEPT ![t] = "open"]
        /\ assignee' = [assignee EXCEPT ![t] = NoWorker]
        /\ UNCHANGED <<escalation, current, graph, session, sidecar, log, retries, handoffs,
                       gaps, monitored, mode, steps, todo, live, reopens>>
    BY DEF HumanReopens, outside, memory, resuming, Terminal
  <1>3. status \in [Tasks -> Status] /\ assignee \in [Tasks -> Workers \cup {NoWorker}]
    BY <1>1 DEF Types, Typed
  <1>4. status' \in [Tasks -> Status] /\ assignee' \in [Tasks -> Workers \cup {NoWorker}]
    BY <1>2, <1>3, Constants
  <1>5. Types'
    BY <1>1, <1>2, <1>4 DEF Types, Typed
  <1>6. Blank' /\ Agree'
    <2>1. /\ status'[t] = "open" /\ assignee'[t] = NoWorker
          /\ \A u \in Tasks : u # t => status'[u] = status[u] /\ assignee'[u] = assignee[u]
      BY <1>2, <1>3
    <2>2. session \in [Workers -> Tasks \cup {NoTask}]
      BY <1>1 DEF Types, Typed
    <2>3. Blank'
      BY <1>1, <1>2, <2>1, <2>2 DEF Blank
    <2>4. Agree'
      BY <1>1, <1>2, <2>1, Constants DEF Agree
    <2>5. QED
      BY <2>3, <2>4
  <1>7. QED
    BY <1>1, <1>2, <1>5, <1>6 DEF RecInv, Resetting

LEMMA UnseenStep ==
  ASSUME RecInv, EditWorkOrder \/ UNCHANGED vars
  PROVE  RecInv'
  <1>1. UNCHANGED <<status, assignee, escalation, current, graph, session, sidecar, log, retries,
                    handoffs, gaps, monitored, mode, steps, todo, live, reopens>>
    BY DEF EditWorkOrder, vars, ledger, outside, memory, resuming
  <1>2. Types'
    BY <1>1 DEF RecInv, Types, Typed
  <1>3. Blank'
    BY <1>1, Frame DEF RecInv
  <1>4. /\ Settled => Settled'
        /\ Agree => Agree'
        /\ \A t \in Tasks, w \in Workers : SettledBut(t, w) => SettledBut(t, w)'
    BY <1>1, Frame
  <1>5. Resetting => Resetting'
    BY <1>1, <1>4 DEF Resetting
  <1>6. Handling => Handling'
    BY <1>1, <1>4
       DEF Handling, NeutralFrom, Monitoring, Has, Assigning, Assigned, Logging, Starting,
           Started, Ending, Ended
  <1>7. QED
    BY <1>1, <1>2, <1>3, <1>4, <1>5, <1>6 DEF RecInv

-----------------------------------------------------------------------------
(* The theorem *)

LEMMA RecInvInit == Init => RecInv
  <1>1. SUFFICES ASSUME Init PROVE RecInv
    OBVIOUS
  <1>2. Types
    BY <1>1 DEF Init, Types, Typed, Status, Graph, Mode
  <1>3. Blank
    BY <1>1 DEF Init, Blank
  <1>4. Agree
    BY <1>1 DEF Init, Agree, Running
  <1>5. QED
    BY <1>1, <1>2, <1>3, <1>4 DEF RecInv, Resetting, Init

LEMMA RecInvNext ==
  ASSUME RecInv, [Next]_vars, left = {}, strays \in Nat, strays' = strays
  PROVE  RecInv'
  <1>1. ~ProcessStray
    BY DEF ProcessStray
  <1>2. CASE EngineStep
    BY <1>1, <1>2, DispatchStep, SpawnFailsStep, ProcessOutcomeStep, ProcessKilledStep,
       WatchdogStep, OrphanCkStep, DoStepStep, InterruptStep, StopStep, RunStep, SeedStep, ResumeStep,
       ResetTaskStep, KillOrphansStep, RecoverStep, ResetWorkersStep, ResolveReopenStep,
       ReplayStep DEF EngineStep
  <1>3. CASE Crash
    BY <1>3, CrashStep
  <1>4. ASSUME NEW w \in Workers, AgentPlans(w) \/ AgentEnds(w) PROVE RecInv'
    BY <1>4, AgentPlansStep, AgentEndsStep
  <1>5. ASSUME NEW t \in Tasks, HumanReopens(t) PROVE RecInv'
    BY <1>5, HumanReopensStep
  <1>6. CASE EditWorkOrder \/ UNCHANGED vars
    BY <1>6, UnseenStep
  <1>7. QED
    BY <1>2, <1>3, <1>4, <1>5, <1>6 DEF Next, Over

\* What the faults are counted by, and that nobody is left behind uncounted.
Faults ==
  /\ strays \in Nat /\ spawnFailures \in Nat /\ trips \in Nat
  /\ strays = 0 => left = {}

LEMMA FaultsInit == Init => Faults
  BY DEF Init, Faults

\* Only the watchdog, its breaker and a failing spawn count a fault.
LEMMA FaultsNext ==
  ASSUME Faults, [Next]_vars
  PROVE  /\ Faults'
         /\ strays' = strays \/ strays' > strays
         /\ spawnFailures' >= spawnFailures
  <1>1. CASE Watchdog
    <2>1. UNCHANGED <<spawnFailures, trips>> /\ (NobodyLeft \/ strays' = strays + 1)
      BY <1>1 DEF Watchdog, LeavesBehind
    <2>2. QED
      BY <2>1 DEF Faults, NobodyLeft
  <1>2. CASE ProcessStray
    <2>1. UNCHANGED <<strays, spawnFailures, trips>> /\ left # {}
      BY <1>2 DEF ProcessStray, history, faults
    <2>2. QED
      BY <2>1 DEF Faults
  <1>3. CASE SpawnFails
    BY <1>3 DEF SpawnFails, Faults
  <1>4. CASE Stop \/ Crash
    BY <1>4 DEF Stop, Crash, Forget, faults, Faults
  <1>5. CASE UNCHANGED <<left, strays, spawnFailures, trips>>
    BY <1>5 DEF Faults
  <1>6. CASE \/ Dispatch \/ ProcessOutcome \/ ProcessKilled \/ DoStep \/ Interrupt
             \/ Run \/ Seed \/ Resume \/ ResetTask \/ KillOrphans \/ Recover \/ ResetWorkers
             \/ ResolveReopen \/ Replay
    <2>1. UNCHANGED <<left, strays, spawnFailures, trips>>
      BY <1>6 DEF Dispatch, ProcessOutcome, ProcessKilled, DoStep, Interrupt, Run, Seed, Resume,
                  ResetTask, KillOrphans, Recover, ResetWorkers, ResolveReopen, Replay, memory,
                  history, faults
    <2>2. QED
      BY <1>5, <2>1
  <1>7. CASE \/ \E w \in Workers : AgentPlans(w) \/ AgentEnds(w)
             \/ \E t \in Tasks : HumanReopens(t)
             \/ EditWorkOrder \/ Over \/ UNCHANGED vars
    <2>1. UNCHANGED <<left, strays, spawnFailures, trips>>
      BY <1>7 DEF AgentPlans, AgentEnds, HumanReopens, EditWorkOrder, Over, vars, memory,
                  history, faults
    <2>2. QED
      BY <1>5, <2>1
  <1>8. CASE OrphanCk
    <2>1. /\ UNCHANGED spawnFailures /\ trips' = trips + 1
          /\ NobodyLeft \/ strays' = strays + 1
      BY <1>8 DEF OrphanCk, LeavesBehind
    <2>2. QED
      BY <2>1 DEF Faults, NobodyLeft
  <1>9. QED
    BY <1>1, <1>2, <1>3, <1>4, <1>6, <1>7, <1>8 DEF Next, EngineStep

\* What holds as long as the watchdog has left nobody behind.
Calm == Faults /\ (strays = 0 => RecInv)

LEMMA CalmInit == Init => Calm
  BY RecInvInit, FaultsInit DEF Calm

LEMMA CalmNext == Calm /\ [Next]_vars => Calm'
  <1>1. SUFFICES ASSUME Calm, [Next]_vars, strays' = 0 PROVE RecInv'
    BY FaultsNext DEF Calm
  <1>2. strays = 0 /\ strays \in Nat /\ left = {} /\ RecInv
    BY <1>1, FaultsNext DEF Calm, Faults
  <1>3. QED
    BY <1>1, <1>2, RecInvNext

LEMMA InvReconciled == RecInv => Reconciled
  <1>1. SUFFICES ASSUME RecInv, mode \in {"reopens", "replay"} PROVE Reconciled
    BY DEF Reconciled
  <1>2. Settled /\ Blank
    BY <1>1 DEF RecInv
  <1>3. QED
    BY <1>2, Numbers DEF Reconciled, Settled, TaskSettled, WorkerSettled, Blank

\* BVV-ERR-07/08: wherever the previous process died - between any two durable writes of a
\* handler, or inside Reconcile itself - once Reconcile is through, tasks, workers and
\* sessions agree, for any number of tasks, workers, crashes, resumes, re-opens and failed
\* spawns, as long as the watchdog left no goroutine behind (Reconciled says so).
THEOREM ReconcileRestores == Spec => []Reconciled
  <1>1. Init => Calm
    BY CalmInit
  <1>2. Calm /\ [Next]_vars => Calm'
    BY CalmNext
  <1>3. Calm => Reconciled
    BY InvReconciled DEF Calm, Reconciled
  <1>4. QED
    BY <1>1, <1>2, <1>3, PTL DEF Spec

\* The variables of the engine, the ledger and the sessions keep their types, as long as the
\* watchdog left no goroutine behind.
THEOREM RecoveryTypeCorrect == Spec => [](strays = 0 => TypeOK)
  <1>1. Init => Calm
    BY CalmInit
  <1>2. Calm /\ [Next]_vars => Calm'
    BY CalmNext
  <1>3. Calm => (strays = 0 => TypeOK)
    BY DEF Calm, Faults, RecInv, Types, Typed, TypeOK
  <1>4. QED
    BY <1>1, <1>2, <1>3, PTL DEF Spec

\* A step by which nobody is left behind, of an engine that has left nobody behind.
CalmStep ==
  /\ [Next]_vars /\ left = {} /\ strays' = strays
  /\ strays \in Nat /\ spawnFailures \in Nat /\ trips \in Nat

-----------------------------------------------------------------------------
(* What the handlers write, in full *)

\* The task is given a session, again or for the first time.
Assigns(q, t, w) ==
  /\ Len(q) = 4
  /\ q[1] = TaskStep(t, "assigned", w) /\ q[2] = WorkerStep(w, t)
  /\ q[3] = SessionStep(w, t) /\ q[4] = TaskStep(t, "in_progress", w)
Restarts(q, t, w) ==
  /\ Len(q) = 3
  /\ \/ /\ q[1] = SessionStep(w, t) /\ q[2] = TaskStep(t, "in_progress", w)
        /\ q[3] = EmitStep("task_handoff", t)
     \/ /\ q[1] = EmitStep("task_handoff", t) /\ q[2] = SessionStep(w, t)
        /\ q[3] = TaskStep(t, "in_progress", w)

\* The task is given back, completes, or fails for good.
Retries(q, t, w) ==
  /\ Len(q) = 3
  /\ q[1] = TaskStep(t, "open", NoWorker) /\ q[2] = WorkerStep(w, NoTask)
  /\ q[3] = EmitStep("task_retried", t)
Completes(q, t, w) ==
  /\ q[1] = TaskStep(t, "completed", w) /\ q[2] = WorkerStep(w, NoTask)
  /\ q[3] = EmitStep("task_completed", t)
  /\ \/ t # Planner /\ Len(q) = 3
     \/ t = Planner /\ Len(q) = 4 /\ q[4] = EmitStep("graph_validated", Planner)
     \/ /\ t = Planner /\ Len(q) = 6
        /\ q[4] = EscalateStep /\ q[5] = EmitStep("graph_invalid", Planner) /\ q[6] = BlockStep
Fails(q, t, w) ==
  /\ \/ q[1] = TaskStep(t, "failed", w) /\ q[3] = EmitStep("task_failed", t)
     \/ q[1] = TaskStep(t, "blocked", w) /\ q[3] = EmitStep("task_blocked", t)
  /\ q[2] = WorkerStep(w, NoTask)
  /\ \/ t \in Critical /\ Len(q) = 4 /\ q[4] = BlockStep
     \/ t \notin Critical /\ Len(q) = 4 /\ q[4] = EmitStep("gap_recorded", t)
     \/ t \notin Critical /\ Len(q) = 5 /\ q[4] = EmitStep("gap_recorded", t) /\ q[5] = BlockStep

LEMMA TerminateFirst ==
  ASSUME NEW t \in Tasks, NEW w \in Workers, NEW s \in Terminal, NEW k \in TerminalKinds,
         NEW X \in Seq(StepSet), NEW q, q = Terminate(t, w, s, k) \o X
  PROVE  /\ Len(X) \in Nat /\ Len(q) = 3 + Len(X)
         /\ q[1] = TaskStep(t, s, w) /\ q[2] = WorkerStep(w, NoTask) /\ q[3] = EmitStep(k, t)
         /\ \A i \in 4..Len(q) : q[i] = X[i - 3]
  <1>1. /\ TaskStep(t, s, w) \in StepSet /\ WorkerStep(w, NoTask) \in StepSet
        /\ EmitStep(k, t) \in StepSet
    BY StepTypes, Constants
  <1>2. q = <<TaskStep(t, s, w), WorkerStep(w, NoTask), EmitStep(k, t)>> \o X
    BY DEF Terminate
  <1>3. QED
    BY <1>1, <1>2, ThreeThen

LEMMA CompletesIn ==
  ASSUME NEW t \in Tasks, NEW w \in Workers, HandleSuccess(t, w)
  PROVE  Completes(steps', t, w)
  <1> DEFINE X == IF t = Planner THEN HookSteps ELSE <<>>
  <1>1. X \in Seq(StepSet)
    BY HookTrails DEF Trail
  <1>2. steps' = Terminate(t, w, "completed", "task_completed") \o X
    BY DEF HandleSuccess
  <1>3. "completed" \in Terminal /\ "task_completed" \in TerminalKinds
    BY DEF Terminal, TerminalKinds
  <1> HIDE DEF X
  <1>4. /\ Len(X) \in Nat /\ Len(steps') = 3 + Len(X)
        /\ steps'[1] = TaskStep(t, "completed", w) /\ steps'[2] = WorkerStep(w, NoTask)
        /\ steps'[3] = EmitStep("task_completed", t)
        /\ \A i \in 4..Len(steps') : steps'[i] = X[i - 3]
    BY <1>1, <1>2, <1>3, TerminateFirst
  <1>5. CASE t # Planner
    <2>1. Len(X) = 0
      BY <1>5 DEF X
    <2>2. QED
      BY <1>4, <1>5, <2>1 DEF Completes
  <1>6. CASE t = Planner /\ graph = "valid"
    <2> DEFINE a == EmitStep("graph_validated", Planner)
    <2>1. X = <<a>>
      BY <1>6 DEF X, HookSteps
    <2> HIDE DEF a
    <2>2. Len(X) = 1 /\ X[1] = a
      BY <2>1
    <2>3. Len(steps') = 4 /\ steps'[4] = a
      <3>1. Len(steps') = 4
        BY <1>4, <2>2
      <3>2. 4 \in 4..Len(steps') /\ 4 - 3 = 1
        BY <3>1
      <3>3. QED
        BY <1>4, <2>2, <3>1, <3>2
    <2>4. QED
      BY <1>4, <1>6, <2>3 DEF Completes, a
  <1>7. CASE t = Planner /\ graph # "valid"
    <2> DEFINE a == EscalateStep  b == EmitStep("graph_invalid", Planner)  c == BlockStep
    <2>1. X = <<a, b, c>>
      BY <1>7 DEF X, HookSteps
    <2> HIDE DEF a, b, c
    <2>2. Len(X) = 3 /\ X[1] = a /\ X[2] = b /\ X[3] = c
      BY <2>1
    <2>3. Len(steps') = 6 /\ steps'[4] = a /\ steps'[5] = b /\ steps'[6] = c
      <3>1. Len(steps') = 6
        BY <1>4, <2>2
      <3>2. 4 \in 4..6 /\ 5 \in 4..6 /\ 6 \in 4..6 /\ 4 - 3 = 1 /\ 5 - 3 = 2 /\ 6 - 3 = 3
        OBVIOUS
      <3>3. QED
        BY <1>4, <2>2, <3>1, <3>2
    <2>4. QED
      BY <1>4, <1>7, <2>3 DEF Completes, a, b, c
  <1>8. QED
    BY <1>5, <1>6, <1>7

LEMMA TerminalFailureIn ==
  ASSUME NEW t \in Tasks, NEW w \in Workers, NEW s \in Terminal, NEW k \in TerminalKinds,
         TerminalFailure(t, w, s, k)
  PROVE  /\ steps'[1] = TaskStep(t, s, w) /\ steps'[2] = WorkerStep(w, NoTask)
         /\ steps'[3] = EmitStep(k, t)
         /\ \/ t \in Critical /\ Len(steps') = 4 /\ steps'[4] = BlockStep
            \/ t \notin Critical /\ Len(steps') = 4 /\ steps'[4] = EmitStep("gap_recorded", t)
            \/ /\ t \notin Critical /\ Len(steps') = 5
               /\ steps'[4] = EmitStep("gap_recorded", t) /\ steps'[5] = BlockStep
  <1> DEFINE X == IF t \in Critical THEN <<BlockStep>>
                  ELSE <<EmitStep("gap_recorded", t)>> \o (IF GapReached THEN <<BlockStep>> ELSE <<>>)
  <1>1. X \in Seq(StepSet)
    BY FailureTrails DEF Trail
  <1>2. steps' = Terminate(t, w, s, k) \o X
    BY DEF TerminalFailure
  <1> DEFINE a == EmitStep("gap_recorded", t)  b == BlockStep
  <1>3. /\ t \in Critical => X = <<b>>
        /\ t \notin Critical => X = <<a>> \o <<>> \/ X = <<a>> \o <<b>>
    OBVIOUS
  <1>4. a \in StepSet /\ b \in StepSet
    BY StepTypes, Constants
  <1> HIDE DEF X, a, b
  <1>5. /\ Len(X) \in Nat /\ Len(steps') = 3 + Len(X)
        /\ steps'[1] = TaskStep(t, s, w) /\ steps'[2] = WorkerStep(w, NoTask)
        /\ steps'[3] = EmitStep(k, t)
        /\ \A i \in 4..Len(steps') : steps'[i] = X[i - 3]
    <2>1. \A q : q = Terminate(t, w, s, k) \o X =>
            /\ Len(X) \in Nat /\ Len(q) = 3 + Len(X)
            /\ q[1] = TaskStep(t, s, w) /\ q[2] = WorkerStep(w, NoTask) /\ q[3] = EmitStep(k, t)
            /\ \A i \in 4..Len(q) : q[i] = X[i - 3]
      BY <1>1, TerminateFirst
    <2>2. QED
      BY <1>2, <2>1
  <1>6. 4 \in 4..4 /\ 4 \in 4..5 /\ 5 \in 4..5 /\ 4 - 3 = 1 /\ 5 - 3 = 2
    OBVIOUS
  <1>7. CASE t \in Critical
    <2>1. Len(X) = 1 /\ X[1] = b
      BY <1>3, <1>7
    <2>2. Len(steps') = 4
      BY <1>5, <2>1
    <2>3. steps'[4] = b
      BY <1>5, <1>6, <2>1, <2>2
    <2>4. QED
      BY <1>5, <1>7, <2>2, <2>3 DEF b
  <1>8. CASE t \notin Critical /\ X = <<a>> \o <<>>
    <2>1. <<a>> \in Seq(StepSet)
      BY <1>4
    <2>2. X = <<a>>
      BY <1>8, <2>1, ConcatEmptySeq
    <2>3. Len(X) = 1 /\ X[1] = a
      BY <2>2
    <2>4. Len(steps') = 4
      BY <1>5, <2>3
    <2>5. steps'[4] = a
      BY <1>5, <1>6, <2>3, <2>4
    <2>6. QED
      BY <1>5, <1>8, <2>4, <2>5 DEF a
  <1>9. CASE t \notin Critical /\ X = <<a>> \o <<b>>
    <2>1. Len(X) = 2 /\ X[1] = a /\ X[2] = b
      BY <1>4, <1>9, Pair
    <2>2. Len(steps') = 5
      BY <1>5, <2>1
    <2>3. steps'[4] = a /\ steps'[5] = b
      BY <1>5, <1>6, <2>1, <2>2
    <2>4. QED
      BY <1>5, <1>9, <2>2, <2>3 DEF a, b
  <1>10. QED
    BY <1>3, <1>7, <1>8, <1>9

LEMMA FailsIn ==
  ASSUME NEW t \in Tasks, NEW w \in Workers,
         \/ TerminalFailure(t, w, "failed", "task_failed")
         \/ TerminalFailure(t, w, "blocked", "task_blocked")
  PROVE  Fails(steps', t, w)
  <1>1. /\ "failed" \in Terminal /\ "blocked" \in Terminal
        /\ "task_failed" \in TerminalKinds /\ "task_blocked" \in TerminalKinds
    BY DEF Terminal, TerminalKinds
  <1>2. CASE TerminalFailure(t, w, "failed", "task_failed")
    BY <1>1, <1>2, TerminalFailureIn DEF Fails
  <1>3. CASE TerminalFailure(t, w, "blocked", "task_blocked")
    BY <1>1, <1>3, TerminalFailureIn DEF Fails
  <1>4. QED
    BY <1>2, <1>3

LEMMA RetriesIn ==
  ASSUME NEW t \in Tasks, NEW w \in Workers,
         steps' = <<TaskStep(t, "open", NoWorker), WorkerStep(w, NoTask), EmitStep("task_retried", t)>>
  PROVE  Retries(steps', t, w)
  <1> DEFINE a == TaskStep(t, "open", NoWorker)  b == WorkerStep(w, NoTask)
             c == EmitStep("task_retried", t)
  <1>1. steps' = <<a, b, c>>
    OBVIOUS
  <1> HIDE DEF a, b, c
  <1>2. Len(steps') = 3 /\ steps'[1] = a /\ steps'[2] = b /\ steps'[3] = c
    BY <1>1
  <1>3. QED
    BY <1>2 DEF Retries, a, b, c

\* A handler begins with nothing written yet; the counters are ahead of the log.
OneMore(f, t) == [f EXCEPT ![t] = @ + 1]
Begins(t, w) ==
  /\ steps = <<>> /\ mode \in {"loop", "stopping"}
  /\ UNCHANGED <<status, orderHash, order, log, mode, reopens, seen, checked, launched, downs, runs,
                 humanReopens>>
  /\ \A v \in Workers : session'[v] \in {session[v], NoTask}
  /\ \/ Assigns(steps', t, w) /\ status[t] = "open" /\ UNCHANGED <<retries, handoffs, gaps>>
     \/ /\ status[t] \in Running
        /\ \/ /\ Restarts(steps', t, w) /\ UNCHANGED <<retries, gaps>>
              /\ handoffs[t] < MaxHandoffs /\ handoffs' = OneMore(handoffs, t)
           \/ /\ Retries(steps', t, w) /\ UNCHANGED gaps
              /\ retries[t] < MaxRetries /\ retries' = OneMore(retries, t)
              /\ handoffs' \in {handoffs, OneMore(handoffs, t)}
           \/ /\ Completes(steps', t, w) /\ UNCHANGED <<retries, handoffs, gaps>>
           \/ /\ Fails(steps', t, w) /\ UNCHANGED retries
              /\ handoffs' \in {handoffs, OneMore(handoffs, t)}
              /\ gaps' = IF t \in Critical THEN gaps ELSE gaps + 1

LEMMA FailureBegins ==
  ASSUME NEW t \in Tasks, NEW w \in Workers, HandleFailure(t, w)
  PROVE  \/ /\ Retries(steps', t, w) /\ UNCHANGED gaps
            /\ retries[t] < MaxRetries /\ retries' = OneMore(retries, t)
         \/ /\ Fails(steps', t, w) /\ UNCHANGED retries
            /\ gaps' = IF t \in Critical THEN gaps ELSE gaps + 1
  <1>1. CASE retries[t] < MaxRetries
    BY <1>1, RetriesIn DEF HandleFailure, OneMore
  <1>2. CASE ~(retries[t] < MaxRetries)
    <2>1. TerminalFailure(t, w, "failed", "task_failed") /\ UNCHANGED retries
      BY <1>2 DEF HandleFailure
    <2>2. gaps' = IF t \in Critical THEN gaps ELSE gaps + 1
      BY <2>1 DEF TerminalFailure
    <2>3. QED
      BY <2>1, <2>2, FailsIn
  <1>3. QED
    BY <1>1, <1>2

LEMMA DispatchBegins ==
  ASSUME RecInv, Dispatch
  PROVE  \E t \in Tasks, w \in Workers : Begins(t, w)
  <1>1. PICK t \in Tasks, w \in Workers :
          /\ Ready(t)
          /\ steps' = <<TaskStep(t, "assigned", w), WorkerStep(w, t),
                        SessionStep(w, t), TaskStep(t, "in_progress", w)>>
    BY DEF Dispatch
  <1> DEFINE a == TaskStep(t, "assigned", w)  b == WorkerStep(w, t)
             c == SessionStep(w, t)  d == TaskStep(t, "in_progress", w)
  <1>2. steps' = <<a, b, c, d>>
    BY <1>1
  <1> HIDE DEF a, b, c, d
  <1>3. Len(steps') = 4 /\ steps'[1] = a /\ steps'[2] = b /\ steps'[3] = c /\ steps'[4] = d
    BY <1>2
  <1>4. Assigns(steps', t, w)
    BY <1>3 DEF Assigns, a, b, c, d
  <1>5. Begins(t, w)
    BY <1>1, <1>4 DEF Begins, Ready, Dispatch, ledger, outside, resuming, history
  <1>6. QED
    BY <1>5

LEMMA RestartsIn ==
  ASSUME NEW t, NEW w,
         \/ steps' = <<SessionStep(w, t), TaskStep(t, "in_progress", w), EmitStep("task_handoff", t)>>
         \/ steps' = <<EmitStep("task_handoff", t), SessionStep(w, t), TaskStep(t, "in_progress", w)>>
  PROVE  Restarts(steps', t, w)
  <1> DEFINE c == SessionStep(w, t)  d == TaskStep(t, "in_progress", w)
             e == EmitStep("task_handoff", t)
  <1>1. steps' = <<c, d, e>> \/ steps' = <<e, c, d>>
    OBVIOUS
  <1> HIDE DEF c, d, e
  <1>2. /\ Len(steps') = 3
        /\ \/ steps'[1] = c /\ steps'[2] = d /\ steps'[3] = e
           \/ steps'[1] = e /\ steps'[2] = c /\ steps'[3] = d
    BY <1>1
  <1>3. QED
    BY <1>2 DEF Restarts, c, d, e

LEMMA ProcessOutcomeBegins ==
  ASSUME RecInv, ProcessOutcome
  PROVE  \E t \in Tasks, w \in Workers : Begins(t, w)
  <1>1. PICK w \in monitored :
          \/ HandleSuccess(current[w], w) /\ UNCHANGED handoffs
          \/ HandleFailure(current[w], w) /\ UNCHANGED handoffs
          \/ /\ TerminalFailure(current[w], w, "blocked", "task_blocked")
             /\ UNCHANGED <<retries, handoffs>>
          \/ HandleHandoff(current[w], w)
    BY DEF ProcessOutcome, HandleOutcome
  <1>2. Types /\ mode \in {"loop", "stopping"} /\ steps = <<>> /\ Handling
    BY DEF RecInv, ProcessOutcome, Free
  <1>3. w \in Workers /\ current[w] # NoTask
    BY <1>2, AtRest DEF Types, Typed
  <1>4. PICK t \in Tasks : t = current[w]
    BY <1>2, <1>3 DEF Types, Typed
  <1>5. status[t] \in Running
    BY <1>2, <1>3, <1>4, Busy DEF Has
  <1>6. /\ UNCHANGED <<status, orderHash, order, log, mode, reopens, seen, checked, launched, downs,
                       runs, humanReopens>>
        /\ \A v \in Workers : session'[v] \in {session[v], NoTask}
    BY DEF ProcessOutcome, ledger, outside, resuming, history
  <1>7. CASE HandleSuccess(t, w) /\ UNCHANGED handoffs
    <2>1. Completes(steps', t, w) /\ UNCHANGED <<retries, gaps>>
      BY <1>3, <1>7, CompletesIn DEF HandleSuccess
    <2>2. QED
      BY <1>2, <1>3, <1>5, <1>6, <1>7, <2>1 DEF Begins
  <1>8. CASE HandleFailure(t, w) /\ handoffs' \in {handoffs, OneMore(handoffs, t)}
    BY <1>2, <1>3, <1>5, <1>6, <1>8, FailureBegins DEF Begins
  <1>9. CASE /\ TerminalFailure(t, w, "blocked", "task_blocked")
             /\ UNCHANGED <<retries, handoffs>>
    <2>1. Fails(steps', t, w) /\ gaps' = IF t \in Critical THEN gaps ELSE gaps + 1
      BY <1>3, <1>9, FailsIn DEF TerminalFailure
    <2>2. QED
      BY <1>2, <1>3, <1>5, <1>6, <1>9, <2>1 DEF Begins
  <1>10. CASE HandleHandoff(t, w)
    <2>1. \/ HandleFailure(t, w) /\ handoffs' \in {handoffs, OneMore(handoffs, t)}
          \/ /\ handoffs[t] < MaxHandoffs /\ handoffs' = OneMore(handoffs, t)
             /\ steps' = <<SessionStep(w, t), TaskStep(t, "in_progress", w), EmitStep("task_handoff", t)>>
             /\ UNCHANGED <<retries, gaps>>
      BY <1>10 DEF HandleHandoff, OneMore
    <2>2. CASE /\ handoffs[t] < MaxHandoffs /\ handoffs' = OneMore(handoffs, t)
               /\ steps' = <<SessionStep(w, t), TaskStep(t, "in_progress", w), EmitStep("task_handoff", t)>>
               /\ UNCHANGED <<retries, gaps>>
      <3>1. Restarts(steps', t, w)
        BY <2>2, RestartsIn
      <3>2. QED
        BY <1>2, <1>3, <1>5, <1>6, <2>2, <3>1 DEF Begins
    <2>3. QED
      BY <1>8, <2>1, <2>2
  <1>11. QED
    BY <1>1, <1>4, <1>7, <1>8, <1>9, <1>10

LEMMA ProcessKilledBegins ==
  ASSUME RecInv, ProcessKilled
  PROVE  \E t \in Tasks, w \in Workers : Begins(t, w)
  <1>1. PICK w \in monitored :
          session' = [session EXCEPT ![w] = NoTask] /\ HandleFailure(current[w], w)
    BY DEF ProcessKilled
  <1>2. Types /\ mode \in {"loop", "stopping"} /\ steps = <<>> /\ Handling
    BY DEF RecInv, ProcessKilled, Free
  <1>3. w \in Workers /\ current[w] # NoTask
    BY <1>2, AtRest DEF Types, Typed
  <1>4. PICK t \in Tasks : t = current[w]
    BY <1>2, <1>3 DEF Types, Typed
  <1>5. status[t] \in Running
    BY <1>2, <1>3, <1>4, Busy DEF Has
  <1>6. \A v \in Workers : session'[v] \in {session[v], NoTask}
    BY <1>1, <1>2 DEF Types, Typed
  <1>7. UNCHANGED <<status, orderHash, order, log, mode, reopens, seen, checked, launched, downs,
                    runs, humanReopens, handoffs>>
    BY DEF ProcessKilled, ledger, resuming, history
  <1>8. Begins(t, w)
    BY <1>1, <1>2, <1>3, <1>4, <1>5, <1>6, <1>7, FailureBegins DEF Begins
  <1>9. QED
    BY <1>3, <1>8

LEMMA WatchdogBegins ==
  ASSUME RecInv, Watchdog
  PROVE  \E t \in Tasks, w \in Workers : Begins(t, w)
  <1>1. PICK w \in Workers :
          /\ current[w] # NoTask
          /\ \/ /\ handoffs[current[w]] < MaxHandoffs
                /\ handoffs' = [handoffs EXCEPT ![current[w]] = @ + 1]
                /\ steps' = <<EmitStep("task_handoff", current[w]), SessionStep(w, current[w]),
                              TaskStep(current[w], "in_progress", assignee[current[w]])>>
                /\ UNCHANGED <<gaps, aborted>>
             \/ TerminalFailure(current[w], w, "failed", "task_failed") /\ UNCHANGED handoffs
    BY DEF Watchdog
  <1>2. Types /\ mode = "loop" /\ steps = <<>>
    BY DEF RecInv, Watchdog
  <1>3. PICK t \in Tasks : t = current[w]
    BY <1>1, <1>2 DEF Types, Typed
  <1>4. assignee[t] = w /\ status[t] \in Running
    BY <1>1, <1>2, <1>3, Busy DEF Has
  <1>5. /\ UNCHANGED <<status, orderHash, order, log, mode, reopens, seen, checked, launched, downs,
                       runs, humanReopens, retries>>
        /\ \A v \in Workers : session'[v] \in {session[v], NoTask}
    BY DEF Watchdog, ledger, outside, resuming
  <1>6. CASE /\ handoffs[t] < MaxHandoffs /\ handoffs' = OneMore(handoffs, t)
             /\ steps' = <<EmitStep("task_handoff", t), SessionStep(w, t), TaskStep(t, "in_progress", w)>>
             /\ UNCHANGED gaps
    <2>1. Restarts(steps', t, w)
      BY <1>6, RestartsIn
    <2>2. QED
      BY <1>2, <1>4, <1>5, <1>6, <2>1 DEF Begins
  <1>7. CASE TerminalFailure(t, w, "failed", "task_failed") /\ UNCHANGED handoffs
    <2>1. Fails(steps', t, w) /\ gaps' = IF t \in Critical THEN gaps ELSE gaps + 1
      BY <1>7, FailsIn DEF TerminalFailure
    <2>2. QED
      BY <1>2, <1>4, <1>5, <1>7, <2>1 DEF Begins
  <1>8. QED
    BY <1>1, <1>3, <1>4, <1>6, <1>7 DEF OneMore

LEMMA OrphanCkBegins ==
  ASSUME RecInv, OrphanCk
  PROVE  \E t \in Tasks, w \in Workers : Begins(t, w)
  <1>1. PICK w \in Workers :
          current[w] # NoTask /\ TerminalFailure(current[w], w, "failed", "task_failed")
    BY DEF OrphanCk
  <1>2. Types /\ mode = "loop" /\ steps = <<>>
    BY DEF RecInv, OrphanCk
  <1>3. PICK t \in Tasks : t = current[w]
    BY <1>1, <1>2 DEF Types, Typed
  <1>4. assignee[t] = w /\ status[t] \in Running
    BY <1>1, <1>2, <1>3, Busy DEF Has
  <1>5. /\ UNCHANGED <<status, orderHash, order, log, mode, reopens, seen, checked, launched, downs,
                       runs, humanReopens, retries, handoffs>>
        /\ \A v \in Workers : session'[v] \in {session[v], NoTask}
    BY DEF OrphanCk, ledger, outside, resuming
  <1>6. Fails(steps', t, w) /\ gaps' = IF t \in Critical THEN gaps ELSE gaps + 1
    BY <1>1, <1>3, FailsIn DEF TerminalFailure
  <1>7. QED
    BY <1>2, <1>4, <1>5, <1>6 DEF Begins

-----------------------------------------------------------------------------
(* What a durable write does *)

Shifts ==
  /\ Len(steps) \in Nat \ {0} /\ Len(steps') = Len(steps) - 1
  /\ \A i \in 1..Len(steps') : steps'[i] = steps[i + 1]
  /\ steps' # <<>> <=> Len(steps') # 0

\* How a handler moves its task.
Moves(t, s) ==
  \/ status[t] = "open" /\ s = "assigned" /\ \E w \in Workers : Assigning(t, w)
  \/ status[t] \in Running /\ s \in {"in_progress"} \cup Terminal
  \/ status[t] \in Running /\ s = "open" /\ steps[1] = TaskStep(t, "open", NoWorker)

WritesTask(t, s) ==
  /\ steps[1].op = "task" /\ steps[1].task = t /\ steps[1].arg = s /\ Moves(t, s)
  /\ status' = [status EXCEPT ![t] = s] /\ Shifts
  /\ UNCHANGED <<log, launched, checked, session>>
WritesOther ==
  /\ steps[1].op \in {"worker", "escalate"} /\ Shifts
  /\ \A v \in Workers : session'[v] \in {session[v], NoTask}
  /\ UNCHANGED <<status, log, launched, checked>>
WritesSession(w, t) ==
  /\ steps[1].op = "session" /\ steps[1].task = t /\ status[t] \in Running /\ Shifts
  /\ launched' = OneMore(launched, t) /\ session' = [session EXCEPT ![w] = t]
  /\ UNCHANGED <<status, log, checked>>
WritesEvent(k, t) ==
  /\ steps[1] = EmitStep(k, t) /\ Shifts
  /\ log' = Append(log, Event(k, t))
  /\ checked' = (checked \/ k \in GraphKinds)
  /\ UNCHANGED <<status, launched, session>>
Blocks ==
  /\ steps[1].op = "block" /\ UNCHANGED <<log, launched, checked, session>>
  /\ \/ \E t \in Tasks : status[t] = "open" /\ status' = [status EXCEPT ![t] = "blocked"]
                           /\ UNCHANGED steps
     \/ UNCHANGED status /\ (UNCHANGED steps \/ Shifts)

LEMMA TailShifts ==
  ASSUME Types, steps # <<>>, steps' = Tail(steps)
  PROVE  Shifts
  <1>1. /\ Len(steps) \in Nat \ {0} /\ Len(steps') = Len(steps) - 1 /\ steps' \in Seq(StepSet)
        /\ \A i \in 1..Len(steps) - 1 : steps'[i] = steps[i + 1]
    BY TailFacts
  <1>2. steps' # <<>> <=> Len(steps') # 0
    BY <1>1, EmptySeq
  <1>3. QED
    BY <1>1, <1>2 DEF Shifts

LEMMA HeadMoves ==
  ASSUME RecInv, DoStep, steps[1].op = "task"
  PROVE  Moves(steps[1].task, steps[1].arg)
  <1>1. Types /\ steps # <<>>
    BY DEF RecInv, DoStep
  <1>2. Handling
    BY <1>1 DEF RecInv, Types, Typed
  <1>3. Len(steps) \in Nat \ {0}
    BY <1>1, TailFacts
  <1>4. ~Neutral(steps[1])
    BY DEF Neutral
  <1>5. ~NeutralFrom(1)
    BY <1>3, <1>4 DEF NeutralFrom
  <1>6. PICK t \in Tasks, w \in Workers :
          \/ Assigning(t, w) \/ Assigned(t, w)
          \/ Logging(t, w) \/ Starting(t, w) \/ Started(t, w)
          \/ Ending(t, w) \/ Ended(t, w)
    BY <1>2, <1>5 DEF Handling
  <1>7. /\ \A x, y : WorkerStep(x, y).op # "task"
        /\ \A x, y : SessionStep(x, y).op # "task"
    BY DEF WorkerStep, SessionStep
  <1>8. Assigning(t, w) \/ Started(t, w) \/ Ending(t, w)
    BY <1>4, <1>6, <1>7 DEF Assigned, Logging, Starting, Ended
  <1>9. /\ \A x, y : TaskStep(t, x, y).task = t
        /\ \A x, y : TaskStep(t, x, y).arg = x
    BY DEF TaskStep
  <1>10. CASE Assigning(t, w)
    <2>1. steps[1].task = t /\ steps[1].arg = "assigned" /\ status[t] = "open"
      BY <1>9, <1>10 DEF Assigning
    <2>2. QED
      BY <1>10, <2>1 DEF Moves
  <1>11. CASE Started(t, w)
    <2>1. steps[1].task = t /\ steps[1].arg = "in_progress" /\ status[t] \in Running
      BY <1>9, <1>11 DEF Started, Has
    <2>2. QED
      BY <2>1 DEF Moves
  <1>12. CASE Ending(t, w)
    <2>1. status[t] \in Running
      BY <1>12 DEF Ending, Has
    <2>2. PICK s \in Terminal :
            steps[1] = TaskStep(t, s, w) \/ steps[1] = TaskStep(t, "open", NoWorker)
      BY <1>12 DEF Ending
    <2>3. QED
      BY <1>9, <2>1, <2>2 DEF Moves
  <1>13. QED
    BY <1>8, <1>10, <1>11, <1>12

LEMMA HeadSession ==
  ASSUME RecInv, DoStep, steps[1].op = "session"
  PROVE  status[steps[1].task] \in Running
  <1>1. Types /\ steps # <<>>
    BY DEF RecInv, DoStep
  <1>2. Handling
    BY <1>1 DEF RecInv, Types, Typed
  <1>3. Len(steps) \in Nat \ {0}
    BY <1>1, TailFacts
  <1>4. ~Neutral(steps[1])
    BY DEF Neutral
  <1>5. ~NeutralFrom(1)
    BY <1>3, <1>4 DEF NeutralFrom
  <1>6. PICK t \in Tasks, w \in Workers :
          \/ Assigning(t, w) \/ Assigned(t, w)
          \/ Logging(t, w) \/ Starting(t, w) \/ Started(t, w)
          \/ Ending(t, w) \/ Ended(t, w)
    BY <1>2, <1>5 DEF Handling
  <1>7. /\ \A x, y : WorkerStep(x, y).op # "session"
        /\ \A x, y, z : TaskStep(x, y, z).op # "session"
    BY DEF WorkerStep, TaskStep
  <1>8. Starting(t, w)
    BY <1>4, <1>6, <1>7 DEF Assigning, Assigned, Logging, Started, Ending, Ended
  <1>9. steps[1].task = t
    BY <1>8 DEF Starting, SessionStep
  <1>10. QED
    BY <1>8, <1>9 DEF Starting, Has

Writes ==
  \/ \E t \in Tasks, s \in Status : WritesTask(t, s)
  \/ WritesOther
  \/ \E w \in Workers, t \in Tasks : WritesSession(w, t)
  \/ \E k \in Kinds, t \in Tasks : WritesEvent(k, t)
  \/ Blocks

LEMMA DoWrites ==
  ASSUME RecInv, DoStep
  PROVE  /\ Writes
         /\ steps # <<>> /\ mode \in {"loop", "stopping"}
         /\ UNCHANGED <<orderHash, order, retries, handoffs, gaps, mode, reopens, seen, downs, runs,
                        humanReopens>>
  <1>1. Types /\ steps # <<>>
    BY DEF RecInv, DoStep
  <1>2. Head(steps) = steps[1] /\ steps[1] \in StepSet
    BY <1>1, TailFacts
  <1>3. /\ mode \in {"loop", "stopping"}
        /\ UNCHANGED <<orderHash, order, retries, handoffs, gaps, mode, reopens, seen, downs, runs,
                       humanReopens>>
    BY <1>1 DEF DoStep, memory, resuming, Types, Typed
  <1> DEFINE h == steps[1]
  <1>4. /\ h.op \in {"task", "session", "emit"} => h.task \in Tasks
        /\ h.op \in {"worker", "session"} => h.worker \in Workers
        /\ h.op = "task" => h.arg \in Status
        /\ h.op = "emit" => h.arg \in Kinds
        /\ h.op \in {"task", "worker", "session", "emit", "escalate", "block"}
    BY <1>2 DEF StepSet
  <1>5. CASE h.op = "task"
    <2>1. /\ status' = [status EXCEPT ![h.task] = h.arg] /\ steps' = Tail(steps)
          /\ UNCHANGED <<log, launched, checked, session>>
      BY <1>2, <1>5 DEF DoStep
    <2>2. Shifts /\ Moves(h.task, h.arg)
      BY <1>1, <1>5, <2>1, TailShifts, HeadMoves
    <2>3. WritesTask(h.task, h.arg)
      BY <1>5, <2>1, <2>2 DEF WritesTask
    <2>4. QED
      BY <1>1, <1>3, <1>4, <1>5, <2>3 DEF Writes
  <1>6. CASE h.op \in {"worker", "escalate"}
    <2>1. /\ steps' = Tail(steps) /\ UNCHANGED <<status, log, launched, checked>>
          /\ session' \in {session, [session EXCEPT ![h.worker] = NoTask]}
          /\ h.op = "escalate" => UNCHANGED session
      BY <1>2, <1>6 DEF DoStep
    <2>2. \A v \in Workers : session'[v] \in {session[v], NoTask}
      BY <1>1, <2>1 DEF Types, Typed
    <2>3. WritesOther
      BY <1>1, <1>6, <2>1, <2>2, TailShifts DEF WritesOther
    <2>4. QED
      BY <1>1, <1>3, <2>3 DEF Writes
  <1>7. CASE h.op = "session"
    <2>1. /\ steps' = Tail(steps) /\ launched' = OneMore(launched, h.task)
          /\ session' = [session EXCEPT ![h.worker] = h.task] /\ UNCHANGED <<status, log, checked>>
      BY <1>2, <1>7 DEF DoStep, OneMore
    <2>2. Shifts /\ status[h.task] \in Running
      BY <1>1, <1>7, <2>1, TailShifts, HeadSession
    <2>3. WritesSession(h.worker, h.task)
      BY <1>7, <2>1, <2>2 DEF WritesSession
    <2>4. QED
      BY <1>1, <1>3, <1>4, <1>7, <2>3 DEF Writes
  <1>8. CASE h.op = "emit"
    <2>1. /\ steps' = Tail(steps) /\ log' = Append(log, Event(h.arg, h.task))
          /\ checked' = (checked \/ h.arg \in GraphKinds) /\ UNCHANGED <<status, launched, session>>
      BY <1>2, <1>8 DEF DoStep, GraphKinds
    <2>2. Shifts
      BY <1>1, <2>1, TailShifts
    <2>3. h = EmitStep(h.arg, h.task)
      BY <1>2, <1>8 DEF StepSet, EmitStep
    <2>4. WritesEvent(h.arg, h.task)
      BY <2>1, <2>2, <2>3 DEF WritesEvent
    <2>5. QED
      BY <1>1, <1>3, <1>4, <1>8, <2>4 DEF Writes
  <1>9. CASE h.op = "block"
    <2>1. Block /\ UNCHANGED <<log, launched, checked, session>>
      BY <1>2, <1>9 DEF DoStep
    <2>2. steps' = Tail(steps) => Shifts
      BY <1>1, TailShifts
    <2>3. Blocks
      BY <1>9, <2>1, <2>2 DEF Blocks, Block
    <2>4. QED
      BY <1>1, <1>3, <2>3 DEF Writes
  <1>10. QED
    BY <1>4, <1>5, <1>6, <1>7, <1>8, <1>9

-----------------------------------------------------------------------------
(* What the other actions do *)

\* Nothing but the process's position and its sessions' ends.
Quiet ==
  /\ UNCHANGED <<status, orderHash, order, log, retries, handoffs, gaps, steps, reopens, seen, checked,
                 launched, downs, runs, humanReopens>>
  /\ \A v \in Workers : session'[v] \in {session[v], NoTask}
  /\ \/ UNCHANGED mode
     \/ mode = "loop" /\ mode' = "stopping"
     \/ mode = "down" /\ mode' = "reset" /\ runs > 0
     \/ mode = "kill" /\ mode' = "recover"
     \/ mode = "workers" /\ mode' = "reopens"

\* Reconcile gives a task back.
Resets ==
  /\ mode = "reset" /\ mode' \in {"reset", "kill"}
  /\ UNCHANGED <<orderHash, order, log, retries, handoffs, gaps, steps, reopens, seen, checked,
                 launched, downs, runs, humanReopens, session>>
  /\ \/ UNCHANGED status
     \/ \E t \in Tasks : status[t] \in Running /\ status' = [status EXCEPT ![t] = "open"]

Dies ==
  /\ mode # "down" /\ mode' = "down" /\ downs' = downs + 1
  /\ steps' = <<>> /\ reopens' = {}
  /\ UNCHANGED <<status, orderHash, order, log, checked, launched, runs, humanReopens>>
  /\ \A v \in Workers : session'[v] \in {session[v], NoTask}

\* The session of a task that is being assigned cannot be started.
Drops(t, w) ==
  /\ mode = "loop" /\ status[t] = "assigned"
  /\ Len(steps) \in 1..2
  /\ \A i \in 1..Len(steps) :
       \/ steps[i].op = "session"
       \/ steps[i].op = "task" /\ steps[i].task = t /\ steps[i].arg = "in_progress"
  /\ Len(steps') = 3
  /\ steps'[1] = TaskStep(t, "failed", w) /\ steps'[2] = WorkerStep(w, NoTask)
  /\ steps'[3] = EmitStep("task_failed", t)
  /\ UNCHANGED <<status, orderHash, order, log, retries, handoffs, gaps, mode, reopens, seen, checked,
                 launched, downs, runs, humanReopens>>
  /\ \A v \in Workers : session'[v] \in {session[v], NoTask}
  /\ spawnFailures' = spawnFailures + 1

LEMMA SpawnDrops ==
  ASSUME RecInv, SpawnFails
  PROVE  \E t \in Tasks, w \in Workers : Drops(t, w)
  <1>1. PICK t \in Tasks, w \in Workers :
          /\ status[t] = "assigned"
          /\ steps \in {<<SessionStep(w, t), TaskStep(t, "in_progress", w)>>,
                       <<TaskStep(t, "in_progress", w)>>}
          /\ session' = [session EXCEPT ![w] = NoTask]
          /\ steps' = Terminate(t, w, "failed", "task_failed")
    BY DEF SpawnFails
  <1> DEFINE c == SessionStep(w, t)  d == TaskStep(t, "in_progress", w)
             x == TaskStep(t, "failed", w)  y == WorkerStep(w, NoTask)
             z == EmitStep("task_failed", t)
  <1>2. (steps = <<c, d>> \/ steps = <<d>>) /\ steps' = <<x, y, z>>
    BY <1>1 DEF Terminate
  <1>3. c.op = "session" /\ d.op = "task" /\ d.task = t /\ d.arg = "in_progress"
    BY DEF SessionStep, TaskStep
  <1> HIDE DEF c, d, x, y, z
  <1>4. /\ Len(steps) \in 1..2
        /\ \A i \in 1..Len(steps) : steps[i] \in {c, d}
        /\ Len(steps') = 3 /\ steps'[1] = x /\ steps'[2] = y /\ steps'[3] = z
    BY <1>2
  <1>5. session \in [Workers -> Tasks \cup {NoTask}]
    BY DEF RecInv, Types, Typed
  <1>6. \A v \in Workers : session'[v] \in {session[v], NoTask}
    BY <1>1, <1>5
  <1>7. UNCHANGED <<status, orderHash, order, log, retries, handoffs, gaps, mode, reopens, seen,
                    checked, launched, downs, runs, humanReopens>>
    BY DEF SpawnFails, ledger, resuming
  <1>8. Drops(t, w)
    BY <1>1, <1>3, <1>4, <1>6, <1>7 DEF Drops, SpawnFails, x, y, z
  <1>9. QED
    BY <1>8

Effect ==
  \/ \E t \in Tasks, w \in Workers : Begins(t, w) \/ Drops(t, w)
  \/ /\ DoStep /\ Writes
     /\ steps # <<>> /\ mode \in {"loop", "stopping"}
     /\ UNCHANGED <<orderHash, order, retries, handoffs, gaps, mode, reopens, seen, downs, runs,
                    humanReopens>>
  \/ Quiet \/ Resets \/ Dies \/ Run \/ Seed \/ Recover \/ ResolveReopen \/ Replay
  \/ \E w \in Workers : AgentPlans(w)
  \/ \E t \in Tasks : HumanReopens(t)
  \/ EditWorkOrder

LEMMA Effects ==
  ASSUME RecInv, CalmStep
  PROVE  Effect
  <1>1. Types /\ ~ProcessStray /\ [Next]_vars
    BY DEF RecInv, CalmStep, ProcessStray
  <1>2. CASE Dispatch \/ ProcessOutcome \/ ProcessKilled \/ Watchdog \/ OrphanCk
    BY <1>2, DispatchBegins, ProcessOutcomeBegins, ProcessKilledBegins, WatchdogBegins,
       OrphanCkBegins DEF Effect
  <1>3. CASE DoStep \/ SpawnFails
    BY <1>3, DoWrites, SpawnDrops DEF Effect
  <1>4. CASE Interrupt \/ KillOrphans \/ ResetWorkers
    <2>1. Quiet
      BY <1>4 DEF Interrupt, KillOrphans, ResetWorkers, Quiet, ledger, outside, memory, resuming, history
    <2>2. QED
      BY <2>1 DEF Effect
  <1>5. CASE Resume
    <2>1. Quiet
      BY <1>5 DEF Resume, Quiet, ledger, outside, memory, history
    <2>2. QED
      BY <2>1 DEF Effect
  <1>6. CASE Stop \/ Crash
    <2>1. Dies
      BY <1>6 DEF Stop, Crash, Forget, Free, Dies, ledger, outside
    <2>2. QED
      BY <2>1 DEF Effect
  <1>7. CASE ResetTask
    <2>1. mode = "reset" => \A t \in todo : t \in Tasks /\ status[t] \in Running
      BY <1>1 DEF RecInv, Resetting, Types
    <2>2. Resets
      BY <1>7, <2>1 DEF ResetTask, Resets, outside, memory, history
    <2>3. QED
      BY <2>2 DEF Effect
  <1>8. CASE Run \/ Seed \/ Recover \/ ResolveReopen \/ Replay \/ EditWorkOrder
    BY <1>8 DEF Effect
  <1>9. CASE \E w \in Workers : AgentPlans(w) \/ AgentEnds(w)
    <2>1. ASSUME NEW w \in Workers, AgentEnds(w) PROVE Quiet
      BY <1>1, <2>1 DEF AgentEnds, Quiet, ledger, memory, resuming, history, Types, Typed
    <2>2. QED
      BY <1>9, <2>1 DEF Effect
  <1>10. CASE \E t \in Tasks : HumanReopens(t)
    BY <1>10 DEF Effect
  <1>11. CASE UNCHANGED vars
    <2>1. Quiet
      BY <1>11 DEF vars, Quiet, ledger, outside, memory, resuming, history
    <2>2. QED
      BY <2>1 DEF Effect
  <1>12. QED
    BY <1>1, <1>2, <1>3, <1>4, <1>5, <1>6, <1>7, <1>8, <1>9, <1>10, <1>11 DEF Next, EngineStep, Over

-----------------------------------------------------------------------------
(* Bounds, and what stays ended *)

LEMMA WritesStatus ==
  ASSUME RecInv, Writes
  PROVE  \A t \in Tasks :
           \/ status'[t] = status[t]
           \/ status[t] \in Running \cup {"open"} /\ status'[t] # "absent"
  <1>1. Types
    BY DEF RecInv
  <1>2. CASE \E t \in Tasks, s \in Status : WritesTask(t, s)
    <2>1. PICK t \in Tasks, s \in Status : WritesTask(t, s)
      BY <1>2
    <2>2. status[t] \in Running \cup {"open"} /\ s # "absent" /\ status' = [status EXCEPT ![t] = s]
      BY <2>1 DEF WritesTask, Moves, Terminal
    <2>3. QED
      BY <1>1, <2>2 DEF Types, Typed
  <1>3. CASE WritesOther
    BY <1>3 DEF WritesOther
  <1>4. CASE \E w \in Workers, t \in Tasks : WritesSession(w, t)
    BY <1>4 DEF WritesSession
  <1>5. CASE \E k \in Kinds, t \in Tasks : WritesEvent(k, t)
    BY <1>5 DEF WritesEvent
  <1>6. CASE Blocks
    BY <1>1, <1>6 DEF Blocks, Types, Typed
  <1>7. QED
    BY <1>2, <1>3, <1>4, <1>5, <1>6 DEF Writes

LEMMA WritesLaunched ==
  ASSUME Bounds, Writes
  PROVE  launched' \in [Tasks -> Nat]
  <1>1. launched \in [Tasks -> Nat]
    BY DEF Bounds
  <1>2. CASE \E w \in Workers, t \in Tasks : WritesSession(w, t)
    BY <1>1, <1>2, Bump DEF WritesSession, OneMore
  <1>3. CASE UNCHANGED launched
    BY <1>1, <1>3
  <1>4. QED
    BY <1>2, <1>3 DEF Writes, WritesTask, WritesOther, WritesEvent, Blocks

LEMMA BoundsNext ==
  ASSUME RecInv, Bounds, CalmStep
  PROVE  Bounds'
  <1>1. Effect /\ Types /\ Blank
    BY Effects DEF RecInv
  <1>2. /\ order \in Nat \ {0} /\ runs \in Nat /\ humanReopens \in Nat /\ downs \in Nat
        /\ launched \in [Tasks -> Nat]
    BY DEF Bounds
  <1>3. CASE \E t \in Tasks, w \in Workers : Begins(t, w) \/ Drops(t, w)
    BY <1>3 DEF Bounds, Begins, Drops, Nothing
  <1>4. CASE /\ Writes
             /\ steps # <<>> /\ mode \in {"loop", "stopping"}
             /\ UNCHANGED <<orderHash, order, mode, downs, runs, humanReopens>>
    <2>1. status'[Planner] # "absent" => status[Planner] # "absent"
      BY <1>4, WritesStatus, Numbers DEF Running
    <2>2. launched' \in [Tasks -> Nat]
      BY <1>4, WritesLaunched
    <2>3. QED
      BY <1>2, <1>4, <2>1, <2>2 DEF Bounds
  <1>5. CASE Quiet
    BY <1>2, <1>5 DEF Bounds, Quiet, Nothing
  <1>6. CASE Resets
    <2>1. \A t \in Tasks : status[t] = "absent" => status'[t] = "absent"
      BY <1>1, <1>6 DEF Resets, Types, Typed, Running
    <2>2. \A t \in Tasks : status'[t] # "absent" => status[t] # "absent"
      BY <2>1
    <2>3. QED
      BY <1>6, <2>2, Numbers DEF Bounds, Resets
  <1>7. CASE Dies
    BY <1>2, <1>7 DEF Bounds, Dies, Nothing
  <1>8. CASE Run
    BY <1>2, <1>8 DEF Bounds, Run, Nothing, ledger, outside
  <1>9. CASE Seed
    <2>1. mode' = "loop" /\ runs # 0 /\ UNCHANGED <<order, runs, humanReopens, downs, launched>>
      BY <1>9 DEF Seed, Bounds, outside, history
    <2>2. orderHash' = order \/ (UNCHANGED <<status, orderHash>>)
      BY <1>9 DEF Seed
    <2>3. QED
      BY <1>2, <2>1, <2>2 DEF Bounds
  <1>10. CASE Recover \/ ResolveReopen \/ Replay
    BY <1>2, <1>10 DEF Bounds, Recover, ResolveReopen, Replay, ledger, outside, history
  <1>11. CASE \E w \in Workers : AgentPlans(w)
    <2>1. PICK w \in Workers : AgentPlans(w)
      BY <1>11
    <2>2. status[Planner] # "absent" /\ Planner \in Tasks
      BY <1>1, <2>1, Numbers DEF AgentPlans, Blank
    <2>3. QED
      BY <1>1, <1>2, <2>1, <2>2 DEF Bounds, AgentPlans, Nothing, outside
  <1>12. CASE \E t \in Tasks : HumanReopens(t)
    <2>1. PICK t \in Tasks : HumanReopens(t)
      BY <1>12
    <2>2. status[t] \in Terminal /\ mode = "down" /\ status' = [status EXCEPT ![t] = "open"]
      BY <2>1 DEF HumanReopens, Terminal
    <2>3. ~Nothing
      BY <2>2 DEF Nothing, Terminal
    <2>4. status[Planner] = "absent" => status'[Planner] = "absent"
      BY <1>1, <2>2, Numbers DEF Terminal, Types, Typed
    <2>5. QED
      BY <1>2, <2>1, <2>2, <2>3, <2>4 DEF Bounds, HumanReopens, outside
  <1>13. CASE EditWorkOrder
    BY <1>2, <1>13 DEF Bounds, EditWorkOrder, ledger, history, Nothing
  <1>14. QED
    BY <1>1, <1>3, <1>4, <1>5, <1>6, <1>7, <1>8, <1>9, <1>10, <1>11, <1>12, <1>13 DEF Effect

\* A task that has ended stays so; a completed one stays completed.
StaysEnded == \A t \in Tasks : status[t] \in Terminal => status'[t] = status[t]

LEMMA EndedStays ==
  ASSUME RecInv, Bounds, CalmStep, Undisturbed'
  PROVE  Undisturbed /\ StaysEnded
  <1>1. Effect /\ Types
    BY Effects DEF RecInv
  <1>2. order \in Nat \ {0} /\ runs \in Nat /\ humanReopens \in Nat
    BY DEF Bounds
  <1>3. humanReopens' = 0 /\ (order' = 1 \/ runs' <= 1)
    BY DEF Undisturbed
  <1>4. CASE \E t \in Tasks, w \in Workers : Begins(t, w) \/ Drops(t, w)
    BY <1>3, <1>4 DEF Begins, Drops, Undisturbed, StaysEnded
  <1>5. CASE /\ Writes
             /\ steps # <<>> /\ mode \in {"loop", "stopping"}
             /\ UNCHANGED <<orderHash, order, mode, downs, runs, humanReopens>>
    BY <1>3, <1>5, WritesStatus, Constants DEF Undisturbed, StaysEnded
  <1>6. CASE Quiet
    BY <1>3, <1>6 DEF Quiet, Undisturbed, StaysEnded
  <1>7. CASE Resets
    BY <1>1, <1>3, <1>7, Constants DEF Resets, Types, Typed, Undisturbed, StaysEnded
  <1>8. CASE Dies \/ Run
    BY <1>2, <1>3, <1>8 DEF Dies, Run, ledger, outside, history, Undisturbed, StaysEnded
  <1>9. CASE Seed
    <2>1. Undisturbed
      BY <1>3, <1>9 DEF Seed, outside, history, Undisturbed
    <2>2. status[Planner] \in Terminal => orderHash = order
      <3>1. runs # 0
        BY <1>9 DEF Seed, Bounds
      <3>2. runs = 1 => status[Planner] = "absent"
        BY <1>9, Numbers DEF Seed, Bounds, Nothing
      <3>3. QED
        BY <1>2, <2>1, <3>1, <3>2 DEF Undisturbed, Bounds, Terminal
    <2>3. QED
      BY <1>1, <1>9, <2>1, <2>2 DEF Seed, StaysEnded, Terminal, Types, Typed
  <1>10. CASE Recover \/ ResolveReopen \/ Replay
    BY <1>3, <1>10 DEF Recover, ResolveReopen, Replay, ledger, outside, history, Undisturbed, StaysEnded
  <1>11. CASE \E w \in Workers : AgentPlans(w)
    BY <1>1, <1>3, <1>11 DEF AgentPlans, outside, Undisturbed, StaysEnded, Terminal
  <1>12. CASE \E t \in Tasks : HumanReopens(t)
    BY <1>2, <1>3, <1>12 DEF HumanReopens
  <1>13. CASE EditWorkOrder
    BY <1>2, <1>3, <1>13 DEF EditWorkOrder, ledger, history, Undisturbed, StaysEnded
  <1>14. QED
    BY <1>1, <1>4, <1>5, <1>6, <1>7, <1>8, <1>9, <1>10, <1>11, <1>12, <1>13 DEF Effect

-----------------------------------------------------------------------------
(* Coherent *)

LEMMA StepFields ==
  /\ \A t, s, w : TaskStep(t, s, w).op = "task" /\ TaskStep(t, s, w).task = t
                    /\ TaskStep(t, s, w).arg = s /\ TaskStep(t, s, w).worker = w
  /\ \A t, w : WorkerStep(w, t).op = "worker"
  /\ \A t, w : SessionStep(w, t).op = "session" /\ SessionStep(w, t).task = t
  /\ \A t, k : EmitStep(k, t).op = "emit" /\ EmitStep(k, t).task = t /\ EmitStep(k, t).arg = k
  /\ EscalateStep.op = "escalate" /\ BlockStep.op = "block"
  BY DEF TaskStep, WorkerStep, SessionStep, EmitStep, EscalateStep, BlockStep

LEMMA NothingLeft ==
  ASSUME steps = <<>>
  PROVE  Coherent /\ Len(steps) = 0 /\ 1..Len(steps) = {}
  <1>1. Len(steps) = 0
    OBVIOUS
  <1>2. 1..Len(steps) = {}
    BY <1>1
  <1>3. QED
    BY <1>1, <1>2 DEF Coherent, OneSession, OnlyOne

\* What is or will be ended or completed stays so.
LEMMA WillStay ==
  ASSUME NEW t \in Tasks, NEW S, S \subseteq Terminal, WillBe(t, S), StaysEnded, UNCHANGED steps
  PROVE  WillBe(t, S)'
  BY DEF WillBe, StaysEnded

LEMMA CoherentStays ==
  ASSUME Types, Coherent, StaysEnded, UNCHANGED steps
  PROVE  Coherent'
  <1>1. ASSUME NEW i \in 1..Len(steps), steps[i].op = "emit"
        PROVE  steps[i].task \in Tasks
    BY <1>1 DEF Types, StepSet
  <1>2. ASSUME NEW i \in 1..Len(steps)
        PROVE  Announced(i)'
    <2>1. Announced(i)
      BY DEF Coherent
    <2>3. ~Emits(i, {"escalation_resolved"})'
      BY <2>1 DEF Announced, Emits
    <2>4. ASSUME Emits(i, TerminalKinds) PROVE WillBe(steps[i].task, Terminal)'
      <3>1. PICK t \in Tasks : t = steps[i].task
        BY <1>1, <2>4 DEF Emits
      <3>2. WillBe(t, Terminal)
        BY <2>1, <2>4, <3>1 DEF Announced
      <3>3. WillBe(t, Terminal)'
        BY <3>2, WillStay
      <3>4. QED
        BY <3>1, <3>3
    <2>5. ASSUME Emits(i, {"task_completed"}) PROVE WillBe(steps[i].task, {"completed"})'
      <3>1. PICK t \in Tasks : t = steps[i].task
        BY <1>1, <2>5 DEF Emits
      <3>2. WillBe(t, {"completed"}) /\ {"completed"} \subseteq Terminal
        BY <2>1, <2>5, <3>1 DEF Announced, Terminal
      <3>3. WillBe(t, {"completed"})'
        BY <3>2, WillStay
      <3>4. QED
        BY <3>1, <3>3
    <2>6. ASSUME Emits(i, GraphKinds) PROVE steps[i].task = Planner /\ WillBe(Planner, {"completed"})'
      <3>1. WillBe(Planner, {"completed"}) /\ {"completed"} \subseteq Terminal /\ steps[i].task = Planner
        BY <2>1, <2>6 DEF Announced, Terminal
      <3>2. QED
        BY <3>1, WillStay, Numbers
    <2>7. QED
      BY <2>3, <2>4, <2>5, <2>6 DEF Announced, Emits
  <1>3. OneSession' /\ OnlyOne(CounterKinds)' /\ OnlyOne({"gap_recorded"})'
    BY DEF Coherent, OneSession, OnlyOne, Emits
  <1>4. QED
    BY <1>2, <1>3 DEF Coherent

LEMMA CoherentShifts ==
  ASSUME Types, Coherent, Shifts, StaysEnded,
         steps[1].op = "task" => status'[steps[1].task] = steps[1].arg
  PROVE  Coherent'
  <1>1. ASSUME NEW i \in 1..Len(steps')
        PROVE  i + 1 \in 1..Len(steps) /\ steps'[i] = steps[i + 1]
    BY DEF Shifts
  <1>2. ASSUME NEW i \in 1..Len(steps), steps[i].op = "emit"
        PROVE  steps[i].task \in Tasks
    BY <1>2 DEF Types, StepSet
  <1>3. ASSUME NEW t \in Tasks, NEW S, S \subseteq Terminal, WillBe(t, S)
        PROVE  WillBe(t, S)'
    BY <1>3 DEF WillBe, StaysEnded
  <1>4. ASSUME NEW i \in 1..Len(steps')
        PROVE  Announced(i)'
    <2>1. PICK j \in 1..Len(steps) : j = i + 1 /\ steps'[i] = steps[j]
      BY <1>1
    <2>2. Announced(j)
      BY DEF Coherent
    <2>3. \A K : Emits(i, K)' <=> Emits(j, K)
      BY <2>1 DEF Emits
    <2>5. ~Emits(i, {"escalation_resolved"})'
      BY <2>2, <2>3 DEF Announced
    <2>6. ASSUME Emits(j, TerminalKinds) PROVE \E t \in Tasks : t = steps[j].task /\ WillBe(t, Terminal)'
      <3>1. PICK t \in Tasks : t = steps[j].task
        BY <1>2, <2>6 DEF Emits
      <3>2. WillBe(t, Terminal)
        BY <2>2, <2>6, <3>1 DEF Announced
      <3>3. WillBe(t, Terminal)'
        BY <1>3, <3>2
      <3>4. QED
        BY <3>1, <3>3
    <2>7. ASSUME Emits(j, {"task_completed"})
        PROVE  \E t \in Tasks : t = steps[j].task /\ WillBe(t, {"completed"})'
      <3>1. PICK t \in Tasks : t = steps[j].task
        BY <1>2, <2>7 DEF Emits
      <3>2. WillBe(t, {"completed"}) /\ {"completed"} \subseteq Terminal
        BY <2>2, <2>7, <3>1 DEF Announced, Terminal
      <3>3. WillBe(t, {"completed"})'
        BY <1>3, <3>2
      <3>4. QED
        BY <3>1, <3>3
    <2>8. ASSUME Emits(j, GraphKinds) PROVE steps'[i].task = Planner /\ WillBe(Planner, {"completed"})'
      <3>1. WillBe(Planner, {"completed"}) /\ {"completed"} \subseteq Terminal /\ steps[j].task = Planner
        BY <2>2, <2>8 DEF Announced, Terminal
      <3>2. QED
        BY <1>3, <2>1, <3>1, Numbers
    <2>9. /\ Emits(i, TerminalKinds)' => WillBe(steps[i].task, Terminal)'
          /\ Emits(i, {"task_completed"})' => WillBe(steps[i].task, {"completed"})'
      BY <2>1, <2>3, <2>6, <2>7
    <2>10. QED
      BY <2>3, <2>5, <2>8, <2>9 DEF Announced
  <1>5. OneSession'
    <2>1. SUFFICES ASSUME NEW i \in 1..Len(steps'), NEW j \in 1..Len(steps'),
                          steps'[i].op = "session", steps'[j].op = "session"
                   PROVE  i = j
      BY DEF OneSession
    <2>2. i + 1 = j + 1
      BY <1>1, <2>1 DEF Coherent, OneSession
    <2>3. QED
      BY <2>2
  <1>6. ASSUME NEW K, OnlyOne(K) PROVE OnlyOne(K)'
    <2>1. SUFFICES ASSUME NEW i \in 1..Len(steps'), NEW j \in 1..Len(steps'),
                          Emits(i, K)', Emits(j, K)'
                   PROVE  i = j
      BY DEF OnlyOne
    <2>2. i + 1 = j + 1
      BY <1>1, <1>6, <2>1 DEF OnlyOne, Emits
    <2>3. QED
      BY <2>2
  <1>7. QED
    BY <1>4, <1>5, <1>6 DEF Coherent

LEMMA AssignsCoherent ==
  ASSUME NEW t \in Tasks, NEW w \in Workers, Assigns(steps', t, w) \/ Restarts(steps', t, w)
  PROVE  Coherent'
  <1>1. /\ \A i \in 1..Len(steps') : i \in {1, 2, 3, 4}
        /\ \A i \in 1..Len(steps') : steps'[i].op = "emit" => steps'[i].arg = "task_handoff"
    <2>1. CASE Assigns(steps', t, w)
      <3>1. \A i \in 1..Len(steps') : i \in {1, 2, 3, 4}
        BY <2>1 DEF Assigns
      <3>2. QED
        BY <2>1, <3>1, StepFields DEF Assigns
    <2>2. CASE Restarts(steps', t, w)
      <3>1. \A i \in 1..Len(steps') : i \in {1, 2, 3}
        BY <2>2 DEF Restarts
      <3>2. QED
        BY <2>2, <3>1, StepFields DEF Restarts
    <2>3. QED
      BY <2>1, <2>2
  <1>2. \A i \in 1..Len(steps') : Announced(i)'
    BY <1>1 DEF Announced, Emits, TerminalKinds, GraphKinds
  <1>3. OneSession' /\ OnlyOne(CounterKinds)'
    <2>1. CASE Assigns(steps', t, w)
      BY <1>1, <2>1, StepFields DEF Assigns, OneSession, OnlyOne, Emits
    <2>2. CASE Restarts(steps', t, w)
      <3>1. \A i \in 1..Len(steps') : i \in {1, 2, 3}
        BY <2>2 DEF Restarts
      <3>2. QED
        BY <2>2, <3>1, StepFields DEF Restarts, OneSession, OnlyOne, Emits
    <2>3. QED
      BY <2>1, <2>2
  <1>4. OnlyOne({"gap_recorded"})'
    BY <1>1 DEF OnlyOne, Emits
  <1>5. QED
    BY <1>2, <1>3, <1>4 DEF Coherent

LEMMA RetriesCoherent ==
  ASSUME NEW t \in Tasks, NEW w \in Workers, Retries(steps', t, w)
  PROVE  Coherent'
  <1>1. \A i \in 1..Len(steps') : i \in {1, 2, 3}
    BY DEF Retries
  <1>2. /\ steps'[1].op = "task" /\ steps'[2].op = "worker"
        /\ steps'[3].op = "emit" /\ steps'[3].arg = "task_retried"
    BY StepFields DEF Retries
  <1>3. \A i \in 1..Len(steps') : Announced(i)'
    BY <1>1, <1>2 DEF Announced, Emits, TerminalKinds, GraphKinds
  <1>4. OneSession' /\ OnlyOne(CounterKinds)' /\ OnlyOne({"gap_recorded"})'
    BY <1>1, <1>2 DEF OneSession, OnlyOne, Emits
  <1>5. QED
    BY <1>3, <1>4 DEF Coherent

LEMMA CompletesCoherent ==
  ASSUME NEW t \in Tasks, NEW w \in Workers, Completes(steps', t, w), steps' # <<>>
  PROVE  Coherent'
  <1>0. \E n \in {3, 4, 6} : n = Len(steps')
    BY DEF Completes
  <1>1. ASSUME NEW i \in 1..Len(steps') PROVE i \in {1, 2, 3, 4, 5, 6}
    <2>1. PICK n \in {3, 4, 6} : n = Len(steps')
      BY <1>0
    <2>2. i \in 1..n
      BY <2>1
    <2>3. i \in Int /\ 1 <= i /\ i <= 6
      BY <2>1, <2>2
    <2>4. QED
      BY <2>3
  <1>2. /\ steps'[1].op = "task" /\ steps'[1].task = t /\ steps'[1].arg = "completed"
        /\ steps'[2].op = "worker"
        /\ steps'[3].op = "emit" /\ steps'[3].arg = "task_completed" /\ steps'[3].task = t
    BY StepFields DEF Completes
  <1>3. \A i \in 1..Len(steps') : i \in {4, 5, 6} =>
          \/ steps'[i].op \notin {"emit", "session"}
          \/ /\ steps'[i].op = "emit" /\ steps'[i].arg \in GraphKinds
             /\ steps'[i].task = Planner /\ t = Planner
    <2>1. CASE t # Planner /\ Len(steps') = 3
      BY <2>1
    <2>2. CASE t = Planner /\ Len(steps') = 4 /\ steps'[4] = EmitStep("graph_validated", Planner)
      BY <2>2, StepFields DEF GraphKinds
    <2>3. CASE /\ t = Planner /\ Len(steps') = 6
               /\ steps'[4] = EscalateStep /\ steps'[5] = EmitStep("graph_invalid", Planner)
               /\ steps'[6] = BlockStep
      <3>1. /\ steps'[4].op = "escalate" /\ steps'[6].op = "block"
            /\ steps'[5].op = "emit" /\ steps'[5].arg = "graph_invalid" /\ steps'[5].task = Planner
        BY <2>3, StepFields
      <3>2. QED
        BY <2>3, <3>1 DEF GraphKinds
    <2>4. QED
      BY <2>1, <2>2, <2>3 DEF Completes
  <1>4. WillBe(t, Terminal)' /\ WillBe(t, {"completed"})'
    BY <1>2 DEF WillBe, Terminal
  <1>5. \A i \in 1..Len(steps') : steps'[i].op = "emit" =>
          \/ steps'[i].arg = "task_completed" /\ steps'[i].task = t
          \/ steps'[i].arg \in GraphKinds /\ steps'[i].task = Planner /\ t = Planner
    BY <1>1, <1>2, <1>3
  <1>6. \A i \in 1..Len(steps') : Announced(i)'
    BY <1>4, <1>5 DEF Announced, Emits, TerminalKinds, GraphKinds
  <1>7. OneSession' /\ OnlyOne(CounterKinds)' /\ OnlyOne({"gap_recorded"})'
    BY <1>1, <1>2, <1>3, <1>5 DEF OneSession, OnlyOne, Emits, CounterKinds, GraphKinds
  <1>8. QED
    BY <1>6, <1>7 DEF Coherent

LEMMA FailsCoherent ==
  ASSUME NEW t \in Tasks, NEW w \in Workers, Fails(steps', t, w), steps' # <<>>
  PROVE  Coherent'
  <1>0. Len(steps') \in {4, 5}
    BY DEF Fails
  <1>1. \A i \in 1..Len(steps') : i \in {1, 2, 3, 4, 5}
    BY <1>0
  <1>2. /\ steps'[1].op = "task" /\ steps'[1].task = t /\ steps'[1].arg \in {"failed", "blocked"}
        /\ steps'[2].op = "worker"
        /\ steps'[3].op = "emit" /\ steps'[3].arg \in {"task_failed", "task_blocked"} /\ steps'[3].task = t
    BY StepFields DEF Fails
  <1>3. /\ Len(steps') \in {4, 5}
        /\ t \in Critical => steps'[4] = BlockStep
        /\ t \notin Critical => steps'[4] = EmitStep("gap_recorded", t)
        /\ Len(steps') = 5 => steps'[5] = BlockStep
    BY DEF Fails
  <1>4. steps'[4].op = "block" \/ (steps'[4].op = "emit" /\ steps'[4].arg = "gap_recorded")
    BY <1>3, StepFields
  <1>5. Len(steps') = 5 => steps'[5].op = "block"
    BY <1>3, StepFields
  <1>6. WillBe(t, Terminal)'
    BY <1>2 DEF WillBe, Terminal
  <1>7. \A i \in 1..Len(steps') : steps'[i].op = "emit" =>
          \/ i = 3 /\ steps'[i].arg \in {"task_failed", "task_blocked"} /\ steps'[i].task = t
          \/ i = 4 /\ steps'[i].arg = "gap_recorded"
    BY <1>1, <1>2, <1>3, <1>4, <1>5
  <1>8. \A i \in 1..Len(steps') : steps'[i].op # "session"
    BY <1>1, <1>2, <1>3, <1>4, <1>5
  <1>9. ASSUME NEW i \in 1..Len(steps') PROVE Announced(i)'
      BY <1>6, <1>7 DEF Announced, Emits, TerminalKinds, GraphKinds
  <1>10. OneSession' /\ OnlyOne(CounterKinds)' /\ OnlyOne({"gap_recorded"})'
    BY <1>7, <1>8 DEF OneSession, OnlyOne, Emits, CounterKinds
  <1>11. QED
    BY <1>9, <1>10 DEF Coherent

LEMMA DropsCoherent ==
  ASSUME NEW t \in Tasks, NEW w \in Workers, Drops(t, w)
  PROVE  Coherent'
  <1>1. \A i \in 1..Len(steps') : i \in {1, 2, 3}
    BY DEF Drops
  <1>2. /\ steps'[1].op = "task" /\ steps'[1].task = t /\ steps'[1].arg = "failed"
        /\ steps'[2].op = "worker"
        /\ steps'[3].op = "emit" /\ steps'[3].arg = "task_failed" /\ steps'[3].task = t
    BY StepFields DEF Drops
  <1>3. steps' # <<>>
    BY DEF Drops
  <1>4. WillBe(t, Terminal)'
    BY <1>2, <1>3 DEF WillBe, Terminal
  <1>5. \A i \in 1..Len(steps') : Announced(i)'
    BY <1>1, <1>2, <1>4 DEF Announced, Emits, TerminalKinds, GraphKinds
  <1>6. OneSession' /\ OnlyOne(CounterKinds)' /\ OnlyOne({"gap_recorded"})'
    BY <1>1, <1>2 DEF OneSession, OnlyOne, Emits, CounterKinds
  <1>7. QED
    BY <1>5, <1>6 DEF Coherent

LEMMA BeginsCoherent ==
  ASSUME NEW t \in Tasks, NEW w \in Workers, Begins(t, w)
  PROVE  Coherent' /\ steps' # <<>>
  <1>1. \/ Assigns(steps', t, w) \/ Restarts(steps', t, w) \/ Retries(steps', t, w)
        \/ Completes(steps', t, w) \/ Fails(steps', t, w)
    BY DEF Begins
  <1>2. steps' # <<>>
    <2>1. Len(steps') \in {3, 4, 5, 6}
      BY <1>1 DEF Assigns, Restarts, Retries, Completes, Fails
    <2>2. Len(<<>>) = 0
      OBVIOUS
    <2>3. QED
      BY <2>1, <2>2
  <1>3. QED
    BY <1>1, <1>2, AssignsCoherent, RetriesCoherent, CompletesCoherent, FailsCoherent

LEMMA ReplaySteps ==
  ASSUME Replay, steps = <<>>
  PROVE  \/ steps' = <<>> /\ (status[Planner] # "completed" \/ seen)
         \/ /\ status[Planner] = "completed" /\ steps' # <<>> /\ Len(steps') \in {1, 3}
            /\ \A i \in 1..Len(steps') :
                 \/ steps'[i].op \in {"escalate", "block"}
                 \/ /\ steps'[i].op = "emit" /\ steps'[i].arg \in GraphKinds
                    /\ steps'[i].task = Planner
            /\ \E i \in 1..Len(steps') : Emits(i, GraphKinds)'
  <1>1. CASE ~(status[Planner] = "completed" /\ ~seen)
    BY <1>1 DEF Replay
  <1>2. CASE status[Planner] = "completed" /\ ~seen
    <2>1. steps' = HookSteps
      BY <1>2 DEF Replay
    <2> DEFINE a == EscalateStep  b == EmitStep("graph_invalid", Planner)  c == BlockStep
               d == EmitStep("graph_validated", Planner)
    <2>2. steps' = <<a, b, c>> \/ steps' = <<d>>
      BY <2>1 DEF HookSteps
    <2>3. /\ a.op = "escalate" /\ c.op = "block"
          /\ b.op = "emit" /\ b.arg = "graph_invalid" /\ b.task = Planner
          /\ d.op = "emit" /\ d.arg = "graph_validated" /\ d.task = Planner
      BY StepFields
    <2> HIDE DEF a, b, c, d
    <2>4. CASE steps' = <<a, b, c>>
      <3>1. Len(steps') = 3 /\ steps'[1] = a /\ steps'[2] = b /\ steps'[3] = c
        BY <2>4
      <3>2. steps' # <<>>
        BY <2>4
      <3>3. \A i \in 1..Len(steps') : i \in {1, 2, 3}
        BY <3>1
      <3>4. 2 \in 1..Len(steps')
        BY <3>1
      <3>5. QED
        BY <1>2, <2>3, <3>1, <3>2, <3>3, <3>4 DEF Emits, GraphKinds
    <2>5. CASE steps' = <<d>>
      <3>1. Len(steps') = 1 /\ steps'[1] = d
        BY <2>5
      <3>2. steps' # <<>>
        BY <2>5
      <3>3. \A i \in 1..Len(steps') : i = 1
        BY <3>1
      <3>4. 1 \in 1..Len(steps')
        BY <3>1
      <3>5. QED
        BY <1>2, <2>3, <3>1, <3>2, <3>3, <3>4 DEF Emits, GraphKinds
    <2>6. QED
      BY <2>2, <2>4, <2>5
  <1>3. QED
    BY <1>1, <1>2

\* Below the dispatch loop nothing is left to write.
LEMMA NoSteps ==
  ASSUME RecInv, mode \notin {"loop", "stopping"}
  PROVE  steps = <<>> /\ (UNCHANGED steps => Coherent')
  <1>1. steps = <<>>
    BY DEF RecInv, Types, Typed
  <1>2. ASSUME UNCHANGED steps PROVE Coherent'
    <2>1. Len(steps') = 0
      BY <1>1, <1>2
    <2>2. 1..Len(steps') = {}
      BY <2>1
    <2>3. QED
      BY <2>2 DEF Coherent, OneSession, OnlyOne
  <1>3. QED
    BY <1>1, <1>2

LEMMA CoherentNext ==
  ASSUME RecInv, Bounds, Coherent, CalmStep
  PROVE  Coherent'
  <1>1. Effect /\ Types
    BY Effects DEF RecInv
  <1>2. CASE \E t \in Tasks, w \in Workers : Begins(t, w) \/ Drops(t, w)
    BY <1>2, BeginsCoherent, DropsCoherent
  <1>3. CASE Writes
    <2>1. StaysEnded
      BY <1>3, WritesStatus, Constants DEF StaysEnded
    <2>2. CASE Shifts
      <3>1. steps[1].op = "task" => status'[steps[1].task] = steps[1].arg
        BY <1>1, <1>3, StepFields
           DEF Writes, WritesTask, WritesOther, WritesSession, WritesEvent, Blocks, Types, Typed
      <3>2. QED
        BY <1>1, <2>1, <2>2, <3>1, CoherentShifts
    <2>3. CASE UNCHANGED steps
      BY <1>1, <2>1, <2>3, CoherentStays
    <2>4. QED
      BY <1>3, <2>2, <2>3 DEF Writes, WritesTask, WritesOther, WritesSession, WritesEvent, Blocks
  <1>4. CASE Quiet
    <2>1. StaysEnded
      BY <1>4 DEF Quiet, StaysEnded
    <2>2. QED
      BY <1>1, <1>4, <2>1, CoherentStays DEF Quiet
  <1>5. CASE Resets \/ Run \/ Seed \/ Recover \/ ResolveReopen \/ EditWorkOrder \/ \E t \in Tasks : HumanReopens(t)
    BY <1>5, NoSteps DEF Resets, Run, Seed, Recover, ResolveReopen, EditWorkOrder, HumanReopens
  <1>6. CASE Dies
    <2>1. Len(steps') = 0
      BY <1>6 DEF Dies
    <2>2. 1..Len(steps') = {}
      BY <2>1
    <2>3. QED
      BY <2>2 DEF Coherent, OneSession, OnlyOne
  <1>7. CASE Replay
    <2>1. steps = <<>> /\ UNCHANGED status
      BY <1>7, NoSteps DEF Replay, ledger
    <2>2. CASE steps' = <<>>
      BY <1>7, <2>1, <2>2, NoSteps DEF Replay
    <2>3. CASE steps' # <<>>
      <3>1. /\ status'[Planner] = "completed"
            /\ \A i \in 1..Len(steps') :
                 \/ steps'[i].op \in {"escalate", "block"}
                 \/ steps'[i].op = "emit" /\ steps'[i].arg \in GraphKinds /\ steps'[i].task = Planner
        BY <1>7, <2>1, <2>3, ReplaySteps
      <3>2. WillBe(Planner, {"completed"})'
        BY <3>1 DEF WillBe
      <3>3. ASSUME NEW i \in 1..Len(steps') PROVE Announced(i)'
        BY <3>1, <3>2 DEF Announced, Emits, TerminalKinds, GraphKinds
      <3>4. OneSession' /\ OnlyOne(CounterKinds)' /\ OnlyOne({"gap_recorded"})'
        BY <3>1 DEF OneSession, OnlyOne, Emits, CounterKinds, GraphKinds
      <3>5. QED
        BY <3>3, <3>4 DEF Coherent
    <2>4. QED
      BY <2>2, <2>3
  <1>8. CASE \E w \in Workers : AgentPlans(w)
    <2>1. StaysEnded /\ UNCHANGED steps
      BY <1>8 DEF AgentPlans, StaysEnded, Terminal
    <2>2. QED
      BY <1>1, <2>1, CoherentStays
  <1>9. QED
    BY <1>1, <1>2, <1>3, <1>4, <1>5, <1>6, <1>7, <1>8 DEF Effect

-----------------------------------------------------------------------------
(* Lasting *)

\* One event more.
Appends(k, t) ==
  /\ Len(log) \in Nat /\ DOMAIN log = 1..Len(log) /\ DOMAIN log' = 1..(Len(log) + 1)
  /\ \A i \in DOMAIN log : i \in DOMAIN log' /\ log'[i] = log[i]
  /\ log'[Len(log) + 1] = Event(k, t)

LEMMA AppendAppends ==
  ASSUME Types, NEW k \in Kinds, NEW t \in Tasks, log' = Append(log, Event(k, t))
  PROVE  Appends(k, t)
  <1>1. log \in Seq(EventSet) /\ Event(k, t) \in EventSet
    BY DEF Types, EventSet, Event
  <1>2. /\ Len(log') = Len(log) + 1 /\ log' \in Seq(EventSet)
        /\ \A i \in 1..Len(log) : log'[i] = log[i]
        /\ log'[Len(log) + 1] = Event(k, t)
    BY <1>1, AppendProperties
  <1>3. Len(log) \in Nat /\ DOMAIN log = 1..Len(log) /\ DOMAIN log' = 1..Len(log')
    BY <1>1, <1>2, LenProperties
  <1>4. QED
    BY <1>2, <1>3 DEF Appends

LEMMA EventFields ==
  \A k, t : Event(k, t).kind = k /\ Event(k, t).task = t
  BY DEF Event

\* Only the emits of a handler and ResolveReopen append to the log.
LEMMA LogNext ==
  ASSUME RecInv, CalmStep
  PROVE  \/ UNCHANGED log
         \/ /\ mode \in {"loop", "stopping"} /\ steps # <<>>
            /\ \E k \in Kinds, t \in Tasks : WritesEvent(k, t) /\ Appends(k, t)
         \/ /\ mode = "reopens"
            /\ \E t \in reopens : t \in Tasks /\ Appends("escalation_resolved", t)
  <1>1. Effect /\ Types
    BY Effects DEF RecInv
  <1>2. CASE Writes /\ steps # <<>> /\ mode \in {"loop", "stopping"}
    <2>1. ASSUME NEW k \in Kinds, NEW t \in Tasks, WritesEvent(k, t) PROVE Appends(k, t)
      BY <1>1, <2>1, AppendAppends DEF WritesEvent
    <2>2. QED
      BY <1>2, <2>1 DEF Writes, WritesTask, WritesOther, WritesSession, Blocks
  <1>3. CASE ResolveReopen
    <2>1. ASSUME NEW t \in reopens, log' = Append(log, Event("escalation_resolved", t))
          PROVE  t \in Tasks /\ Appends("escalation_resolved", t)
      BY <1>1, <2>1, AppendAppends, Constants DEF Types
    <2>2. QED
      BY <1>3, <2>1 DEF ResolveReopen
  <1>4. QED
    BY <1>1, <1>2, <1>3 DEF Effect, Begins, Drops, Quiet, Resets, Dies, Run, Seed, Recover, Replay, AgentPlans,
                            HumanReopens, EditWorkOrder

LEMMA LastingNext ==
  ASSUME RecInv, Bounds, Coherent, Lasting, CalmStep
  PROVE  Lasting'
  <1>1. SUFFICES ASSUME Undisturbed'
                 PROVE  /\ reopens' = {}
                        /\ \A i \in DOMAIN log' :
                             /\ log'[i].kind # "escalation_resolved"
                             /\ log'[i].kind \in TerminalKinds => status'[log'[i].task] \in Terminal
    BY DEF Lasting
  <1>2. Undisturbed /\ StaysEnded /\ Types
    BY <1>1, EndedStays DEF RecInv
  <1>3. /\ reopens = {}
        /\ \A i \in DOMAIN log :
             /\ log[i].kind # "escalation_resolved"
             /\ log[i].kind \in TerminalKinds => status[log[i].task] \in Terminal
    BY <1>2 DEF Lasting
  <1>4. \A i \in DOMAIN log : log[i].task \in Tasks
    BY <1>2 DEF Types, Typed
  <1>5. reopens' = {}
    <2>1. CASE Recover
      <3>1. \A t \in Tasks : TerminalHistory(t) => status[t] # "open"
        BY <1>3, Constants DEF TerminalHistory, TerminalKinds
      <3>2. QED
        BY <2>1, <3>1 DEF Recover
    <2>2. QED
      BY <1>3, <2>1, Effects DEF Effect, Begins, Drops, Quiet, Resets, Dies, Run, Seed, ResolveReopen, Replay,
         AgentPlans, HumanReopens, EditWorkOrder, memory, resuming
  <1>6. ASSUME NEW i \in DOMAIN log
        PROVE  /\ log[i].kind # "escalation_resolved"
               /\ log[i].kind \in TerminalKinds => status'[log[i].task] \in Terminal
    BY <1>2, <1>3, <1>4 DEF StaysEnded
  <1>7. CASE UNCHANGED log
    BY <1>5, <1>6, <1>7
  <1>8. CASE \E k \in Kinds, t \in Tasks : WritesEvent(k, t) /\ Appends(k, t) /\ steps # <<>>
    <2>1. PICK k \in Kinds, t \in Tasks : WritesEvent(k, t) /\ Appends(k, t) /\ steps # <<>>
      BY <1>8
    <2>2. /\ steps[1] = EmitStep(k, t) /\ 1 \in 1..Len(steps) /\ UNCHANGED status
      BY <2>1 DEF WritesEvent, Shifts
    <2>3. steps[1].op = "emit" /\ steps[1].arg = k /\ steps[1].task = t
      BY <2>2, StepFields
    <2>4. Announced(1)
      BY <2>2 DEF Coherent
    <2>5. k # "escalation_resolved" /\ (k \in TerminalKinds => status[t] \in Terminal)
      BY <2>3, <2>4 DEF Announced, Emits, WillBe
    <2>6. \A i \in DOMAIN log' : (i \in DOMAIN log /\ log'[i] = log[i]) \/ log'[i] = Event(k, t)
      BY <2>1 DEF Appends
    <2>7. QED
      BY <1>5, <1>6, <2>2, <2>5, <2>6, EventFields
  <1>9. QED
    BY <1>3, <1>7, <1>8, LogNext

LEMMA LastingResolved ==
  ASSUME Types, Bounds, Lasting PROVE ResolvedOnlyReopened
  <1>1. SUFFICES ASSUME humanReopens = 0, order = 1, NEW t \in Tasks
                 PROVE  Count("escalation_resolved", t) = 0
    BY DEF ResolvedOnlyReopened
  <1>2. \A i \in DOMAIN log : log[i].kind # "escalation_resolved"
    BY <1>1 DEF Lasting, Undisturbed
  <1>3. {i \in DOMAIN log : log[i] = Event("escalation_resolved", t)} = {}
    BY <1>2, EventFields
  <1>4. QED
    BY <1>3, FS_EmptySet DEF Count

-----------------------------------------------------------------------------
(* Counting events *)

LEMMA CountNext ==
  ASSUME Types, NEW k \in Kinds, NEW t \in Tasks
  PROVE  /\ Count(k, t) \in Nat
         /\ UNCHANGED log => Count(k, t)' = Count(k, t)
         /\ \A k2, t2 : Appends(k2, t2) =>
              Count(k, t)' = Count(k, t) + OneIf(k = k2 /\ t = t2)
  <1> DEFINE S == {i \in DOMAIN log : log[i] = Event(k, t)}
             T == {i \in DOMAIN log' : log'[i] = Event(k, t)}
  <1>1. /\ IsFiniteSet(S) /\ Cardinality(S) \in Nat
    <2>1. DOMAIN log = 1..Len(log) /\ Len(log) \in Nat
      BY LenProperties DEF Types
    <2>2. IsFiniteSet(DOMAIN log)
      BY <2>1, FS_Interval
    <2>3. QED
      BY <2>2, FS_Subset, FS_CardinalityType
  <1>2. UNCHANGED log => T = S
    OBVIOUS
  <1>3. ASSUME NEW k2, NEW t2, Appends(k2, t2)
        PROVE  Cardinality(T) = Cardinality(S) + OneIf(k = k2 /\ t = t2)
    <2> DEFINE n == Len(log) + 1
    <2>1. n \notin S
      BY <1>3 DEF Appends
    <2>2. T = IF k = k2 /\ t = t2 THEN S \cup {n} ELSE S
      <3>1. Event(k, t) = Event(k2, t2) <=> k = k2 /\ t = t2
        BY DEF Event
      <3>2. DOMAIN log' = DOMAIN log \cup {n}
        BY <1>3 DEF Appends
      <3>3. QED
        BY <1>3, <2>1, <3>1, <3>2 DEF Appends
    <2> HIDE DEF n, S, T
    <2>3. Cardinality(S \cup {n}) = Cardinality(S) + 1
      BY <1>1, <2>1, FS_AddElement
    <2>4. CASE k = k2 /\ t = t2
      BY <2>2, <2>3, <2>4 DEF OneIf
    <2>5. CASE ~(k = k2 /\ t = t2)
      BY <1>1, <2>2, <2>5 DEF OneIf
    <2>6. QED
      BY <2>4, <2>5
  <1>4. QED
    BY <1>1, <1>2, <1>3 DEF Count

LEMMA Ones ==
  /\ \A b : OneIf(b) \in {0, 1}
  /\ \A b : b => OneIf(b) = 1
  /\ \A b : ~b => OneIf(b) = 0
  BY DEF OneIf

LEMMA NoneAwaited ==
  ASSUME Len(steps) = 0
  PROVE  \A k, t : ~Awaits(k, t) /\ ~Launches(t)
  <1>1. 1..Len(steps) = {}
    OBVIOUS
  <1>2. QED
    BY <1>1 DEF Awaits, Launches

LEMMA NoneAwaitedNext ==
  ASSUME Len(steps') = 0
  PROVE  \A k, t : ~Awaits(k, t)' /\ ~Launches(t)'
  <1>1. 1..Len(steps') = {}
    OBVIOUS
  <1>2. QED
    BY <1>1 DEF Awaits, Launches

\* A write takes its own step off, and no other.
LEMMA ShiftedAwaits ==
  ASSUME Shifts, NEW k, NEW t, NEW K, k \in K, OnlyOne(K)
  PROVE  Awaits(k, t)' <=> Awaits(k, t) /\ steps[1] # EmitStep(k, t)
  <1>1. /\ Len(steps) \in Nat \ {0} /\ Len(steps') = Len(steps) - 1
        /\ \A i \in 1..Len(steps') : steps'[i] = steps[i + 1]
    BY DEF Shifts
  <1>2. \A i \in 1..Len(steps) : steps[i] = EmitStep(k, t) => Emits(i, K)
    BY StepFields DEF Emits
  <1>3. ASSUME NEW i \in 1..Len(steps'), steps'[i] = EmitStep(k, t)
        PROVE  Awaits(k, t) /\ steps[1] # EmitStep(k, t)
    <2>1. i + 1 \in 1..Len(steps) /\ steps[i + 1] = EmitStep(k, t) /\ 1 \in 1..Len(steps) /\ i + 1 # 1
      BY <1>1, <1>3
    <2>2. QED
      BY <1>2, <2>1 DEF Awaits, OnlyOne
  <1>4. ASSUME NEW i \in 1..Len(steps), steps[i] = EmitStep(k, t), steps[1] # EmitStep(k, t)
        PROVE  Awaits(k, t)'
    <2>1. i # 1
      BY <1>4
    <2>2. PICK j \in 1..Len(steps') : i = j + 1
      <3>1. i - 1 \in 1..Len(steps') /\ i = (i - 1) + 1
        BY <1>1, <2>1
      <3>2. QED
        BY <3>1
    <2>3. steps'[j] = EmitStep(k, t)
      BY <1>1, <1>4, <2>2
    <2>4. QED
      BY <2>3 DEF Awaits
  <1>5. QED
    BY <1>3, <1>4 DEF Awaits

LEMMA ShiftedLaunches ==
  ASSUME Shifts, OneSession, NEW t
  PROVE  Launches(t)' <=> Launches(t) /\ ~(steps[1].op = "session" /\ steps[1].task = t)
  <1>1. /\ Len(steps) \in Nat \ {0} /\ Len(steps') = Len(steps) - 1
        /\ \A i \in 1..Len(steps') : steps'[i] = steps[i + 1]
    BY DEF Shifts
  <1> DEFINE P(s) == s.op = "session" /\ s.task = t
  <1>2. ASSUME NEW i \in 1..Len(steps'), P(steps'[i])
        PROVE  Launches(t) /\ ~P(steps[1])
    <2>1. i + 1 \in 1..Len(steps) /\ P(steps[i + 1]) /\ 1 \in 1..Len(steps) /\ i + 1 # 1
      BY <1>1, <1>2
    <2>2. QED
      BY <2>1 DEF Launches, OneSession
  <1>3. ASSUME NEW i \in 1..Len(steps), P(steps[i]), ~P(steps[1])
        PROVE  Launches(t)'
    <2>1. i # 1
      BY <1>3
    <2>2. PICK j \in 1..Len(steps') : i = j + 1
      <3>1. i - 1 \in 1..Len(steps') /\ i = (i - 1) + 1
        BY <1>1, <2>1
      <3>2. QED
        BY <3>1
    <2>3. P(steps'[j])
      BY <1>1, <1>3, <2>2
    <2>4. QED
      BY <2>3 DEF Launches
  <1>4. QED
    BY <1>2, <1>3 DEF Launches

\* Logging what was pending changes nothing.
LEMMA LoggedWrites ==
  ASSUME Types, Coherent, Writes, NEW k \in CounterKinds, NEW t \in Tasks
  PROVE  Logged(k, t)' = Logged(k, t)
  <1>1. OnlyOne(CounterKinds) /\ k \in Kinds
    BY DEF Coherent, CounterKinds, Kinds
  <1>2. /\ Count(k, t) \in Nat /\ (UNCHANGED log => Count(k, t)' = Count(k, t))
        /\ \A k2, t2 : Appends(k2, t2) => Count(k, t)' = Count(k, t) + OneIf(k = k2 /\ t = t2)
    BY <1>1, CountNext
  <1>3. CASE UNCHANGED <<log, steps>>
    BY <1>2, <1>3 DEF Logged, Pending, Awaits
  <1>4. CASE UNCHANGED log /\ Shifts /\ steps[1].op # "emit"
    <2>1. Awaits(k, t)' <=> Awaits(k, t)
      BY <1>1, <1>4, ShiftedAwaits, StepFields
    <2>2. Pending(k, t)' = Pending(k, t)
      BY <2>1 DEF Pending, OneIf
    <2>3. QED
      BY <1>2, <1>4, <2>2 DEF Logged
  <1>5. CASE \E k2 \in Kinds, t2 \in Tasks : WritesEvent(k2, t2)
    <2>1. PICK k2 \in Kinds, t2 \in Tasks : WritesEvent(k2, t2)
      BY <1>5
    <2>2. Appends(k2, t2) /\ Shifts /\ steps[1] = EmitStep(k2, t2)
      BY <2>1, AppendAppends DEF WritesEvent
    <2>3. EmitStep(k2, t2) = EmitStep(k, t) <=> k = k2 /\ t = t2
      BY StepFields
    <2>4. Awaits(k, t)' <=> Awaits(k, t) /\ ~(k = k2 /\ t = t2)
      BY <1>1, <2>2, <2>3, ShiftedAwaits
    <2>5. k = k2 /\ t = t2 => Awaits(k, t)
      BY <2>2, <2>3 DEF Awaits, Shifts
    <2>6. Count(k, t)' = Count(k, t) + OneIf(k = k2 /\ t = t2)
      BY <1>2, <2>2
    <2>7. QED
      BY <1>2, <2>4, <2>5, <2>6 DEF Logged, Pending, OneIf
  <1>6. QED
    BY <1>3, <1>4, <1>5 DEF Writes, WritesTask, WritesOther, WritesSession, Blocks

\* What a handler that begins is going to log and to start.
LEMMA AssignsShape ==
  ASSUME NEW t \in Tasks, NEW w \in Workers, Assigns(steps', t, w)
  PROVE  /\ \A k, u : ~Awaits(k, u)'
         /\ \A u : Launches(u)' <=> u = t
         /\ \A u : ~GivesBack(u)'
         /\ Claims(t)'
  <1>1. \A i \in 1..Len(steps') : i \in {1, 2, 3, 4}
    BY DEF Assigns
  <1>2. /\ steps'[1].op = "task" /\ steps'[1].arg = "assigned" /\ steps'[2].op = "worker"
        /\ steps'[3].op = "session" /\ steps'[3].task = t /\ steps'[4].op = "task"
    BY StepFields DEF Assigns
  <1>3. steps' # <<>> /\ 3 \in 1..Len(steps')
    BY DEF Assigns
  <1>4. \A k, u : ~Awaits(k, u)'
    BY <1>1, <1>2, StepFields DEF Awaits
  <1>5. \A u : Launches(u)' <=> u = t
    BY <1>1, <1>2, <1>3 DEF Launches
  <1>6. \A u : ~GivesBack(u)'
    BY <1>2, StepFields DEF GivesBack
  <1>7. Claims(t)'
    BY <1>3 DEF Claims, Assigns
  <1>8. QED
    BY <1>4, <1>5, <1>6, <1>7

LEMMA RestartsShape ==
  ASSUME NEW t \in Tasks, NEW w \in Workers, Restarts(steps', t, w)
  PROVE  /\ \A k, u : Awaits(k, u)' <=> k = "task_handoff" /\ u = t
         /\ \A u : Launches(u)' <=> u = t
         /\ \A u : ~GivesBack(u)'
  <1>1. (\A i \in 1..Len(steps') : i \in {1, 2, 3}) /\ \A i \in {1, 2, 3} : i \in 1..Len(steps')
    BY DEF Restarts
  <1>2. CASE /\ steps'[1] = SessionStep(w, t) /\ steps'[2] = TaskStep(t, "in_progress", w)
             /\ steps'[3] = EmitStep("task_handoff", t)
    <2>1. /\ steps'[1].op = "session" /\ steps'[1].task = t /\ steps'[2].op = "task"
          /\ steps'[3].op = "emit" /\ steps'[3].arg = "task_handoff" /\ steps'[3].task = t
      BY <1>2, StepFields
    <2>2. \A k, u : Awaits(k, u)' <=> k = "task_handoff" /\ u = t
      BY <1>1, <1>2, <2>1, StepFields DEF Awaits
    <2>3. \A u : Launches(u)' <=> u = t
      BY <1>1, <2>1 DEF Launches
    <2>4. \A u : ~GivesBack(u)'
      BY <2>1, StepFields DEF GivesBack
    <2>5. QED
      BY <2>2, <2>3, <2>4
  <1>3. CASE /\ steps'[1] = EmitStep("task_handoff", t) /\ steps'[2] = SessionStep(w, t)
             /\ steps'[3] = TaskStep(t, "in_progress", w)
    <2>1. /\ steps'[2].op = "session" /\ steps'[2].task = t /\ steps'[3].op = "task"
          /\ steps'[1].op = "emit" /\ steps'[1].arg = "task_handoff" /\ steps'[1].task = t
      BY <1>3, StepFields
    <2>2. \A k, u : Awaits(k, u)' <=> k = "task_handoff" /\ u = t
      BY <1>1, <1>3, <2>1, StepFields DEF Awaits
    <2>3. \A u : Launches(u)' <=> u = t
      BY <1>1, <2>1 DEF Launches
    <2>4. \A u : ~GivesBack(u)'
      BY <2>1, StepFields DEF GivesBack
    <2>5. QED
      BY <2>2, <2>3, <2>4
  <1>4. QED
    BY <1>2, <1>3 DEF Restarts

LEMMA RetriesShape ==
  ASSUME NEW t \in Tasks, NEW w \in Workers, Retries(steps', t, w)
  PROVE  /\ \A k, u : Awaits(k, u)' <=> k = "task_retried" /\ u = t
         /\ \A u : ~Launches(u)'
         /\ \A u : GivesBack(u)' => u = t
  <1>1. (\A i \in 1..Len(steps') : i \in {1, 2, 3}) /\ \A i \in {1, 2, 3} : i \in 1..Len(steps')
    BY DEF Retries
  <1>2. /\ steps'[1].op = "task" /\ steps'[1].task = t /\ steps'[2].op = "worker"
        /\ steps'[3].op = "emit" /\ steps'[3].arg = "task_retried" /\ steps'[3].task = t
    BY StepFields DEF Retries
  <1>3. \A k, u : Awaits(k, u)' <=> k = "task_retried" /\ u = t
    BY <1>1, <1>2, StepFields DEF Awaits, Retries
  <1>4. (\A u : ~Launches(u)') /\ \A u : GivesBack(u)' => u = t
    BY <1>1, <1>2, StepFields DEF Launches, GivesBack
  <1>5. QED
    BY <1>3, <1>4

LEMMA EndsShape ==
  ASSUME NEW t \in Tasks, NEW w \in Workers, Completes(steps', t, w) \/ Fails(steps', t, w)
  PROVE  /\ \A k \in CounterKinds, u \in Tasks : ~Awaits(k, u)'
         /\ \A u : ~Launches(u)'
         /\ \A u : ~GivesBack(u)'
  <1>1. /\ steps'[1].op = "task" /\ steps'[1].arg # "open" /\ steps'[2].op = "worker"
        /\ steps'[3].op = "emit" /\ steps'[3].arg \in TerminalKinds
    BY StepFields DEF Completes, Fails, TerminalKinds
  <1>2. \A i \in 1..Len(steps') : i \in {1, 2, 3} \/ i > 3
    OBVIOUS
  <1>3. \A i \in 1..Len(steps') : i > 3 =>
          /\ steps'[i].op # "session"
          /\ steps'[i].op = "emit" => steps'[i].arg \notin CounterKinds
    <2>1. CASE Completes(steps', t, w)
      <3>1. CASE Len(steps') = 3
        BY <3>1
      <3>2. CASE Len(steps') = 4 /\ steps'[4] = EmitStep("graph_validated", Planner)
        <4>1. steps'[4].op = "emit" /\ steps'[4].arg = "graph_validated"
          BY <3>2, StepFields
        <4>2. QED
          BY <3>2, <4>1 DEF CounterKinds
      <3>3. CASE /\ Len(steps') = 6 /\ steps'[4] = EscalateStep
                 /\ steps'[5] = EmitStep("graph_invalid", Planner) /\ steps'[6] = BlockStep
        <4>1. /\ steps'[4].op = "escalate" /\ steps'[6].op = "block"
              /\ steps'[5].op = "emit" /\ steps'[5].arg = "graph_invalid"
          BY <3>3, StepFields
        <4>2. QED
          BY <3>3, <4>1 DEF CounterKinds
      <3>4. QED
        BY <2>1, <3>1, <3>2, <3>3 DEF Completes
    <2>2. CASE Fails(steps', t, w)
      <3>1. /\ Len(steps') \in {4, 5}
            /\ steps'[4] = BlockStep \/ steps'[4] = EmitStep("gap_recorded", t)
            /\ Len(steps') = 5 => steps'[5] = BlockStep
        BY <2>2 DEF Fails
      <3>2. /\ steps'[4].op = "block" \/ (steps'[4].op = "emit" /\ steps'[4].arg = "gap_recorded")
            /\ Len(steps') = 5 => steps'[5].op = "block"
        BY <3>1, StepFields
      <3>3. QED
        BY <3>1, <3>2 DEF CounterKinds
    <2>3. QED
      BY <2>1, <2>2
  <1>4. \A i \in 1..Len(steps') :
          steps'[i].op # "session" /\ (steps'[i].op = "emit" => steps'[i].arg \notin CounterKinds)
    BY <1>1, <1>2, <1>3 DEF TerminalKinds, CounterKinds
  <1>5. \A u : ~GivesBack(u)'
    BY <1>1, StepFields DEF GivesBack
  <1>6. QED
    BY <1>4, <1>5, StepFields DEF Awaits, Launches

LEMMA DropsShape ==
  ASSUME NEW t \in Tasks, NEW w \in Workers, Drops(t, w)
  PROVE  /\ \A k, u : ~Awaits(k, u)
         /\ \A u : ~GivesBack(u) /\ ~Claims(u)
         /\ \A k, u : Awaits(k, u)' <=> k = "task_failed" /\ u = t
         /\ \A u : ~Launches(u)' /\ ~GivesBack(u)' /\ ~Claims(u)'
  <1>0. Len(steps) \in 1..2 /\ Len(steps') = 3
    BY DEF Drops
  <1>1. Len(steps) \in 1..2 /\ 1 \in 1..Len(steps) /\ Len(steps') = 3
    <2>1. \A n \in 1..2 : 1 \in 1..n
      OBVIOUS
    <2>2. QED
      BY <1>0, <2>1
  <1>2. \A i \in 1..Len(steps) : steps[i].op \in {"session", "task"} /\
          (steps[i].op = "task" => steps[i].arg = "in_progress")
    BY DEF Drops
  <1>3. /\ steps'[1].op = "task" /\ steps'[1].arg = "failed" /\ steps'[2].op = "worker"
        /\ steps'[3].op = "emit" /\ steps'[3].arg = "task_failed" /\ steps'[3].task = t
    BY StepFields DEF Drops
  <1>4. (\A i \in 1..Len(steps') : i \in {1, 2, 3}) /\ 3 \in 1..Len(steps')
    BY <1>1
  <1>5. \A k, u : ~Awaits(k, u)
    BY <1>2, StepFields DEF Awaits
  <1>6. \A u : ~GivesBack(u) /\ ~Claims(u)
    BY <1>1, <1>2, StepFields DEF GivesBack, Claims
  <1>7. steps'[3] = EmitStep("task_failed", t)
    BY DEF Drops
  <1>8. \A k, u : Awaits(k, u)' <=> k = "task_failed" /\ u = t
    BY <1>3, <1>4, <1>7, StepFields DEF Awaits
  <1>9. \A u : ~Launches(u)'
    BY <1>3, <1>4 DEF Launches
  <1>10. \A u : ~GivesBack(u)' /\ ~Claims(u)'
    BY <1>3, StepFields DEF GivesBack, Claims
  <1>11. QED
    BY <1>5, <1>6, <1>8, <1>9, <1>10

-----------------------------------------------------------------------------
(* Budgeted and Spent *)

LEMMA OnceStays ==
  ASSUME RecInv, Bounds, Lasting, CalmStep, Once'
  PROVE  /\ Once /\ reopens = {}
         /\ ~\E t \in Tasks : HumanReopens(t)
         /\ Run \/ Seed => Nothing
  <1>1. Effect
    BY Effects
  <1>2. runs \in Nat /\ humanReopens \in Nat
    BY DEF Bounds
  <1>3. humanReopens' = 0 /\ runs' <= 1
    BY DEF Once
  <1>4. ~\E t \in Tasks : HumanReopens(t)
    BY <1>2, <1>3 DEF HumanReopens
  <1>5. Once /\ (Run => runs = 0) /\ (Seed => runs <= 1 /\ mode = "seed")
    BY <1>1, <1>2, <1>3, <1>4
       DEF Once, Effect, Begins, Drops, Quiet, Resets, Dies, Run, Seed, Recover, ResolveReopen, Replay,
           AgentPlans, EditWorkOrder, history
  <1>6. reopens = {}
    BY <1>5 DEF Once, Lasting, Undisturbed
  <1>7. Run \/ Seed => Nothing
    BY <1>2, <1>5 DEF Bounds
  <1>8. QED
    BY <1>4, <1>5, <1>6, <1>7

LEMMA NothingCounted ==
  ASSUME Types, Nothing PROVE \A k, t : Count(k, t) = 0
  <1>1. DOMAIN log = {}
    BY DEF Nothing
  <1>2. \A k, t : {i \in DOMAIN log : log[i] = Event(k, t)} = {}
    BY <1>1
  <1>3. QED
    BY <1>2, FS_EmptySet DEF Count

LEMMA CountersOfFunctions ==
  ASSUME NEW f \in [Tasks -> Nat], NEW t \in Tasks
  PROVE  /\ OneMore(f, t) \in [Tasks -> Nat] /\ OneMore(f, t)[t] = f[t] + 1
         /\ \A u \in Tasks \ {t} : OneMore(f, t)[u] = f[u]
  BY Bump DEF OneMore

\* At a replay no counter is pending.
LEMMA ReplayAwaits ==
  ASSUME RecInv, Replay
  PROVE  /\ \A k, u : k \notin GraphKinds => ~Awaits(k, u)'
         /\ \A u : ~Launches(u)' /\ ~GivesBack(u)' /\ ~Claims(u)'
  <1>1. steps = <<>>
    BY NoSteps DEF Replay
  <1>2. CASE steps' = <<>>
    <2>1. Len(steps') = 0
      BY <1>2
    <2>2. QED
      BY <1>2, <2>1, NoneAwaitedNext DEF GivesBack, Claims
  <1>3. CASE steps' # <<>>
    <2>1. /\ Len(steps') \in {1, 3}
          /\ \A i \in 1..Len(steps') :
                 \/ steps'[i].op \in {"escalate", "block"}
                 \/ steps'[i].op = "emit" /\ steps'[i].arg \in GraphKinds /\ steps'[i].task = Planner
      BY <1>1, <1>3, ReplaySteps
    <2>2. 1 \in 1..Len(steps')
      BY <2>1
    <2>3. QED
      BY <2>1, <2>2, StepFields DEF Awaits, Launches, GivesBack, Claims
  <1>4. QED
    BY <1>2, <1>3

LEMMA BudgetedBegins ==
  ASSUME RecInv, Budgeted, Once, NEW t \in Tasks, NEW w \in Workers, Begins(t, w), NEW u \in Tasks
  PROVE  /\ Logged("task_retried", u)' <= MaxRetries /\ Logged("task_handoff", u)' <= MaxHandoffs
         /\ Logged("task_retried", u)' <= retries'[u] /\ Logged("task_handoff", u)' <= handoffs'[u]
  <1>1. Types /\ mode \in {"loop", "stopping"} /\ Len(steps) = 0 /\ UNCHANGED log
    BY DEF RecInv, Begins
  <1> DEFINE r == Count("task_retried", u)  h == Count("task_handoff", u)
  <1>2. r \in Nat /\ h \in Nat /\ r' = r /\ h' = h
    BY <1>1, CountNext, Constants
  <1>3. /\ Logged("task_retried", u) = r /\ Logged("task_handoff", u) = h
    BY <1>1, <1>2, NoneAwaited, Ones DEF Logged, Pending
  <1>4. r <= MaxRetries /\ h <= MaxHandoffs /\ r <= retries[u] /\ h <= handoffs[u]
    BY <1>1, <1>3 DEF Budgeted, Recovered
  <1>5. retries \in [Tasks -> Nat] /\ handoffs \in [Tasks -> Nat]
    BY <1>1 DEF Types, Typed
  <1>6. MaxRetries \in Nat /\ MaxHandoffs \in Nat
    BY RecoveryAssumption
  <1>7. /\ Logged("task_retried", u)' = r + OneIf(Awaits("task_retried", u))'
        /\ Logged("task_handoff", u)' = h + OneIf(Awaits("task_handoff", u))'
    BY <1>2 DEF Logged, Pending
  <1> HIDE DEF r, h
  <1>8. CASE UNCHANGED <<retries, handoffs>> /\ \A k \in CounterKinds : ~Awaits(k, u)'
    BY <1>2, <1>4, <1>7, <1>8 DEF OneIf, CounterKinds
  <1>9. CASE Restarts(steps', t, w) /\ UNCHANGED retries
              /\ handoffs[t] < MaxHandoffs /\ handoffs' = OneMore(handoffs, t)
    <2>1. ~Awaits("task_retried", u)' /\ (Awaits("task_handoff", u)' <=> u = t)
      BY <1>9, RestartsShape
    <2>2. handoffs'[u] = handoffs[u] + OneIf(u = t)
      BY <1>5, <1>9, CountersOfFunctions DEF OneIf
    <2>3. QED
      BY <1>2, <1>4, <1>5, <1>6, <1>7, <1>9, <2>1, <2>2 DEF OneIf
  <1>10. CASE Retries(steps', t, w) /\ retries[t] < MaxRetries /\ retries' = OneMore(retries, t)
               /\ handoffs' \in {handoffs, OneMore(handoffs, t)}
    <2>1. ~Awaits("task_handoff", u)' /\ (Awaits("task_retried", u)' <=> u = t)
      BY <1>10, RetriesShape
    <2>2. retries'[u] = retries[u] + OneIf(u = t)
      BY <1>5, <1>10, CountersOfFunctions DEF OneIf
    <2>3. handoffs'[u] >= handoffs[u]
      <3>1. CASE handoffs' = handoffs
        BY <1>5, <3>1
      <3>2. CASE handoffs' = OneMore(handoffs, t)
        BY <1>5, <3>2, CountersOfFunctions
      <3>3. QED
        BY <1>10, <3>1, <3>2
    <2>4. handoffs'[u] \in Nat
      BY <1>5, <1>10, CountersOfFunctions
    <2>5. QED
      BY <1>2, <1>4, <1>5, <1>6, <1>7, <1>10, <2>1, <2>2, <2>3, <2>4 DEF OneIf
  <1>11. CASE Fails(steps', t, w) /\ UNCHANGED retries /\ handoffs' \in {handoffs, OneMore(handoffs, t)}
    <2>1. ~Awaits("task_handoff", u)' /\ ~Awaits("task_retried", u)'
      BY <1>11, EndsShape DEF CounterKinds
    <2>2. handoffs'[u] >= handoffs[u]
      <3>1. CASE handoffs' = handoffs
        BY <1>5, <3>1
      <3>2. CASE handoffs' = OneMore(handoffs, t)
        BY <1>5, <3>2, CountersOfFunctions
      <3>3. QED
        BY <1>11, <3>1, <3>2
    <2>3. handoffs'[u] \in Nat
      BY <1>5, <1>11, CountersOfFunctions
    <2>4. QED
      BY <1>2, <1>4, <1>5, <1>6, <1>7, <1>11, <2>1, <2>2, <2>3 DEF OneIf
  <1>12. CASE Assigns(steps', t, w) /\ UNCHANGED <<retries, handoffs>>
    BY <1>8, <1>12, AssignsShape
  <1>13. CASE Completes(steps', t, w) /\ UNCHANGED <<retries, handoffs>>
    BY <1>8, <1>13, EndsShape
  <1>14. QED
    BY <1>9, <1>10, <1>11, <1>12, <1>13 DEF Begins

Afford(t) ==
  /\ Logged("task_retried", t) <= MaxRetries
  /\ Logged("task_handoff", t) <= MaxHandoffs
  /\ mode \in Recovered =>
       Logged("task_retried", t) <= retries[t] /\ Logged("task_handoff", t) <= handoffs[t]

LEMMA BudgetedNext ==
  ASSUME RecInv, Bounds, Lasting, Coherent, Budgeted, CalmStep
  PROVE  Budgeted'
  <1>1. SUFFICES ASSUME Once', NEW t \in Tasks PROVE Afford(t)'
    BY DEF Budgeted, Afford, Recovered
  <1>2. Effect /\ Types /\ Types'
    BY Effects, RecInvNext DEF RecInv, CalmStep
  <1>3. /\ Once /\ reopens = {} /\ ~(\E u \in Tasks : HumanReopens(u)) /\ (Run => Nothing)
    BY <1>1, OnceStays
  <1>4. Afford(t)
    BY <1>3 DEF Budgeted, Afford, Recovered
  <1> DEFINE r == Count("task_retried", t)  h == Count("task_handoff", t)
  <1>5. /\ r \in Nat /\ h \in Nat
        /\ UNCHANGED log => r' = r /\ h' = h
    BY <1>2, CountNext, Constants
  <1>6. MaxRetries \in Nat /\ MaxHandoffs \in Nat
    BY RecoveryAssumption
  <1>7. retries \in [Tasks -> Nat] /\ handoffs \in [Tasks -> Nat]
    BY <1>2 DEF Types, Typed
  <1>8. CASE UNCHANGED <<log, steps, retries, handoffs>> /\ (mode' \in Recovered => mode \in Recovered)
    <2>1. /\ Logged("task_retried", t)' = Logged("task_retried", t)
          /\ Logged("task_handoff", t)' = Logged("task_handoff", t)
      BY <1>5, <1>8 DEF Logged, Pending, Awaits
    <2>2. QED
      BY <1>4, <1>8, <2>1 DEF Afford
  <1>9. CASE Dies \/ Run \/ Recover
    <2>1. Logged("task_retried", t)' = r /\ Logged("task_handoff", t)' = h
      <3>1. Len(steps') = 0 /\ UNCHANGED log
        BY <1>9, NoSteps DEF Dies, Run, Recover
      <3>2. QED
        BY <1>5, <3>1, NoneAwaitedNext, Ones DEF Logged, Pending
    <2>2. r <= Logged("task_retried", t) /\ h <= Logged("task_handoff", t)
      BY <1>5, Ones DEF Logged, Pending
    <2>3. /\ Logged("task_retried", t) \in Nat /\ Logged("task_handoff", t) \in Nat
      BY <1>5, Ones DEF Logged, Pending
    <2>4. r <= MaxRetries /\ h <= MaxHandoffs
      BY <1>4, <1>5, <1>6, <2>2, <2>3 DEF Afford
    <2>5. CASE Dies
      BY <2>1, <2>4, <2>5 DEF Dies, Afford, Recovered
    <2>6. CASE Recover
      <3>1. retries'[t] = r /\ handoffs'[t] = h /\ UNCHANGED log
        BY <2>6 DEF Recover
      <3>2. QED
        BY <1>5, <2>1, <2>4, <3>1 DEF Afford
    <2>7. CASE Run
      <3>1. r = 0 /\ h = 0 /\ UNCHANGED <<log, retries, handoffs>>
        BY <1>2, <1>3, <2>7, NothingCounted DEF Run, memory
      <3>2. QED
        BY <1>5, <1>7, <2>1, <2>4, <3>1 DEF Afford
    <2>8. QED
      BY <1>9, <2>5, <2>6, <2>7
  <1>10. CASE \E u \in Tasks, w \in Workers : Begins(u, w) \/ Drops(u, w)
    <2>1. ASSUME NEW u \in Tasks, NEW w \in Workers, Drops(u, w) PROVE Afford(t)'
      <3>1. UNCHANGED <<log, retries, handoffs, mode>>
        BY <2>1 DEF Drops
      <3>2. /\ ~Awaits("task_retried", t) /\ ~Awaits("task_handoff", t)
            /\ ~Awaits("task_retried", t)' /\ ~Awaits("task_handoff", t)'
        BY <2>1, DropsShape
      <3>3. /\ Logged("task_retried", t) = r /\ Logged("task_handoff", t) = h
            /\ Logged("task_retried", t)' = r /\ Logged("task_handoff", t)' = h
        BY <1>5, <3>1, <3>2 DEF Logged, Pending, OneIf
      <3>4. QED
        BY <1>4, <3>1, <3>3 DEF Afford
    <2>2. QED
      BY <1>3, <1>10, <2>1, BudgetedBegins DEF Afford
  <1>11. CASE Writes /\ mode \in {"loop", "stopping"} /\ UNCHANGED <<retries, handoffs, mode>>
    <2>1. /\ Logged("task_retried", t)' = Logged("task_retried", t)
          /\ Logged("task_handoff", t)' = Logged("task_handoff", t)
      BY <1>2, <1>11, LoggedWrites DEF CounterKinds
    <2>2. QED
      BY <1>4, <1>11, <2>1 DEF Afford
  <1>12. CASE Replay
    <2>1. UNCHANGED <<log, retries, handoffs>> /\ mode = "replay" /\ mode' = "loop"
      BY <1>12 DEF Replay
    <2>2. ~Awaits("task_retried", t)' /\ ~Awaits("task_handoff", t)'
      BY <1>12, ReplayAwaits DEF GraphKinds
    <2>3. Logged("task_retried", t)' = r /\ Logged("task_handoff", t)' = h
      BY <1>5, <2>1, <2>2, Ones DEF Logged, Pending
    <2>4. r <= Logged("task_retried", t) /\ h <= Logged("task_handoff", t)
      BY <1>5, Ones DEF Logged, Pending
    <2>5. /\ Logged("task_retried", t) \in Nat /\ Logged("task_handoff", t) \in Nat
      BY <1>5, Ones DEF Logged, Pending
    <2>6. QED
      BY <1>4, <1>5, <1>6, <1>7, <2>1, <2>3, <2>4, <2>5 DEF Afford, Recovered
  <1>13. CASE Quiet \/ Resets \/ Seed \/ ResolveReopen \/ EditWorkOrder \/ \E w \in Workers : AgentPlans(w)
    <2>1. UNCHANGED <<log, steps, retries, handoffs>> /\ (mode' \in Recovered => mode \in Recovered)
      BY <1>3, <1>13 DEF Quiet, Resets, Seed, ResolveReopen, EditWorkOrder, AgentPlans, memory, Recovered
    <2>2. QED
      BY <1>8, <2>1
  <1>14. QED
    BY <1>2, <1>3, <1>9, <1>10, <1>11, <1>12, <1>13 DEF Effect

\* Only the first write of a handler gives a task back.
LEMMA SecondStep ==
  ASSUME RecInv, mode \in {"loop", "stopping"}, Shifts
  PROVE  \A u : ~GivesBack(u)'
  <1>1. SUFFICES ASSUME NEW u, GivesBack(u)' PROVE FALSE
    OBVIOUS
  <1>2. steps' # <<>> /\ steps'[1] = TaskStep(u, "open", NoWorker)
    BY <1>1 DEF GivesBack
  <1>3. Len(steps) >= 2 /\ Len(steps) \in Nat /\ steps[2] = TaskStep(u, "open", NoWorker)
    <2>1. Len(steps') # 0 /\ Len(steps) \in Nat \ {0} /\ Len(steps') = Len(steps) - 1
      BY <1>2 DEF Shifts
    <2>2. 1 \in 1..Len(steps') /\ 1 + 1 = 2 /\ Len(steps) >= 2 /\ Len(steps) \in Nat
      BY <2>1
    <2>3. steps'[1] = steps[1 + 1]
      BY <2>2 DEF Shifts
    <2>4. QED
      BY <1>2, <2>2, <2>3
  <1>4. steps[2].op = "task" /\ steps[2].arg = "open"
    BY <1>3, StepFields
  <1>5. ~Neutral(steps[2]) /\ 2 \in 1..Len(steps) /\ 2 \in 2..Len(steps)
    BY <1>3, <1>4 DEF Neutral
  <1>6. ~NeutralFrom(1) /\ ~NeutralFrom(2)
    BY <1>5 DEF NeutralFrom
  <1>7. PICK t \in Tasks, w \in Workers :
          \/ Assigning(t, w) \/ Assigned(t, w)
          \/ Logging(t, w) \/ Starting(t, w) \/ Started(t, w)
          \/ Ending(t, w) \/ Ended(t, w)
    BY <1>6 DEF RecInv, Handling
  <1>8. QED
    BY <1>4, <1>6, <1>7, StepFields
       DEF Assigning, Assigned, Logging, Starting, Started, Ending, Ended

\* A task that holds a session keeps it through the writes.
LEMMA WritesOccupied ==
  ASSUME RecInv, mode \in {"loop", "stopping"}, Writes, NEW u \in Tasks, Occupied(u)
  PROVE  Occupied(u)'
  <1>1. Types
    BY DEF RecInv
  <1>2. CASE \E t \in Tasks, s \in Status : WritesTask(t, s)
    <2>1. PICK t \in Tasks, s \in Status : WritesTask(t, s)
      BY <1>2
    <2>2. Shifts /\ Moves(t, s) /\ status' = [status EXCEPT ![t] = s]
          /\ steps[1].op = "task" /\ steps[1].task = t /\ steps[1].arg = s
      BY <2>1 DEF WritesTask
    <2>3. ~GivesBack(u)'
      BY <2>2, SecondStep
    <2>4. CASE u = t
      <3>1. ~(s = "open" /\ steps[1] = TaskStep(t, "open", NoWorker))
        <4>1. SUFFICES ASSUME steps[1] = TaskStep(t, "open", NoWorker) PROVE FALSE
          OBVIOUS
        <4>2. steps # <<>>
          BY <2>2 DEF Shifts
        <4>3. QED
          BY <2>4, <4>1, <4>2 DEF Occupied, GivesBack
      <3>2. s \in Running \cup Terminal
        BY <2>2, <3>1 DEF Moves, Running
      <3>3. QED
        BY <1>1, <2>2, <2>3, <2>4, <3>2 DEF Occupied, Types, Typed
    <2>5. CASE u # t
      <3>1. ~Claims(u)
        BY <2>2, <2>5, StepFields DEF Claims
      <3>2. status'[u] = status[u]
        BY <1>1, <2>2, <2>5 DEF Types, Typed
      <3>3. QED
        BY <2>3, <3>1, <3>2 DEF Occupied
    <2>6. QED
      BY <2>4, <2>5
  <1>3. CASE Blocks
    <2>1. steps[1].op = "block"
      BY <1>3 DEF Blocks
    <2>2. ~Claims(u)
      BY <2>1, StepFields DEF Claims
    <2>3. ~GivesBack(u)'
      <3>1. CASE UNCHANGED steps
        BY <2>1, <3>1, StepFields DEF GivesBack
      <3>2. CASE Shifts
        BY <3>2, SecondStep
      <3>3. QED
        BY <1>3, <3>1, <3>2 DEF Blocks
    <2>4. status'[u] \in Running \cup Terminal
      BY <1>1, <1>3, <2>2, Constants DEF Occupied, Blocks, Types, Typed, Terminal
    <2>5. QED
      BY <2>3, <2>4 DEF Occupied
  <1>4. CASE Shifts /\ UNCHANGED status /\ steps[1].op # "task"
    <2>1. ~Claims(u)
      BY <1>4, StepFields DEF Claims
    <2>2. ~GivesBack(u)'
      BY <1>4, SecondStep
    <2>3. QED
      BY <1>4, <2>1, <2>2 DEF Occupied
  <1>5. QED
    BY <1>2, <1>3, <1>4, StepFields DEF Writes, WritesOther, WritesSession, WritesEvent

\* What the sessions of a task are paid from, in the loop and outside it.
PaidInLoop(t) ==
  launched[t] + Coming(t) <=
    Holds(t) + Logged("task_retried", t) + Logged("task_handoff", t) + 2 * downs
Paid(t) ==
  launched[t] <=
    OneIf(status[t] \in Terminal) + Count("task_retried", t) + Count("task_handoff", t) + 2 * downs

LEMMA SpentWrites ==
  ASSUME RecInv, Bounds, Coherent, mode \in {"loop", "stopping"}, Writes, UNCHANGED downs,
         NEW t \in Tasks, PaidInLoop(t)
  PROVE  PaidInLoop(t)'
  <1>1. Types /\ launched \in [Tasks -> Nat] /\ downs \in Nat
    BY DEF RecInv, Bounds
  <1>2. /\ Logged("task_retried", t)' = Logged("task_retried", t)
        /\ Logged("task_handoff", t)' = Logged("task_handoff", t)
    BY <1>1, LoggedWrites DEF CounterKinds
  <1>3. Logged("task_retried", t) \in Nat /\ Logged("task_handoff", t) \in Nat
    BY <1>1, CountNext, Constants, Ones DEF Logged, Pending
  <1>4. Holds(t) \in Nat /\ Holds(t)' \in Nat /\ Holds(t) <= Holds(t)'
    BY WritesOccupied DEF Holds, OneIf
  <1>5. Coming(t) \in Nat /\ Coming(t)' \in Nat
    BY Ones DEF Coming
  <1>6. launched'[t] + Coming(t)' <= launched[t] + Coming(t)
    <2>1. CASE \E w \in Workers, u \in Tasks : WritesSession(w, u)
      <3>1. PICK w \in Workers, u \in Tasks : WritesSession(w, u)
        BY <2>1
      <3>2. /\ Shifts /\ steps[1].op = "session" /\ steps[1].task = u
            /\ launched' = OneMore(launched, u)
        BY <3>1 DEF WritesSession
      <3>3. Launches(t)' <=> Launches(t) /\ t # u
        BY <3>2, ShiftedLaunches DEF Coherent
      <3>4. t = u => Launches(t)
        BY <3>2 DEF Launches, Shifts
      <3>5. launched'[t] = launched[t] + OneIf(t = u)
        BY <1>1, <3>2, CountersOfFunctions DEF OneIf
      <3>6. QED
        BY <1>1, <3>3, <3>4, <3>5 DEF Coming, OneIf
    <2>2. CASE UNCHANGED <<launched, steps>>
      <3>1. Coming(t)' = Coming(t)
        BY <2>2 DEF Coming, Launches
      <3>2. QED
        BY <1>1, <1>5, <2>2, <3>1
    <2>3. CASE UNCHANGED launched /\ Shifts
      <3>1. Launches(t)' => Launches(t)
        BY <2>3, ShiftedLaunches DEF Coherent
      <3>2. QED
        BY <1>1, <2>3, <3>1 DEF Coming, OneIf
    <2>4. QED
      BY <2>1, <2>2, <2>3 DEF Writes, WritesTask, WritesOther, WritesEvent, Blocks
  <1>7. launched'[t] \in Nat
    BY <1>1, WritesLaunched
  <1>8. QED
    BY <1>1, <1>2, <1>3, <1>4, <1>5, <1>6, <1>7 DEF PaidInLoop

LEMMA SpentBegins ==
  ASSUME RecInv, Bounds, NEW t \in Tasks, NEW w \in Workers, Begins(t, w), NEW u \in Tasks, PaidInLoop(u)
  PROVE  PaidInLoop(u)'
  <1>1. /\ Types /\ Len(steps) = 0 /\ steps = <<>> /\ UNCHANGED <<log, status, launched, downs>>
        /\ launched \in [Tasks -> Nat] /\ downs \in Nat
    BY DEF RecInv, Begins, Bounds
  <1> DEFINE r == Count("task_retried", u)  h == Count("task_handoff", u)
             o == status[u] \in Running \cup Terminal
  <1>2. r \in Nat /\ h \in Nat /\ r' = r /\ h' = h
    BY <1>1, CountNext, Constants
  <1>3. Logged("task_retried", u) = r /\ Logged("task_handoff", u) = h /\ Coming(u) = 0
    BY <1>1, <1>2, NoneAwaited, Ones DEF Logged, Pending, Coming
  <1>4. Holds(u) = OneIf(o)
    BY <1>1 DEF Holds, Occupied, Claims, GivesBack, OneIf
  <1>5. launched[u] <= OneIf(o) + r + h + 2 * downs
    BY <1>1, <1>2, <1>3, <1>4, Ones DEF PaidInLoop
  <1>6. /\ Logged("task_retried", u)' = r + OneIf(Awaits("task_retried", u))'
        /\ Logged("task_handoff", u)' = h + OneIf(Awaits("task_handoff", u))'
        /\ Coming(u)' = OneIf(Launches(u))' /\ Holds(u)' = OneIf(Occupied(u))'
    BY <1>2 DEF Logged, Pending, Coming, Holds
  <1>7. SUFFICES launched[u] + OneIf(Launches(u))' <=
                   OneIf(Occupied(u))' + (r + OneIf(Awaits("task_retried", u))')
                     + (h + OneIf(Awaits("task_handoff", u))') + 2 * downs
    BY <1>1, <1>6 DEF PaidInLoop
  <1>8. Occupied(u)' <=> (o \/ Claims(u)') /\ ~GivesBack(u)'
    BY <1>1 DEF Occupied
  <1>9. launched[u] \in Nat
    BY <1>1
  <1> HIDE DEF r, h
  <1>10. CASE u # t /\ ~GivesBack(u)' /\ ~Launches(u)'
    BY <1>1, <1>2, <1>5, <1>8, <1>9, <1>10 DEF OneIf
  <1>11. CASE Assigns(steps', t, w) /\ status[t] = "open"
    <2>1. ~GivesBack(u)' /\ (Launches(u)' <=> u = t) /\ Claims(t)'
      BY <1>11, AssignsShape
    <2>2. u = t => ~o
      BY <1>11, Constants
    <2>3. QED
      BY <1>1, <1>2, <1>5, <1>8, <1>9, <1>10, <2>1, <2>2 DEF OneIf
  <1>12. CASE Restarts(steps', t, w) /\ status[t] \in Running
    <2>1. /\ ~GivesBack(u)' /\ (Launches(u)' <=> u = t)
          /\ Awaits("task_handoff", u)' <=> u = t
      BY <1>12, RestartsShape
    <2>2. u = t => o
      BY <1>12
    <2>3. QED
      BY <1>1, <1>2, <1>5, <1>8, <1>9, <1>10, <2>1, <2>2 DEF OneIf
  <1>13. CASE Retries(steps', t, w)
    <2>1. /\ ~Launches(u)' /\ (GivesBack(u)' => u = t)
          /\ Awaits("task_retried", u)' <=> u = t
      BY <1>13, RetriesShape
    <2>2. QED
      BY <1>1, <1>2, <1>5, <1>8, <1>9, <1>10, <2>1 DEF OneIf
  <1>14. CASE (Completes(steps', t, w) \/ Fails(steps', t, w)) /\ status[t] \in Running
    <2>1. ~Launches(u)' /\ ~GivesBack(u)'
      BY <1>14, EndsShape
    <2>2. QED
      BY <1>1, <1>2, <1>5, <1>8, <1>9, <2>1 DEF OneIf
  <1>15. QED
    BY <1>11, <1>12, <1>13, <1>14 DEF Begins

LEMMA SpentDrops ==
  ASSUME RecInv, Bounds, NEW t \in Tasks, NEW w \in Workers, Drops(t, w), NEW u \in Tasks, PaidInLoop(u)
  PROVE  PaidInLoop(u)'
  <1>1. /\ Types /\ UNCHANGED <<log, status, launched, downs>>
        /\ launched \in [Tasks -> Nat] /\ downs \in Nat
    BY DEF RecInv, Drops, Bounds
  <1> DEFINE r == Count("task_retried", u)  h == Count("task_handoff", u)
             o == status[u] \in Running \cup Terminal
  <1>2. r \in Nat /\ h \in Nat /\ r' = r /\ h' = h
    BY <1>1, CountNext, Constants
  <1>3. /\ ~Awaits("task_retried", u) /\ ~Awaits("task_handoff", u)
        /\ ~Awaits("task_retried", u)' /\ ~Awaits("task_handoff", u)' /\ ~Launches(u)'
    BY DropsShape
  <1>4. (Occupied(u) <=> o) /\ (Occupied(u)' <=> o)
    BY <1>1, DropsShape DEF Occupied
  <1>5. /\ Logged("task_retried", u) = r /\ Logged("task_handoff", u) = h
        /\ Logged("task_retried", u)' = r /\ Logged("task_handoff", u)' = h
        /\ Coming(u) \in {0, 1} /\ Coming(u)' = 0
    BY <1>2, <1>3 DEF Logged, Pending, Coming, OneIf
  <1>6. Holds(u) \in {0, 1} /\ Holds(u)' = Holds(u)
    BY <1>4 DEF Holds, OneIf
  <1>7. launched[u] \in Nat
    BY <1>1
  <1> HIDE DEF r, h
  <1>8. QED
    BY <1>1, <1>2, <1>5, <1>6, <1>7 DEF PaidInLoop

LEMMA SpentDies ==
  ASSUME RecInv, Bounds, Coherent, Dies, NEW t \in Tasks,
         IF mode \in {"loop", "stopping"} THEN PaidInLoop(t) ELSE Paid(t)
  PROVE  Paid(t)'
  <1>1. /\ Types /\ UNCHANGED <<log, status, launched>> /\ downs' = downs + 1
        /\ launched \in [Tasks -> Nat] /\ downs \in Nat
    BY DEF RecInv, Dies, Bounds
  <1> DEFINE r == Count("task_retried", t)  h == Count("task_handoff", t)
             e == OneIf(status[t] \in Terminal)
  <1>2. r \in Nat /\ h \in Nat /\ r' = r /\ h' = h
    BY <1>1, CountNext, Constants
  <1>3. e \in Nat /\ e' = e
    BY <1>1 DEF OneIf
  <1>4. launched[t] <= e + r + h + 2 * downs + 2
    <2>1. CASE mode \notin {"loop", "stopping"}
      <3>1. launched[t] <= e + r + h + 2 * downs
        BY <2>1 DEF Paid
      <3> HIDE DEF e, r, h
      <3>2. QED
        BY <1>1, <1>2, <1>3, <3>1
    <2>2. CASE mode \in {"loop", "stopping"}
      <3>1. launched[t] + Coming(t) <=
              Holds(t) + (r + OneIf(Awaits("task_retried", t))) + (h + OneIf(Awaits("task_handoff", t)))
                + 2 * downs
        BY <2>2 DEF PaidInLoop, Logged, Pending
      <3>2. ~(Awaits("task_retried", t) /\ Awaits("task_handoff", t))
        <4>1. SUFFICES ASSUME NEW i \in 1..Len(steps), NEW j \in 1..Len(steps),
                              steps[i] = EmitStep("task_retried", t), steps[j] = EmitStep("task_handoff", t)
                       PROVE  FALSE
          BY DEF Awaits
        <4>2. /\ Emits(i, CounterKinds) /\ Emits(j, CounterKinds) /\ i # j
          BY <4>1, StepFields DEF Emits, CounterKinds
        <4>3. QED
          BY <4>2 DEF Coherent, OnlyOne
      <3>3. OneIf(Awaits("task_retried", t)) + OneIf(Awaits("task_handoff", t)) <= 1
        BY <3>2 DEF OneIf
      <3>4. /\ Coming(t) \in {0, 1} /\ Holds(t) \in {0, 1} /\ OneIf(Awaits("task_retried", t)) \in {0, 1}
            /\ OneIf(Awaits("task_handoff", t)) \in {0, 1}
        BY Ones DEF Coming, Holds
      <3> HIDE DEF e, r, h
      <3>5. QED
        BY <1>1, <1>2, <1>3, <3>1, <3>3, <3>4
    <2>3. QED
      BY <2>1, <2>2
  <1>5. QED
    BY <1>1, <1>2, <1>3, <1>4 DEF Paid

LEMMA SpentNext ==
  ASSUME RecInv, Bounds, Lasting, Coherent, Spent, CalmStep
  PROVE  Spent'
  <1> DEFINE L == mode \in {"loop", "stopping"}
  <1>1. SUFFICES ASSUME Once', NEW t \in Tasks
                 PROVE  IF L' THEN PaidInLoop(t)' ELSE Paid(t)'
    BY DEF Spent, PaidInLoop, Paid
  <1>2. Effect /\ Types /\ launched \in [Tasks -> Nat] /\ downs \in Nat
    BY Effects DEF RecInv, Bounds
  <1>3. /\ Once /\ reopens = {} /\ ~(\E u \in Tasks : HumanReopens(u)) /\ (Run \/ Seed => Nothing)
    BY <1>1, OnceStays
  <1>4. IF L THEN PaidInLoop(t) ELSE Paid(t)
    BY <1>3 DEF Spent, PaidInLoop, Paid
  <1> DEFINE r == Count("task_retried", t)  h == Count("task_handoff", t)
             e == OneIf(status[t] \in Terminal)
  <1>5. /\ r \in Nat /\ h \in Nat
        /\ UNCHANGED log => r' = r /\ h' = h
    BY <1>2, CountNext, Constants
  <1>6. CASE \E u \in Tasks, w \in Workers : Begins(u, w) \/ Drops(u, w)
    <2>1. L /\ L'
      BY <1>6 DEF Begins, Drops
    <2>2. QED
      BY <1>4, <1>6, <2>1, SpentBegins, SpentDrops
  <1>7. CASE Writes /\ L /\ UNCHANGED <<mode, downs>>
    BY <1>4, <1>7, SpentWrites
  <1>8. CASE Dies
    <2>1. ~L'
      BY <1>8 DEF Dies
    <2>2. QED
      BY <1>4, <1>8, <2>1, SpentDies
  <1>9. CASE Run \/ Seed
    <2>1. Nothing /\ UNCHANGED <<launched, downs, log>>
      BY <1>3, <1>9 DEF Run, Seed, history
    <2>2. launched'[t] = 0 /\ downs' \in Nat /\ r' \in Nat /\ h' \in Nat
      BY <1>2, <1>5, <2>1 DEF Nothing
    <2>3. Paid(t)'
      BY <2>2, Ones DEF Paid
    <2>4. Len(steps') = 0
      BY <1>9, NoSteps DEF Run, Seed
    <2>5. Coming(t)' = 0 /\ Logged("task_retried", t)' \in Nat /\ Logged("task_handoff", t)' \in Nat
      BY <2>2, <2>4, NoneAwaitedNext, Ones DEF Coming, Logged, Pending
    <2>6. Holds(t)' \in {0, 1}
      BY Ones DEF Holds
    <2>7. PaidInLoop(t)'
      BY <2>2, <2>5, <2>6 DEF PaidInLoop
    <2>8. QED
      BY <2>3, <2>7
  <1>10. CASE /\ UNCHANGED <<log, launched, downs, steps>> /\ (L' <=> L)
              /\ status'[t] \in Terminal <=> status[t] \in Terminal
              /\ L => (status'[t] \in Running <=> status[t] \in Running)
    <2>1. CASE L
      <3>1. Occupied(t)' <=> Occupied(t)
        BY <1>10, <2>1 DEF Occupied, Claims, GivesBack
      <3>2. /\ Coming(t)' = Coming(t) /\ Holds(t)' = Holds(t)
            /\ Logged("task_retried", t)' = Logged("task_retried", t)
            /\ Logged("task_handoff", t)' = Logged("task_handoff", t)
        BY <1>5, <1>10, <3>1 DEF Coming, Launches, Holds, OneIf, Logged, Pending, Awaits
      <3>3. QED
        BY <1>4, <1>10, <2>1, <3>2 DEF PaidInLoop
    <2>2. CASE ~L
      <3>1. e' = e
        BY <1>10 DEF OneIf
      <3>2. QED
        BY <1>4, <1>5, <1>10, <2>2, <3>1 DEF Paid
    <2>3. QED
      BY <2>1, <2>2
  <1>11. CASE Quiet \/ Recover \/ ResolveReopen \/ EditWorkOrder
    <2>1. UNCHANGED <<log, launched, downs, steps, status>> /\ (L' <=> L)
      BY <1>3, <1>11 DEF Quiet, Recover, ResolveReopen, EditWorkOrder, ledger, history
    <2>2. QED
      BY <1>10, <2>1
  <1>12. CASE Resets
    <2>1. UNCHANGED <<log, launched, downs, steps>> /\ ~L /\ ~L'
      BY <1>12 DEF Resets
    <2>2. status'[t] \in Terminal <=> status[t] \in Terminal
      BY <1>2, <1>12, Constants DEF Resets, Types, Typed
    <2>3. QED
      BY <1>10, <2>1, <2>2
  <1>13. CASE \E w \in Workers : AgentPlans(w)
    <2>1. /\ UNCHANGED <<log, launched, downs, steps, mode>>
          /\ status'[t] = IF status[t] = "absent" THEN "open" ELSE status[t]
      BY <1>13 DEF AgentPlans
    <2>2. QED
      BY <1>10, <2>1 DEF Terminal, Running
  <1>14. CASE Replay
    <2>1. UNCHANGED <<log, launched, downs, status>> /\ ~L /\ L'
      BY <1>14 DEF Replay, ledger, history
    <2>2. ~Launches(t)' /\ ~GivesBack(t)'
      BY <1>14, ReplayAwaits
    <2>3. ~Awaits("task_retried", t)' /\ ~Awaits("task_handoff", t)'
      BY <1>14, ReplayAwaits DEF GraphKinds
    <2>4. Coming(t)' = 0 /\ Logged("task_retried", t)' = r /\ Logged("task_handoff", t)' = h
      BY <1>5, <2>1, <2>2, <2>3 DEF Coming, Logged, Pending, OneIf
    <2>5. e \in Nat /\ Holds(t)' \in Nat /\ e <= Holds(t)'
      BY <2>1, <2>2 DEF Holds, Occupied, OneIf
    <2>6. launched[t] <= e + r + h + 2 * downs
      BY <1>4, <2>1 DEF Paid
    <2>7. launched[t] \in Nat
      BY <1>2
    <2> HIDE DEF e, r, h
    <2>8. PaidInLoop(t)'
      BY <1>2, <1>5, <2>1, <2>4, <2>5, <2>6, <2>7 DEF PaidInLoop
    <2>9. QED
      BY <2>1, <2>8
  <1>15. QED
    BY <1>2, <1>3, <1>6, <1>7, <1>8, <1>9, <1>11, <1>12, <1>13, <1>14 DEF Effect

LEMMA SpentCrashCost ==
  ASSUME Types, Bounds, Budgeted, Spent PROVE CrashCost
  <1>1. SUFFICES ASSUME humanReopens = 0, runs <= 1, NEW t \in Tasks
                 PROVE  launched[t] <= 1 + MaxRetries + MaxHandoffs + 2 * downs
    BY DEF CrashCost
  <1>2. Once /\ launched[t] \in Nat /\ downs \in Nat /\ MaxRetries \in Nat /\ MaxHandoffs \in Nat
    BY <1>1, RecoveryAssumption DEF Once, Bounds
  <1> DEFINE r == Count("task_retried", t)  h == Count("task_handoff", t)
  <1>3. /\ r \in Nat /\ h \in Nat
    BY CountNext, Constants
  <1>4. /\ Logged("task_retried", t) \in Nat /\ r <= Logged("task_retried", t)
        /\ Logged("task_handoff", t) \in Nat /\ h <= Logged("task_handoff", t)
    BY <1>3, Ones DEF Logged, Pending
  <1>5. Logged("task_retried", t) <= MaxRetries /\ Logged("task_handoff", t) <= MaxHandoffs
    BY <1>2 DEF Budgeted
  <1>6. Coming(t) \in {0, 1} /\ Holds(t) \in {0, 1} /\ OneIf(status[t] \in Terminal) \in {0, 1}
    BY Ones DEF Coming, Holds
  <1>7. CASE mode \in {"loop", "stopping"}
    <2>1. launched[t] + Coming(t) <=
            Holds(t) + Logged("task_retried", t) + Logged("task_handoff", t) + 2 * downs
      BY <1>2, <1>7 DEF Spent
    <2>2. QED
      BY <1>2, <1>4, <1>5, <1>6, <2>1
  <1>8. CASE mode \notin {"loop", "stopping"}
    <2>1. launched[t] <= OneIf(status[t] \in Terminal) + r + h + 2 * downs
      BY <1>2, <1>8 DEF Spent
    <2> HIDE DEF r, h
    <2>2. QED
      BY <1>2, <1>3, <1>4, <1>5, <1>6, <2>1
  <1>9. QED
    BY <1>7, <1>8

-----------------------------------------------------------------------------
(* Counted *)

LEMMA GapsNext ==
  ASSUME Types
  PROVE  /\ RecoveredGaps \in Nat
         /\ UNCHANGED log => RecoveredGaps' = RecoveredGaps
         /\ \A k, t : Appends(k, t) => RecoveredGaps' = RecoveredGaps + OneIf(k = "gap_recorded")
  <1> DEFINE S == {i \in DOMAIN log : log[i].kind = "gap_recorded"}
             T == {i \in DOMAIN log' : log'[i].kind = "gap_recorded"}
  <1>1. /\ IsFiniteSet(S) /\ Cardinality(S) \in Nat
    <2>1. DOMAIN log = 1..Len(log) /\ Len(log) \in Nat
      BY LenProperties DEF Types
    <2>2. IsFiniteSet(DOMAIN log)
      BY <2>1, FS_Interval
    <2>3. QED
      BY <2>2, FS_Subset, FS_CardinalityType
  <1>2. UNCHANGED log => T = S
    OBVIOUS
  <1>3. ASSUME NEW k, NEW t, Appends(k, t)
        PROVE  Cardinality(T) = Cardinality(S) + OneIf(k = "gap_recorded")
    <2> DEFINE n == Len(log) + 1
    <2>1. n \notin S
      BY <1>3 DEF Appends
    <2>2. T = IF k = "gap_recorded" THEN S \cup {n} ELSE S
      <3>1. DOMAIN log' = DOMAIN log \cup {n}
        BY <1>3 DEF Appends
      <3>2. log'[n].kind = k
        BY <1>3, EventFields DEF Appends
      <3>3. QED
        BY <1>3, <2>1, <3>1, <3>2 DEF Appends
    <2> HIDE DEF n, S, T
    <2>3. Cardinality(S \cup {n}) = Cardinality(S) + 1
      BY <1>1, <2>1, FS_AddElement
    <2>4. CASE k = "gap_recorded"
      BY <2>2, <2>3, <2>4 DEF OneIf
    <2>5. CASE k # "gap_recorded"
      BY <1>1, <2>2, <2>5 DEF OneIf
    <2>6. QED
      BY <2>4, <2>5
  <1>4. QED
    BY <1>1, <1>2, <1>3 DEF RecoveredGaps

LEMMA GappedNext ==
  ASSUME RecInv, GapsGapped, CalmStep
  PROVE  GapsGapped'
  <1>1. /\ Types /\ IsFiniteSet(Gapped) /\ Cardinality(Gapped) <= RecoveredGaps
        /\ Cardinality(Gapped) \in Nat
    BY FS_CardinalityType DEF RecInv, GapsGapped
  <1>2. /\ RecoveredGaps \in Nat
        /\ UNCHANGED log => RecoveredGaps' = RecoveredGaps
        /\ \A k, t : Appends(k, t) => RecoveredGaps' = RecoveredGaps + OneIf(k = "gap_recorded")
    BY <1>1, GapsNext
  <1>3. CASE UNCHANGED log
    <2>1. Gapped' = Gapped
      BY <1>3 DEF Gapped
    <2>2. QED
      BY <1>1, <1>2, <1>3, <2>1 DEF GapsGapped
  <1>4. ASSUME NEW k \in Kinds, NEW t \in Tasks, Appends(k, t) PROVE GapsGapped'
    <2>1. Gapped' = IF k = "gap_recorded" THEN Gapped \cup {t} ELSE Gapped
      <3>1. \A u : Event(k, t) = Event("gap_recorded", u) <=> k = "gap_recorded" /\ u = t
        BY EventFields
      <3>2. Len(log) + 1 \in DOMAIN log' /\ log'[Len(log) + 1] = Event(k, t)
        BY <1>4 DEF Appends
      <3>3. \A i \in DOMAIN log' : (i \in DOMAIN log /\ log'[i] = log[i]) \/ log'[i] = Event(k, t)
        BY <1>4 DEF Appends
      <3>4. \A i \in DOMAIN log : i \in DOMAIN log' /\ log'[i] = log[i]
        BY <1>4 DEF Appends
      <3>5. QED
        BY <3>1, <3>2, <3>3, <3>4 DEF Gapped
    <2>2. RecoveredGaps' = RecoveredGaps + OneIf(k = "gap_recorded")
      BY <1>2, <1>4
    <2>3. IsFiniteSet(Gapped \cup {t}) /\ Cardinality(Gapped \cup {t}) <= Cardinality(Gapped) + 1
      <3>1. /\ IsFiniteSet(Gapped \cup {t})
            /\ Cardinality(Gapped \cup {t}) = IF t \in Gapped THEN Cardinality(Gapped)
                                              ELSE Cardinality(Gapped) + 1
        BY <1>1, FS_AddElement
      <3>2. CASE t \in Gapped
        BY <1>1, <3>1, <3>2
      <3>3. CASE t \notin Gapped
        BY <1>1, <3>1, <3>3
      <3>4. QED
        BY <3>1, <3>2, <3>3
    <2>4. CASE k = "gap_recorded"
      <3>1. Cardinality(Gapped \cup {t}) \in Nat
        BY <2>3, FS_CardinalityType
      <3>2. QED
        BY <1>1, <1>2, <2>1, <2>2, <2>3, <2>4, <3>1 DEF GapsGapped, OneIf
    <2>5. CASE k # "gap_recorded"
      BY <1>1, <1>2, <2>1, <2>2, <2>5 DEF GapsGapped, OneIf
    <2>6. QED
      BY <2>4, <2>5
  <1>5. QED
    BY <1>3, <1>4, LogNext, Constants

\* Only the terminal failure of a task that is not critical is a gap.
LEMMA BeginsGap ==
  ASSUME NEW t \in Tasks, NEW w \in Workers, Begins(t, w), NEW u, Awaits("gap_recorded", u)'
  PROVE  t \notin Critical /\ gaps' = gaps + 1
  <1>1. PICK i \in 1..Len(steps') : steps'[i].op = "emit" /\ steps'[i].arg = "gap_recorded"
    BY StepFields DEF Awaits
  <1>2. ~Assigns(steps', t, w) /\ ~Restarts(steps', t, w) /\ ~Retries(steps', t, w)
    BY AssignsShape, RestartsShape, RetriesShape
  <1>3. ~Completes(steps', t, w)
    <2>1. SUFFICES ASSUME Completes(steps', t, w) PROVE FALSE
      OBVIOUS
    <2>2. /\ steps'[1].op = "task" /\ steps'[2].op = "worker" /\ steps'[3].arg = "task_completed"
      BY <2>1, StepFields DEF Completes
    <2>3. i > 3
      BY <1>1, <2>2
    <2>4. CASE Len(steps') = 3
      BY <2>3, <2>4
    <2>5. CASE Len(steps') = 4 /\ steps'[4] = EmitStep("graph_validated", Planner)
      <3>1. i = 4
        BY <2>3, <2>5
      <3>2. QED
        BY <1>1, <2>5, <3>1, StepFields
    <2>6. CASE /\ Len(steps') = 6 /\ steps'[4] = EscalateStep
               /\ steps'[5] = EmitStep("graph_invalid", Planner) /\ steps'[6] = BlockStep
      <3>1. i \in {4, 5, 6}
        BY <2>3, <2>6
      <3>2. steps'[4].op = "escalate" /\ steps'[5].arg = "graph_invalid" /\ steps'[6].op = "block"
        BY <2>6, StepFields
      <3>3. QED
        BY <1>1, <3>1, <3>2
    <2>7. QED
      BY <2>1, <2>4, <2>5, <2>6 DEF Completes
  <1>4. Fails(steps', t, w) /\ gaps' = IF t \in Critical THEN gaps ELSE gaps + 1
    BY <1>2, <1>3 DEF Begins
  <1>5. t \notin Critical
    <2>1. SUFFICES ASSUME t \in Critical PROVE FALSE
      OBVIOUS
    <2>2. Len(steps') = 4 /\ steps'[4] = BlockStep
      BY <1>4, <2>1 DEF Fails
    <2>3. /\ steps'[1].op = "task" /\ steps'[2].op = "worker" /\ steps'[3].arg # "gap_recorded"
          /\ steps'[4].op = "block"
      BY <1>4, <2>2, StepFields DEF Fails
    <2>4. i \in {1, 2, 3, 4}
      BY <2>2
    <2>5. QED
      BY <1>1, <2>3, <2>4
  <1>6. QED
    BY <1>4, <1>5

\* A handler that gives up a task that is not critical is going to log its gap.
LEMMA BeginsFallen ==
  ASSUME NEW t \in Tasks, NEW w \in Workers, Begins(t, w), NEW u \in Tasks \ Critical,
         NEW k \in {"task_failed", "task_blocked"}, Awaits(k, u)'
  PROVE  Awaits("gap_recorded", u)'
  <1>1. PICK i \in 1..Len(steps') : steps'[i] = EmitStep(k, u)
    BY DEF Awaits
  <1>2. steps'[i].op = "emit" /\ steps'[i].arg = k /\ steps'[i].task = u
    BY <1>1, StepFields
  <1>3. ~Assigns(steps', t, w) /\ ~Restarts(steps', t, w) /\ ~Retries(steps', t, w)
    BY AssignsShape, RestartsShape, RetriesShape
  <1>4. ~Completes(steps', t, w)
    <2>1. SUFFICES ASSUME Completes(steps', t, w) PROVE FALSE
      OBVIOUS
    <2>2. steps'[1].op = "task" /\ steps'[2].op = "worker" /\ steps'[3].arg = "task_completed"
      BY <2>1, StepFields DEF Completes
    <2>3. i > 3
      BY <1>2, <2>2
    <2>4. CASE Len(steps') = 3
      BY <2>3, <2>4
    <2>5. CASE Len(steps') = 4 /\ steps'[4] = EmitStep("graph_validated", Planner)
      <3>1. i = 4
        BY <2>3, <2>5
      <3>2. QED
        BY <1>2, <2>5, <3>1, StepFields
    <2>6. CASE /\ Len(steps') = 6 /\ steps'[4] = EscalateStep
               /\ steps'[5] = EmitStep("graph_invalid", Planner) /\ steps'[6] = BlockStep
      <3>1. i \in {4, 5, 6}
        BY <2>3, <2>6
      <3>2. steps'[4].op = "escalate" /\ steps'[5].arg = "graph_invalid" /\ steps'[6].op = "block"
        BY <2>6, StepFields
      <3>3. QED
        BY <1>2, <3>1, <3>2
    <2>7. QED
      BY <2>1, <2>4, <2>5, <2>6 DEF Completes
  <1>5. Fails(steps', t, w)
    BY <1>3, <1>4 DEF Begins
  <1>6. Len(steps') \in {4, 5} /\ (Len(steps') = 5 => steps'[5].op = "block")
    BY <1>5, StepFields DEF Fails
  <1>7. /\ steps'[1].op = "task" /\ steps'[2].op = "worker" /\ steps'[3].task = t
        /\ steps'[4].op = "block" \/ (steps'[4].op = "emit" /\ steps'[4].arg = "gap_recorded")
    BY <1>5, StepFields DEF Fails
  <1>8. i \in {1, 2, 3, 4, 5} /\ (i = 5 => Len(steps') = 5)
    <2>1. CASE Len(steps') = 4
      BY <2>1
    <2>2. CASE Len(steps') = 5
      BY <2>2
    <2>3. QED
      BY <1>6, <2>1, <2>2
  <1>9. i = 3
    BY <1>2, <1>6, <1>7, <1>8
  <1>10. u = t /\ t \notin Critical
    BY <1>2, <1>7, <1>9
  <1>11. steps'[4] = EmitStep("gap_recorded", t) /\ 4 \in 1..Len(steps')
    BY <1>5, <1>6, <1>10 DEF Fails
  <1>12. QED
    BY <1>10, <1>11 DEF Awaits

\* No write loses a gap: what was about to be logged as failed has been counted already.
LEMMA WritesLost ==
  ASSUME Types, Coherent, Writes
  PROVE  Lost' \subseteq Lost
  <1>1. OnlyOne({"gap_recorded"})
    BY DEF Coherent
  <1>2. CASE UNCHANGED <<log, steps>>
    BY <1>2 DEF Lost, Fallen, Failed, Gapped, Awaits
  <1>3. ASSUME Shifts, NEW k, NEW u, Awaits(k, u)' PROVE Awaits(k, u)
    <2>1. PICK i \in 1..Len(steps') : steps'[i] = EmitStep(k, u)
      BY <1>3 DEF Awaits
    <2>2. i + 1 \in 1..Len(steps) /\ steps[i + 1] = EmitStep(k, u)
      BY <1>3, <2>1 DEF Shifts
    <2>3. QED
      BY <2>2 DEF Awaits
  <1>4. CASE UNCHANGED log /\ Shifts /\ steps[1].op # "emit"
    <2>1. \A u : Awaits("gap_recorded", u) => Awaits("gap_recorded", u)'
      BY <1>1, <1>4, ShiftedAwaits, StepFields
    <2>2. Gapped' = Gapped /\ \A u : Failed(u)' <=> Failed(u)
      BY <1>4 DEF Gapped, Failed
    <2>3. \A u : Fallen(u)' => Fallen(u)
      BY <1>3, <1>4, <2>2 DEF Fallen
    <2>4. QED
      BY <2>1, <2>2, <2>3 DEF Lost
  <1>5. ASSUME NEW k \in Kinds, NEW t \in Tasks, WritesEvent(k, t) PROVE Lost' \subseteq Lost
    <2>1. Appends(k, t) /\ Shifts /\ steps[1] = EmitStep(k, t) /\ 1 \in 1..Len(steps)
      BY <1>5, AppendAppends DEF WritesEvent, Shifts
    <2>2. Awaits(k, t)
      BY <2>1 DEF Awaits
    <2>3. \A i \in DOMAIN log' : (i \in DOMAIN log /\ log'[i] = log[i]) \/ log'[i] = Event(k, t)
      BY <2>1 DEF Appends
    <2>4. \A i \in DOMAIN log : i \in DOMAIN log' /\ log'[i] = log[i]
      BY <2>1 DEF Appends
    <2>5. Len(log) + 1 \in DOMAIN log' /\ log'[Len(log) + 1] = Event(k, t)
      BY <2>1 DEF Appends
    <2>6. Gapped \subseteq Gapped' /\ (k = "gap_recorded" => t \in Gapped')
      BY <2>4, <2>5 DEF Gapped
    <2>7. \A u : Failed(u)' => Failed(u) \/ (u = t /\ k \in {"task_failed", "task_blocked"})
      BY <2>3, EventFields DEF Failed
    <2>8. \A u : Awaits("gap_recorded", u) => Awaits("gap_recorded", u)' \/ (k = "gap_recorded" /\ u = t)
      <3>1. ASSUME NEW u, Awaits("gap_recorded", u), ~Awaits("gap_recorded", u)'
            PROVE  k = "gap_recorded" /\ u = t
        <4>1. steps[1] = EmitStep("gap_recorded", u)
          BY <1>1, <2>1, <3>1, ShiftedAwaits
        <4>2. EmitStep(k, t).arg = k /\ EmitStep(k, t).task = t
          BY StepFields
        <4>3. EmitStep("gap_recorded", u).arg = "gap_recorded" /\ EmitStep("gap_recorded", u).task = u
          BY StepFields
        <4>4. QED
          BY <2>1, <4>1, <4>2, <4>3
      <3>2. QED
        BY <3>1
    <2>9. \A u : Fallen(u)' => Fallen(u)
      BY <1>3, <2>1, <2>2, <2>7 DEF Fallen
    <2>10. QED
      BY <2>6, <2>8, <2>9 DEF Lost
  <1>6. QED
    BY <1>2, <1>4, <1>5 DEF Writes, WritesTask, WritesOther, WritesSession, Blocks

LEMMA LostNext ==
  ASSUME RecInv, Bounds, Coherent, FewLost, CalmStep
  PROVE  FewLost'
  <1>1. /\ Effect /\ Types /\ downs \in Nat /\ spawnFailures \in Nat
        /\ IsFiniteSet(Lost) /\ Cardinality(Lost) <= downs + spawnFailures
    BY Effects DEF RecInv, Bounds, FewLost, CalmStep
  <1>0. spawnFailures' \in Nat /\ spawnFailures' >= spawnFailures
    BY FaultsNext DEF CalmStep, Faults
  <1>2. Cardinality(Lost) \in Nat
    BY <1>1, FS_CardinalityType
  <1>3. ASSUME Lost' \subseteq Lost, downs' = downs PROVE FewLost'
    <2>1. IsFiniteSet(Lost') /\ Cardinality(Lost') <= Cardinality(Lost)
      BY <1>1, <1>3, FS_Subset
    <2>2. Cardinality(Lost') \in Nat
      BY <2>1, FS_CardinalityType
    <2>3. QED
      BY <1>0, <1>1, <1>2, <1>3, <2>1, <2>2 DEF FewLost
  <1>4. ASSUME UNCHANGED log,
               \A u : Awaits("gap_recorded", u) => Awaits("gap_recorded", u)',
               \A u \in Tasks \ Critical, k \in {"task_failed", "task_blocked"} :
                 Awaits(k, u)' => Awaits(k, u) \/ Awaits("gap_recorded", u)'
        PROVE  Lost' \subseteq Lost
    <2>1. Gapped' = Gapped /\ \A u : Failed(u)' <=> Failed(u)
      BY <1>4 DEF Gapped, Failed
    <2>2. QED
      BY <1>4, <2>1 DEF Lost, Fallen
  <1>5. CASE UNCHANGED <<log, steps, downs>>
    <2>1. \A k, u : Awaits(k, u)' <=> Awaits(k, u)
      BY <1>5 DEF Awaits
    <2>2. QED
      BY <1>3, <1>4, <1>5, <2>1
  <1>6. CASE \E t \in Tasks, w \in Workers : Begins(t, w)
    <2>1. UNCHANGED <<log, downs>> /\ Len(steps) = 0
      BY <1>6 DEF Begins
    <2>2. QED
      BY <1>3, <1>4, <1>6, <2>1, NoneAwaited, BeginsFallen
  <1>7. CASE Writes /\ UNCHANGED downs
    BY <1>1, <1>3, <1>7, WritesLost
  <1>8. CASE Dies
    <2>1. UNCHANGED log /\ downs' = downs + 1
      BY <1>8 DEF Dies
    <2>2. Gapped' = Gapped /\ \A u : Fallen(u)' => Fallen(u)
      <3>1. Gapped' = Gapped /\ \A u : Failed(u)' <=> Failed(u)
        BY <2>1 DEF Gapped, Failed
      <3>2. Len(steps') = 0
        BY <1>8 DEF Dies
      <3>3. QED
        BY <3>1, <3>2, NoneAwaitedNext DEF Fallen
    <2>3. \A u, v : Awaits("gap_recorded", u) /\ Awaits("gap_recorded", v) => u = v
      <3>1. SUFFICES ASSUME NEW u, NEW v, NEW i \in 1..Len(steps), NEW j \in 1..Len(steps),
                            steps[i] = EmitStep("gap_recorded", u), steps[j] = EmitStep("gap_recorded", v)
                     PROVE  u = v
        BY DEF Awaits
      <3>2. Emits(i, {"gap_recorded"}) /\ Emits(j, {"gap_recorded"})
        BY <3>1, StepFields DEF Emits
      <3>3. i = j
        BY <3>2 DEF Coherent, OnlyOne
      <3>4. QED
        BY <3>1, <3>3, StepFields
    <2>4. PICK v : Lost' \subseteq Lost \cup {v}
      <3>1. CASE \E v : Awaits("gap_recorded", v)
        <4>1. PICK v : Awaits("gap_recorded", v)
          BY <3>1
        <4>2. Lost' \subseteq Lost \cup {v}
          BY <2>2, <2>3, <4>1 DEF Lost
        <4>3. QED
          BY <4>2
      <3>2. CASE ~\E v : Awaits("gap_recorded", v)
        BY <2>2, <3>2 DEF Lost
      <3>3. QED
        BY <3>1, <3>2
    <2>5. IsFiniteSet(Lost \cup {v}) /\ Cardinality(Lost \cup {v}) <= Cardinality(Lost) + 1
      BY <1>1, <1>2, FS_AddElement
    <2>6. IsFiniteSet(Lost') /\ Cardinality(Lost') <= Cardinality(Lost \cup {v})
      BY <2>4, <2>5, FS_Subset
    <2>7. Cardinality(Lost') \in Nat /\ Cardinality(Lost \cup {v}) \in Nat
      BY <2>5, <2>6, FS_CardinalityType
    <2>8. QED
      BY <1>0, <1>1, <1>2, <2>1, <2>5, <2>6, <2>7 DEF FewLost
  <1>9. CASE Replay
    <2>1. UNCHANGED <<log, downs>> /\ Len(steps) = 0
      BY <1>9, NoSteps DEF Replay, history
    <2>2. \A u : \A k \in {"task_failed", "task_blocked"} : ~Awaits(k, u)'
      BY <1>9, ReplayAwaits DEF GraphKinds
    <2>3. \A u : ~Awaits("gap_recorded", u)
      BY <2>1, NoneAwaited
    <2>4. Lost' \subseteq Lost
      BY <1>4, <2>1, <2>2, <2>3
    <2>5. QED
      BY <1>3, <2>1, <2>4
  <1>10. CASE ResolveReopen
    <2>1. UNCHANGED <<steps, downs>>
      BY <1>10 DEF ResolveReopen, history
    <2>2. CASE UNCHANGED log
      BY <1>5, <2>1, <2>2
    <2>3. ASSUME NEW t \in Tasks, Appends("escalation_resolved", t) PROVE Lost' \subseteq Lost
      <3>1. \A i \in DOMAIN log' :
              (i \in DOMAIN log /\ log'[i] = log[i]) \/ log'[i] = Event("escalation_resolved", t)
        BY <2>3 DEF Appends
      <3>2. \A i \in DOMAIN log : i \in DOMAIN log' /\ log'[i] = log[i]
        BY <2>3 DEF Appends
      <3>3. Gapped \subseteq Gapped'
        BY <3>2 DEF Gapped
      <3>4. \A u : Failed(u)' => Failed(u)
        BY <3>1, EventFields DEF Failed
      <3>5. \A k, u : Awaits(k, u)' <=> Awaits(k, u)
        BY <2>1 DEF Awaits
      <3>6. QED
        BY <3>3, <3>4, <3>5 DEF Lost, Fallen
    <2>4. QED
      BY <1>3, <1>10, <2>1, <2>2, <2>3, LogNext DEF ResolveReopen
  <1>11. CASE Quiet \/ Resets \/ Run \/ Seed \/ Recover \/ EditWorkOrder
              \/ (\E w \in Workers : AgentPlans(w)) \/ (\E t \in Tasks : HumanReopens(t))
    <2>1. UNCHANGED <<log, steps, downs>>
      BY <1>11 DEF Quiet, Resets, Run, Seed, Recover, EditWorkOrder, AgentPlans, HumanReopens, history
    <2>2. QED
      BY <1>5, <2>1
  <1>12. CASE \E t \in Tasks, w \in Workers : Drops(t, w)
    <2>1. PICK t \in Tasks, w \in Workers : Drops(t, w)
      BY <1>12
    <2>2. UNCHANGED <<log, downs>> /\ spawnFailures' = spawnFailures + 1
      BY <2>1 DEF Drops
    <2>3. Gapped' = Gapped /\ \A u : Failed(u)' <=> Failed(u)
      BY <2>2 DEF Gapped, Failed
    <2>4. (\A k, u : ~Awaits(k, u)) /\ \A k, u : Awaits(k, u)' <=> k = "task_failed" /\ u = t
      BY <2>1, DropsShape
    <2>5. \A u : Fallen(u)' => Fallen(u) \/ u = t
      BY <2>3, <2>4 DEF Fallen
    <2>6. Lost' \subseteq Lost \cup {t}
      BY <2>3, <2>4, <2>5 DEF Lost
    <2>7. IsFiniteSet(Lost \cup {t}) /\ Cardinality(Lost \cup {t}) <= Cardinality(Lost) + 1
      BY <1>1, <1>2, FS_AddElement
    <2>8. IsFiniteSet(Lost') /\ Cardinality(Lost') <= Cardinality(Lost \cup {t})
      BY <2>6, <2>7, FS_Subset
    <2>9. Cardinality(Lost') \in Nat /\ Cardinality(Lost \cup {t}) \in Nat
      BY <2>7, <2>8, FS_CardinalityType
    <2>10. QED
      BY <1>1, <1>2, <2>2, <2>7, <2>8, <2>9 DEF FewLost
  <1>13. QED
    BY <1>1, <1>6, <1>7, <1>8, <1>9, <1>10, <1>11, <1>12 DEF Effect

\* Nobody re-opens a completed task but the plan task.
LEMMA CompletedStays ==
  ASSUME RecInv, CalmStep, NEW t \in Tasks \ Critical, status[t] = "completed"
  PROVE  status'[t] = "completed"
  <1>1. Effect /\ Types /\ t # Planner
    BY Effects, RecoveryAssumption DEF RecInv
  <1>2. CASE Writes
    BY <1>2, WritesStatus DEF Running
  <1>3. CASE Resets
    BY <1>1, <1>3 DEF Resets, Types, Typed, Running
  <1>4. CASE Seed
    BY <1>1, <1>4 DEF Seed, Types, Typed
  <1>5. CASE \E w \in Workers : AgentPlans(w)
    BY <1>5 DEF AgentPlans
  <1>6. CASE \E u \in Tasks : HumanReopens(u)
    BY <1>1, <1>6 DEF HumanReopens, Types, Typed
  <1>7. CASE UNCHANGED status
    BY <1>7
  <1>8. QED
    BY <1>1, <1>2, <1>3, <1>4, <1>5, <1>6, <1>7
       DEF Effect, Begins, Drops, Quiet, Dies, Run, Recover, ResolveReopen, Replay, EditWorkOrder, ledger

LEMMA CompletedStayNext ==
  ASSUME RecInv, Coherent, CompletedStay, CalmStep
  PROVE  CompletedStay'
  <1>1. Types
    BY DEF RecInv
  <1>2. ASSUME NEW i \in DOMAIN log, log[i].kind = "task_completed", log[i].task \notin Critical
        PROVE  status'[log[i].task] = "completed"
    BY <1>1, <1>2, CompletedStays DEF CompletedStay, Types, Typed
  <1>3. CASE UNCHANGED log
    BY <1>2, <1>3 DEF CompletedStay
  <1>4. ASSUME NEW k \in Kinds, NEW t \in Tasks, Appends(k, t), k = "task_completed" => status'[t] = "completed"
        PROVE  CompletedStay'
    <2>1. \A i \in DOMAIN log' : (i \in DOMAIN log /\ log'[i] = log[i]) \/ log'[i] = Event(k, t)
      BY <1>4 DEF Appends
    <2>2. QED
      BY <1>2, <1>4, <2>1, EventFields DEF CompletedStay
  <1>5. ASSUME NEW k \in Kinds, NEW t \in Tasks, WritesEvent(k, t), k = "task_completed"
        PROVE  status'[t] = "completed"
    <2>1. steps[1].op = "emit" /\ steps[1].arg = k /\ steps[1].task = t /\ 1 \in 1..Len(steps) /\ UNCHANGED status
      BY <1>5, StepFields DEF WritesEvent, Shifts
    <2>2. Announced(1)
      BY <2>1 DEF Coherent
    <2>3. QED
      BY <1>5, <2>1, <2>2 DEF Announced, Emits, WillBe
  <1>6. QED
    BY <1>3, <1>4, <1>5, LogNext, Constants

LEMMA GapsKeptNext ==
  ASSUME RecInv, Bounds, Coherent, GapsKept, CalmStep
  PROVE  GapsKept'
  <1>1. SUFFICES ASSUME mode' \in Recovered, runs' <= 1
                 PROVE  RecoveredGaps' + OneIf(GapPending)' <= gaps'
    BY DEF GapsKept
  <1>2. Effect /\ Types /\ gaps \in Nat /\ runs \in Nat
    BY Effects DEF RecInv, Types, Typed, Bounds
  <1>3. /\ RecoveredGaps \in Nat
        /\ UNCHANGED log => RecoveredGaps' = RecoveredGaps
        /\ \A k, t : Appends(k, t) => RecoveredGaps' = RecoveredGaps + OneIf(k = "gap_recorded")
    BY <1>2, GapsNext
  <1>4. runs <= 1 /\ (Run => runs = 0)
    BY <1>1, <1>2
       DEF Effect, Begins, Drops, Quiet, Resets, Dies, Run, Seed, Recover, ResolveReopen, Replay,
           AgentPlans, HumanReopens, EditWorkOrder, history
  <1>5. mode \in Recovered => RecoveredGaps + OneIf(GapPending) <= gaps
    BY <1>4 DEF GapsKept
  <1>6. CASE UNCHANGED <<log, steps, gaps>> /\ mode \in Recovered
    <2>1. GapPending' <=> GapPending
      BY <1>6 DEF GapPending, Awaits
    <2>2. QED
      BY <1>3, <1>5, <1>6, <2>1 DEF OneIf
  <1>7. CASE \E t \in Tasks, w \in Workers : Begins(t, w)
    <2>1. PICK t \in Tasks, w \in Workers : Begins(t, w)
      BY <1>7
    <2>2. UNCHANGED log /\ mode \in Recovered /\ gaps' \in {gaps, gaps + 1}
      BY <2>1 DEF Begins, Recovered
    <2>3. GapPending' => gaps' = gaps + 1
      BY <2>1, BeginsGap DEF GapPending
    <2>4. RecoveredGaps <= gaps
      BY <1>2, <1>3, <1>5, <2>2, Ones
    <2>5. QED
      BY <1>2, <1>3, <2>2, <2>3, <2>4 DEF OneIf
  <1>0. CASE \E t \in Tasks, w \in Workers : Drops(t, w)
    <2>1. UNCHANGED <<log, gaps>> /\ mode \in Recovered
      BY <1>0 DEF Drops, Recovered
    <2>2. ~GapPending'
      BY <1>0, DropsShape DEF GapPending
    <2>3. QED
      BY <1>2, <1>3, <1>5, <2>1, <2>2 DEF OneIf
  <1>8. CASE Writes /\ mode \in {"loop", "stopping"} /\ UNCHANGED gaps
    <2>1. mode \in Recovered /\ OnlyOne({"gap_recorded"})
      BY <1>8 DEF Recovered, Coherent
    <2>2. CASE UNCHANGED <<log, steps>>
      BY <1>6, <1>8, <2>1, <2>2
    <2>3. CASE UNCHANGED log /\ Shifts
      <3>1. GapPending' => GapPending
        BY <2>1, <2>3, ShiftedAwaits DEF GapPending
      <3>2. QED
        BY <1>2, <1>3, <1>5, <1>8, <2>1, <2>3, <3>1 DEF OneIf
    <2>4. ASSUME NEW k \in Kinds, NEW t \in Tasks, WritesEvent(k, t)
          PROVE  RecoveredGaps' + OneIf(GapPending)' <= gaps'
      <3>1. Appends(k, t) /\ Shifts /\ steps[1] = EmitStep(k, t) /\ 1 \in 1..Len(steps)
        BY <1>2, <2>4, AppendAppends DEF WritesEvent, Shifts
      <3>2. RecoveredGaps' = RecoveredGaps + OneIf(k = "gap_recorded")
        BY <1>3, <3>1
      <3>3. GapPending' => GapPending
        BY <2>1, <3>1, ShiftedAwaits DEF GapPending
      <3>4. ASSUME k = "gap_recorded" PROVE GapPending /\ ~GapPending'
        <4>1. Awaits("gap_recorded", t)
          BY <3>1, <3>4 DEF Awaits
        <4>2. ASSUME NEW u \in Tasks, Awaits("gap_recorded", u)' PROVE FALSE
          <5>1. steps[1] # EmitStep("gap_recorded", u) /\ Awaits("gap_recorded", u)
            BY <2>1, <3>1, <4>2, ShiftedAwaits
          <5>2. PICK i \in 1..Len(steps) : steps[i] = EmitStep("gap_recorded", u)
            BY <5>1 DEF Awaits
          <5>3. Emits(1, {"gap_recorded"}) /\ Emits(i, {"gap_recorded"})
            BY <3>1, <3>4, <5>2, StepFields DEF Emits
          <5>4. i = 1
            BY <2>1, <3>1, <5>3 DEF OnlyOne
          <5>5. QED
            BY <5>1, <5>2, <5>4
        <4>3. QED
          BY <4>1, <4>2 DEF GapPending
      <3>5. QED
        BY <1>2, <1>3, <1>5, <1>8, <2>1, <3>2, <3>3, <3>4 DEF OneIf
    <2>5. QED
      BY <1>8, <2>2, <2>3, <2>4 DEF Writes, WritesTask, WritesOther, WritesSession, Blocks
  <1>9. CASE Run \/ Recover
    <2>1. UNCHANGED log /\ Len(steps') = 0
      BY <1>9, NoSteps DEF Run, Recover
    <2>2. ~GapPending'
      BY <2>1, NoneAwaitedNext DEF GapPending
    <2>3. RecoveredGaps <= gaps'
      <3>1. CASE Recover
        BY <1>3, <3>1 DEF Recover
      <3>2. CASE Run
        <4>1. Nothing /\ UNCHANGED gaps
          BY <1>4, <3>2 DEF Bounds, Run, memory
        <4>2. {i \in DOMAIN log : log[i].kind = "gap_recorded"} = {}
          BY <4>1 DEF Nothing
        <4>3. RecoveredGaps = 0
          BY <4>2, FS_EmptySet DEF RecoveredGaps
        <4>4. QED
          BY <1>2, <4>1, <4>3
      <3>3. QED
        BY <1>9, <3>1, <3>2
    <2>4. QED
      BY <1>3, <2>1, <2>2, <2>3 DEF OneIf
  <1>10. CASE Replay
    <2>1. UNCHANGED <<log, gaps>> /\ mode \in Recovered
      BY <1>10 DEF Replay, Recovered
    <2>2. ~GapPending'
      BY <1>10, ReplayAwaits DEF GapPending, GraphKinds
    <2>3. QED
      BY <1>2, <1>3, <1>5, <2>1, <2>2 DEF OneIf
  <1>11. CASE ResolveReopen
    <2>1. UNCHANGED <<steps, gaps>> /\ mode \in Recovered
      BY <1>11 DEF ResolveReopen, Recovered
    <2>2. RecoveredGaps' = RecoveredGaps
      <3>1. CASE UNCHANGED log
        BY <1>3, <3>1
      <3>2. CASE \E t \in Tasks : Appends("escalation_resolved", t)
        <4>1. RecoveredGaps' = RecoveredGaps + OneIf("escalation_resolved" = "gap_recorded")
          BY <1>3, <3>2
        <4>2. OneIf("escalation_resolved" = "gap_recorded") = 0
          BY DEF OneIf
        <4>3. QED
          BY <1>3, <4>1, <4>2
      <3>3. QED
        BY <1>11, <3>1, <3>2, LogNext DEF ResolveReopen
    <2>3. GapPending' <=> GapPending
      BY <2>1 DEF GapPending, Awaits
    <2>4. QED
      BY <1>3, <1>5, <2>1, <2>2, <2>3 DEF OneIf
  <1>12. CASE Quiet \/ Resets \/ Dies \/ Seed \/ EditWorkOrder
              \/ (\E w \in Workers : AgentPlans(w)) \/ (\E t \in Tasks : HumanReopens(t))
    <2>1. UNCHANGED <<log, steps, gaps>> /\ mode \in Recovered
      BY <1>1, <1>12
         DEF Quiet, Resets, Dies, Seed, EditWorkOrder, AgentPlans, HumanReopens, memory, Recovered
    <2>2. QED
      BY <1>6, <2>1
  <1>13. QED
    BY <1>0, <1>2, <1>7, <1>8, <1>9, <1>10, <1>11, <1>12 DEF Effect

LEMMA CountedGapLoss ==
  ASSUME Types, Bounds, Counted, spawnFailures \in Nat PROVE GapLoss
  <1> DEFINE S == {t \in Tasks \ Critical : TerminalHistory(t) /\ status[t] \in {"failed", "blocked"}}
  <1>1. SUFFICES ASSUME mode = "loop", steps = <<>>, runs = 1 PROVE Cardinality(S) <= gaps + downs + spawnFailures
    BY DEF GapLoss
  <1>2. Len(steps) = 0
    BY <1>1
  <1>3. S \subseteq Gapped \cup Lost
    <2>1. SUFFICES ASSUME NEW t \in Tasks \ Critical, TerminalHistory(t), status[t] \in {"failed", "blocked"}
                   PROVE  t \in Gapped \cup Lost
      OBVIOUS
    <2>2. Failed(t)
      BY <2>1 DEF TerminalHistory, Failed, Counted, CompletedStay
    <2>3. ~Awaits("gap_recorded", t)
      BY <1>2, NoneAwaited
    <2>4. QED
      BY <2>2, <2>3 DEF Lost, Fallen
  <1>4. /\ IsFiniteSet(Gapped) /\ Cardinality(Gapped) <= RecoveredGaps
        /\ IsFiniteSet(Lost) /\ Cardinality(Lost) <= downs + spawnFailures
    BY DEF Counted, GapsGapped, FewLost
  <1>5. /\ Cardinality(Gapped) \in Nat /\ Cardinality(Lost) \in Nat /\ Cardinality(Gapped \cap Lost) \in Nat
        /\ IsFiniteSet(Gapped \cup Lost)
        /\ Cardinality(Gapped \cup Lost) =
             Cardinality(Gapped) + Cardinality(Lost) - Cardinality(Gapped \cap Lost)
    <2>1. IsFiniteSet(Gapped \cap Lost)
      BY <1>4, FS_Subset
    <2>2. QED
      BY <1>4, <2>1, FS_Union, FS_CardinalityType
  <1>6. IsFiniteSet(S) /\ Cardinality(S) <= Cardinality(Gapped \cup Lost)
    BY <1>3, <1>5, FS_Subset
  <1>7. Cardinality(S) \in Nat
    BY <1>6, FS_CardinalityType
  <1>8. RecoveredGaps \in Nat /\ gaps \in Nat /\ downs \in Nat
    BY GapsNext DEF Types, Typed, Bounds
  <1>9. RecoveredGaps <= gaps
    <2>1. RecoveredGaps + OneIf(GapPending) <= gaps
      BY <1>1 DEF Counted, GapsKept, Recovered
    <2>2. QED
      BY <1>8, <2>1, Ones
  <1> HIDE DEF S
  <1>10. QED
    BY <1>4, <1>5, <1>6, <1>7, <1>8, <1>9

-----------------------------------------------------------------------------
(* Validated *)

\* The writes that end a task find no session of it, unless the breaker failed it.
LEMMA EndsAlone ==
  ASSUME RecInv, DoStep, NEW t \in Tasks, NEW s \in Terminal \ {"failed"}, WritesTask(t, s), NEW v \in Workers
  PROVE  session[v] # t
  <1>1. /\ Types /\ steps # <<>> /\ steps[1].op = "task" /\ steps[1].task = t /\ steps[1].arg = s
        /\ Len(steps) \in Nat \ {0}
    BY DEF RecInv, DoStep, WritesTask, Shifts
  <1>2. Handling
    BY <1>1 DEF RecInv, Types, Typed
  <1>3. ~Neutral(steps[1])
    BY <1>1 DEF Neutral
  <1>4. ~NeutralFrom(1)
    BY <1>1, <1>3 DEF NeutralFrom
  <1>5. PICK u \in Tasks, w \in Workers :
          /\ SettledBut(u, w)
          /\ \/ Assigning(u, w) \/ Assigned(u, w)
             \/ Logging(u, w) \/ Starting(u, w) \/ Started(u, w)
             \/ Ending(u, w) \/ Ended(u, w)
    BY <1>2, <1>4 DEF Handling
  <1>6. Ending(u, w)
    BY <1>1, <1>3, <1>5, StepFields, Constants
       DEF Assigning, Assigned, Logging, Starting, Started, Ended, Terminal
  <1>7. u = t
    BY <1>1, <1>6, StepFields DEF Ending
  <1>8. session[w] = NoTask /\ assignee[t] = w
    BY <1>1, <1>6, <1>7, StepFields DEF Ending, Has
  <1>9. CASE v = w
    BY <1>8, <1>9, Numbers
  <1>10. CASE v # w
    BY <1>5, <1>8, <1>10, Numbers DEF SettledBut, WorkerSettled
  <1>11. QED
    BY <1>9, <1>10

LEMMA BlocksAlone ==
  ASSUME RecInv, DoStep, Blocks, NEW t \in Tasks, status[t] = "open", NEW v \in Workers
  PROVE  session[v] # t
  <1>1. /\ Types /\ steps # <<>> /\ steps[1].op = "block"
    BY DEF RecInv, DoStep, Blocks
  <1>2. Handling
    BY <1>1 DEF RecInv, Types, Typed
  <1>3. CASE Settled
    BY <1>3, Numbers DEF Settled, WorkerSettled
  <1>4. CASE ~Settled
    <2>1. PICK u \in Tasks, w \in Workers :
            /\ SettledBut(u, w)
            /\ \/ Assigning(u, w) \/ Assigned(u, w)
               \/ Logging(u, w) \/ Starting(u, w) \/ Started(u, w)
               \/ Ending(u, w) \/ Ended(u, w)
      BY <1>2, <1>4 DEF Handling
    <2>2. Logging(u, w)
      BY <1>1, <2>1, StepFields DEF Assigning, Assigned, Starting, Started, Ending, Ended
    <2>3. session[w] = NoTask
      BY <2>2 DEF Logging
    <2>4. CASE v = w
      BY <2>3, <2>4, Numbers
    <2>5. CASE v # w
      BY <2>1, <2>5, Numbers DEF SettledBut, WorkerSettled
    <2>6. QED
      BY <2>4, <2>5
  <1>5. QED
    BY <1>3, <1>4

LEMMA AliveWrites ==
  ASSUME RecInv, Alive, DoStep
  PROVE  Alive'
  <1>1. Writes /\ Types
    BY DoWrites DEF RecInv
  <1>2. SUFFICES ASSUME NEW v \in Workers, session'[v] # NoTask
                 PROVE  status'[session'[v]] \in Running \cup {"open", "failed"}
    BY DEF Alive
  <1>3. session \in [Workers -> Tasks \cup {NoTask}] /\ status \in [Tasks -> Status]
    BY <1>1 DEF Types, Typed
  <1>4. session[v] # NoTask => session[v] \in Tasks /\ status[session[v]] \in Running \cup {"open", "failed"}
    BY <1>3 DEF Alive
  <1>5. CASE \E t \in Tasks, s \in Status : WritesTask(t, s)
    <2>1. PICK t \in Tasks, s \in Status : WritesTask(t, s)
      BY <1>5
    <2>2. UNCHANGED session /\ status' = [status EXCEPT ![t] = s] /\ Moves(t, s)
      BY <2>1 DEF WritesTask
    <2>3. session[v] = t => s \in Running \cup {"open", "failed"}
      <3>1. s \in Terminal \ {"failed"} => session[v] # t
        BY <2>1, EndsAlone
      <3>2. s \in Running \cup {"open"} \cup Terminal
        BY <2>2 DEF Moves, Running
      <3>3. QED
        BY <3>1, <3>2
    <2>4. QED
      BY <1>2, <1>3, <1>4, <2>2, <2>3
  <1>6. CASE \E w \in Workers, t \in Tasks : WritesSession(w, t)
    BY <1>2, <1>3, <1>4, <1>6 DEF WritesSession
  <1>7. CASE Blocks
    <2>1. \A t \in Tasks : status[t] = "open" => session[v] # t
      BY <1>7, BlocksAlone
    <2>2. QED
      BY <1>2, <1>3, <1>4, <1>7, <2>1 DEF Blocks
  <1>8. CASE UNCHANGED status /\ session'[v] \in {session[v], NoTask}
    BY <1>2, <1>4, <1>8
  <1>9. QED
    BY <1>1, <1>5, <1>6, <1>7, <1>8 DEF Writes, WritesOther, WritesEvent

LEMMA AliveNext ==
  ASSUME RecInv, Alive, CalmStep
  PROVE  Alive'
  <1>1. Types
    BY DEF RecInv
  <1>2. session \in [Workers -> Tasks \cup {NoTask}] /\ status \in [Tasks -> Status]
    BY <1>1 DEF Types, Typed
  <1>3. ASSUME \A v \in Workers : session'[v] \in {session[v], NoTask},
               \A t \in Tasks : status[t] \in Running \cup {"open", "failed"} => status'[t] \in Running \cup {"open", "failed"}
        PROVE  Alive'
    BY <1>2, <1>3 DEF Alive
  <1>4. CASE DoStep
    BY <1>4, AliveWrites
  <1>5. CASE Effect /\ ~DoStep
    <2>1. \A v \in Workers : session'[v] \in {session[v], NoTask}
      BY <1>5 DEF Effect, Begins, Drops, Quiet, Resets, Dies, Run, Seed, Recover, ResolveReopen, Replay,
           AgentPlans, HumanReopens, EditWorkOrder, outside
    <2>2. ASSUME NEW t \in Tasks, status[t] \in Running \cup {"open", "failed"}
          PROVE  status'[t] \in Running \cup {"open", "failed"}
      <3>1. CASE Resets
        BY <1>2, <2>2, <3>1 DEF Resets
      <3>2. CASE Seed
        BY <1>2, <2>2, <3>2 DEF Seed
      <3>3. CASE \E w \in Workers : AgentPlans(w)
        BY <1>2, <2>2, <3>3 DEF AgentPlans
      <3>4. CASE \E u \in Tasks : HumanReopens(u)
        BY <1>2, <2>2, <3>4 DEF HumanReopens
      <3>5. CASE UNCHANGED status
        BY <2>2, <3>5
      <3>6. QED
        BY <1>5, <3>1, <3>2, <3>3, <3>4, <3>5
           DEF Effect, Begins, Drops, Quiet, Dies, Run, Recover, ResolveReopen, Replay, EditWorkOrder, ledger
    <2>3. QED
      BY <1>3, <2>1, <2>2
  <1>6. QED
    BY <1>4, <1>5, Effects

LEMMA ReopenedNext ==
  ASSUME RecInv, Reopened, CalmStep
  PROVE  Reopened'
  <1>1. Effect /\ Types /\ status \in [Tasks -> Status] /\ reopens \subseteq Tasks
    BY Effects DEF RecInv, Types, Typed
  <1>2. CASE mode \notin {"workers", "reopens", "recover"}
    <2>1. reopens = {} /\ mode' \notin {"workers", "reopens"}
      BY <1>1, <1>2
         DEF Reopened, Effect, Begins, Drops, Quiet, Resets, Dies, Run, Seed, Recover, ResolveReopen, Replay,
             AgentPlans, HumanReopens, EditWorkOrder
    <2>2. reopens' = {}
      BY <1>1, <1>2, <2>1
         DEF Effect, Begins, Drops, Quiet, Resets, Dies, Run, Seed, Recover, ResolveReopen, Replay,
             AgentPlans, HumanReopens, EditWorkOrder, resuming
    <2>3. QED
      BY <2>1, <2>2 DEF Reopened
  <1>3. CASE mode \in {"workers", "reopens", "recover"}
    <2>1. CASE Recover
      BY <2>1 DEF Recover, Reopened, ledger
    <2>2. CASE ResolveReopen
      BY <2>2 DEF ResolveReopen, Reopened, ledger
    <2>3. CASE Quiet
      BY <2>3 DEF Quiet, Reopened
    <2>4. CASE Dies
      BY <2>4 DEF Dies, Reopened
    <2>5. CASE \E w \in Workers : AgentPlans(w)
      BY <1>1, <2>5 DEF AgentPlans, Reopened, resuming
    <2>6. QED
      BY <1>1, <1>3, <2>1, <2>2, <2>3, <2>4, <2>5
         DEF Effect, Begins, Drops, Resets, Run, Seed, Replay, HumanReopens, EditWorkOrder
  <1>4. QED
    BY <1>2, <1>3

LEMMA OneRunStays ==
  ASSUME RecInv, Bounds, CalmStep, OneRun'
  PROVE  OneRun /\ (Run \/ Seed => Nothing)
  <1>1. Effect /\ Types /\ runs \in Nat
    BY Effects DEF RecInv, Bounds
  <1>2. runs <= 1 /\ (Run => runs = 0) /\ (Seed => mode = "seed")
    BY <1>1
       DEF OneRun, Effect, Begins, Drops, Quiet, Resets, Dies, Run, Seed, Recover, ResolveReopen, Replay,
           AgentPlans, HumanReopens, EditWorkOrder, history
  <1>3. CompletionsLogged
    <2>1. \A i \in DOMAIN log : i \in DOMAIN log' /\ log'[i] = log[i]
      BY LogNext DEF Appends
    <2>2. SUFFICES ASSUME NEW i \in DOMAIN log, log[i].task = Planner, log[i].kind \in GraphKinds
                   PROVE  \E j \in 1..i : log[j] = Event("task_completed", Planner)
      BY DEF CompletionsLogged, GraphKinds
    <2>3. PICK j \in 1..i : log'[j] = Event("task_completed", Planner)
      BY <2>1, <2>2 DEF OneRun, CompletionsLogged, GraphKinds
    <2>4. j \in DOMAIN log
      <3>1. Len(log) \in Nat /\ DOMAIN log = 1..Len(log)
        BY <1>1, LenProperties DEF Types
      <3>2. QED
        BY <3>1
    <2>5. QED
      BY <2>1, <2>3, <2>4
  <1>4. QED
    BY <1>1, <1>2, <1>3 DEF OneRun, Bounds

\* What a step does to the last word on the graph.
LEMMA GraphSeenNext ==
  ASSUME RecInv, CalmStep
  PROVE  /\ UNCHANGED log => (GraphValidationSeen' <=> GraphValidationSeen)
         /\ \A k, t : Appends(k, t) /\ Event(k, t) # Event("escalation_resolved", Planner)
              /\ ~(k \in GraphKinds /\ t = Planner) => (GraphValidationSeen' <=> GraphValidationSeen)
         /\ \A t : Appends("escalation_resolved", t) => (GraphValidationSeen' => t # Planner)
  <1>1. ASSUME UNCHANGED log PROVE GraphValidationSeen' <=> GraphValidationSeen
    BY <1>1 DEF GraphValidationSeen
  <1>2. ASSUME NEW k, NEW t, Appends(k, t), Event(k, t) # Event("escalation_resolved", Planner),
               ~(k \in GraphKinds /\ t = Planner)
        PROVE  GraphValidationSeen' <=> GraphValidationSeen
    <2>1. \A i \in DOMAIN log' : (i \in DOMAIN log /\ log'[i] = log[i]) \/ log'[i] = Event(k, t)
      BY <1>2 DEF Appends
    <2>2. \A i \in DOMAIN log : i \in DOMAIN log' /\ log'[i] = log[i]
      BY <1>2 DEF Appends
    <2>3. \A i \in DOMAIN log' : log'[i].task = Planner /\ log'[i].kind \in GraphKinds => i \in DOMAIN log
      BY <1>2, <2>1, EventFields
    <2>4. ASSUME GraphValidationSeen' PROVE GraphValidationSeen
      <3>1. PICK i \in DOMAIN log' :
              /\ log'[i].task = Planner /\ log'[i].kind \in GraphKinds
              /\ \A j \in DOMAIN log' : j > i => log'[j] # Event("escalation_resolved", Planner)
        BY <2>4 DEF GraphValidationSeen, GraphKinds
      <3>2. i \in DOMAIN log /\ log[i].task = Planner /\ log[i].kind \in GraphKinds
        BY <2>2, <2>3, <3>1
      <3>3. \A j \in DOMAIN log : j > i => log[j] # Event("escalation_resolved", Planner)
        BY <2>2, <3>1
      <3>4. QED
        BY <3>2, <3>3 DEF GraphValidationSeen, GraphKinds
    <2>5. ASSUME GraphValidationSeen PROVE GraphValidationSeen'
      <3>1. PICK i \in DOMAIN log :
              /\ log[i].task = Planner /\ log[i].kind \in GraphKinds
              /\ \A j \in DOMAIN log : j > i => log[j] # Event("escalation_resolved", Planner)
        BY <2>5 DEF GraphValidationSeen, GraphKinds
      <3>2. i \in DOMAIN log' /\ log'[i].task = Planner /\ log'[i].kind \in GraphKinds
        BY <2>2, <3>1
      <3>3. \A j \in DOMAIN log' : j > i => log'[j] # Event("escalation_resolved", Planner)
        BY <1>2, <2>1, <3>1
      <3>4. QED
        BY <3>2, <3>3 DEF GraphValidationSeen, GraphKinds
    <2>6. QED
      BY <2>4, <2>5
  <1>3. ASSUME NEW t, Appends("escalation_resolved", t), GraphValidationSeen' PROVE t # Planner
    <2>1. SUFFICES ASSUME t = Planner PROVE FALSE
      OBVIOUS
    <2>2. PICK i \in DOMAIN log' :
            /\ log'[i].task = Planner /\ log'[i].kind \in GraphKinds
            /\ \A j \in DOMAIN log' : j > i => log'[j] # Event("escalation_resolved", Planner)
      BY <1>3 DEF GraphValidationSeen, GraphKinds
    <2>3. log'[i] # Event("escalation_resolved", Planner)
      BY <2>2, EventFields DEF GraphKinds
    <2>4. /\ Len(log) \in Nat /\ i \in 1..(Len(log) + 1) /\ Len(log) + 1 \in DOMAIN log'
          /\ log'[Len(log) + 1] = Event("escalation_resolved", Planner)
      BY <1>3, <2>1 DEF Appends
    <2>5. i # Len(log) + 1
      BY <2>3, <2>4
    <2>6. Len(log) + 1 > i
      BY <2>4, <2>5
    <2>7. QED
      BY <2>2, <2>4, <2>6
  <1>4. QED
    BY <1>1, <1>2, <1>3

\* Once its graph has been looked at, only a human moves the plan task.
LEMMA PlannerStays ==
  ASSUME RecInv, Bounds, Validated, CalmStep, OneRun', GraphValidationSeen
  PROVE  \/ status'[Planner] = status[Planner]
         \/ mode = "down" /\ mode' = "down" /\ status'[Planner] = "open"
  <1>1. Effect /\ Types /\ status \in [Tasks -> Status] /\ Planner \in Tasks
    BY Effects, Numbers DEF RecInv, Types, Typed
  <1>2. OneRun /\ (Run \/ Seed => Nothing)
    BY OneRunStays
  <1>3. /\ status[Planner] \in Terminal \cup {"open"}
        /\ mode \in {"loop", "stopping"} => status[Planner] # "open"
    BY <1>2 DEF Validated, SeenEnded
  <1>4. CASE Writes /\ mode \in {"loop", "stopping"}
    BY <1>1, <1>3, <1>4, WritesStatus, Constants
  <1>5. CASE Resets
    BY <1>1, <1>3, <1>5, Constants DEF Resets
  <1>6. ~Seed
    BY <1>2 DEF Nothing, GraphValidationSeen
  <1>7. CASE \E w \in Workers : AgentPlans(w)
    BY <1>1, <1>3, <1>7 DEF AgentPlans, Terminal
  <1>8. CASE \E t \in Tasks : HumanReopens(t)
    BY <1>1, <1>8 DEF HumanReopens
  <1>9. CASE UNCHANGED status
    BY <1>9
  <1>10. QED
    BY <1>1, <1>4, <1>5, <1>6, <1>7, <1>8, <1>9
       DEF Effect, Begins, Drops, Quiet, Dies, Run, Recover, ResolveReopen, Replay, EditWorkOrder, ledger

LEMMA SeenEndedNext ==
  ASSUME RecInv, Bounds, Coherent, Validated, CalmStep, OneRun'
  PROVE  SeenEnded'
  <1>1. SUFFICES ASSUME GraphValidationSeen' PROVE SeenEnded'
    BY DEF SeenEnded
  <1>2. Effect /\ Types /\ Planner \in Tasks
    BY Effects, Numbers DEF RecInv
  <1>3. OneRun /\ (Run \/ Seed => Nothing)
    BY OneRunStays
  <1>4. CASE \E k \in GraphKinds : WritesEvent(k, Planner) /\ mode \in {"loop", "stopping"} /\ UNCHANGED mode
    <2>1. PICK k \in GraphKinds : WritesEvent(k, Planner)
      BY <1>4
    <2>2. steps[1].op = "emit" /\ steps[1].arg = k /\ steps[1].task = Planner /\ 1 \in 1..Len(steps)
      BY <2>1, StepFields DEF WritesEvent, Shifts
    <2>3. Announced(1)
      BY <2>2 DEF Coherent
    <2>4. status[Planner] = "completed"
      BY <2>2, <2>3 DEF Announced, Emits, WillBe
    <2>5. status'[Planner] = "completed" /\ checked'
      BY <2>1, <2>4 DEF WritesEvent
    <2>6. QED
      BY <1>4, <2>5 DEF SeenEnded, Terminal
  <1>5. CASE GraphValidationSeen
    <2>1. /\ status[Planner] \in Terminal \cup {"open"}
          /\ mode \in {"workers", "reopens"} => status[Planner] # "open" \/ Planner \in reopens
          /\ mode \in {"replay", "seed", "loop", "stopping"} => status[Planner] # "open"
          /\ status[Planner] = "completed" => checked
      BY <1>3, <1>5 DEF Validated, SeenEnded
    <2>2. \/ status'[Planner] = status[Planner]
          \/ mode = "down" /\ mode' = "down" /\ status'[Planner] = "open"
      BY <1>5, PlannerStays
    <2>3. CASE mode = "down" /\ mode' = "down" /\ status'[Planner] = "open"
      BY <1>1, <2>3 DEF SeenEnded
    <2>4. CASE status'[Planner] = status[Planner]
      <3>1. status[Planner] = "completed" => checked'
        <4>1. SUFFICES ASSUME status[Planner] = "completed" PROVE checked'
          OBVIOUS
        <4>2. checked
          BY <2>1, <4>1
        <4>3. ~\E w \in Workers : AgentPlans(w)
          <5>1. SUFFICES ASSUME NEW w \in Workers, AgentPlans(w) PROVE FALSE
            OBVIOUS
          <5>2. session[w] = Planner /\ Planner # NoTask
            BY <1>2, <5>1, Numbers DEF AgentPlans
          <5>3. QED
            BY <4>1, <5>2 DEF Validated, Alive, Running
        <4>4. CASE Writes
          BY <4>2, <4>4, Zenon DEF Writes, WritesTask, WritesOther, WritesSession, WritesEvent, Blocks
        <4>5. CASE UNCHANGED checked
          BY <4>2, <4>5, Zenon
        <4>6. Writes \/ UNCHANGED checked
          BY <1>2, <4>3 DEF Effect, Begins, Drops, Quiet, Resets, Dies, Run, Seed, Recover, ResolveReopen,
                            Replay, HumanReopens, EditWorkOrder, history
        <4>7. QED
          BY <4>4, <4>5, <4>6
      <3>2. mode' \in {"replay", "seed", "loop", "stopping"} => status[Planner] # "open"
        <4>1. SUFFICES ASSUME mode' \in {"replay", "seed", "loop", "stopping"}, status[Planner] = "open"
                       PROVE  FALSE
          OBVIOUS
        <4>2. mode \notin {"replay", "seed", "loop", "stopping"}
          BY <2>1, <4>1
        <4>3. CASE Run
          BY <1>3, <1>5, <4>3 DEF Nothing, GraphValidationSeen
        <4>4. CASE ResolveReopen
          BY <2>1, <4>1, <4>4 DEF ResolveReopen
        <4>5. QED
          BY <1>2, <4>1, <4>2, <4>3, <4>4
             DEF Effect, Begins, Drops, Quiet, Resets, Dies, Seed, Recover, Replay, AgentPlans, HumanReopens,
                 EditWorkOrder
      <3>3. mode' \in {"workers", "reopens"} /\ status[Planner] = "open" => Planner \in reopens'
        <4>1. SUFFICES ASSUME mode' \in {"workers", "reopens"}, status[Planner] = "open"
                       PROVE  Planner \in reopens'
          OBVIOUS
        <4>2. CASE Recover
          <5>1. PICK i \in DOMAIN log : log[i].task = Planner /\ log[i].kind \in GraphKinds
            BY <1>5 DEF GraphValidationSeen, GraphKinds
          <5>2. PICK j \in 1..i : log[j] = Event("task_completed", Planner)
            BY <1>3, <5>1 DEF OneRun, CompletionsLogged, GraphKinds
          <5>3. j \in DOMAIN log
            <6>1. Len(log) \in Nat /\ DOMAIN log = 1..Len(log)
              BY <1>2, LenProperties DEF Types
            <6>2. QED
              BY <6>1
          <5>4. TerminalHistory(Planner)
            BY <5>2, <5>3, EventFields DEF TerminalHistory
          <5>5. QED
            BY <1>2, <4>1, <4>2, <5>4 DEF Recover
        <4>3. CASE ResolveReopen
          <5>1. mode = "reopens" /\ Planner \in reopens
            BY <2>1, <4>1, <4>3 DEF ResolveReopen
          <5>2. PICK t \in reopens : log' = Append(log, Event("escalation_resolved", t)) /\ reopens' = reopens \ {t}
            BY <4>1, <4>3, <5>1 DEF ResolveReopen
          <5>3. t # Planner
            <6>1. Appends("escalation_resolved", t)
              BY <1>2, <5>2, AppendAppends, Constants DEF Types
            <6>2. QED
              BY <1>1, <6>1, GraphSeenNext
          <5>4. QED
            BY <5>1, <5>2, <5>3
        <4>4. CASE mode \in {"workers", "reopens"} /\ UNCHANGED reopens
          BY <2>1, <4>1, <4>4
        <4>5. QED
          BY <1>2, <4>1, <4>2, <4>3, <4>4
             DEF Effect, Begins, Drops, Quiet, Resets, Dies, Run, Seed, Replay, AgentPlans, HumanReopens,
                 EditWorkOrder, resuming
      <3>4. QED
        BY <2>1, <2>4, <3>1, <3>2, <3>3 DEF SeenEnded
    <2>5. QED
      BY <2>2, <2>3, <2>4
  <1>6. CASE ~GraphValidationSeen
    <2>1. ~UNCHANGED log
      BY <1>1, <1>6, GraphSeenNext
    <2>2. ASSUME NEW t \in Tasks, Appends("escalation_resolved", t) PROVE FALSE
      <3>1. t # Planner
        BY <1>1, <2>2, GraphSeenNext
      <3>2. Event("escalation_resolved", t) # Event("escalation_resolved", Planner)
        BY <3>1, EventFields
      <3>3. QED
        BY <1>1, <1>6, <2>2, <3>1, <3>2, GraphSeenNext
    <2>3. PICK k \in Kinds, t \in Tasks :
            WritesEvent(k, t) /\ Appends(k, t) /\ mode \in {"loop", "stopping"}
      BY <2>1, <2>2, LogNext
    <2>4. k # "escalation_resolved"
      BY <2>2, <2>3
    <2>5. k \in GraphKinds /\ t = Planner
      BY <1>1, <1>6, <2>3, <2>4, GraphSeenNext, EventFields
    <2>6. UNCHANGED mode
      BY <1>2, <2>1, <2>3
         DEF Effect, Begins, Drops, Quiet, Resets, Dies, Run, Seed, Recover, ResolveReopen, Replay, AgentPlans,
             HumanReopens, EditWorkOrder
    <2>7. QED
      BY <1>4, <2>3, <2>5, <2>6
  <1>7. QED
    BY <1>5, <1>6

LEMMA SeenLoggedNext ==
  ASSUME RecInv, Bounds, Validated, CalmStep, OneRun'
  PROVE  SeenLogged'
  <1>1. SUFFICES ASSUME mode' \in {"workers", "reopens", "replay"}, seen', status'[Planner] = "completed"
                 PROVE  GraphValidationSeen'
    BY DEF SeenLogged
  <1>2. Effect /\ Types /\ Planner \in Tasks /\ OneRun
    BY Effects, Numbers, OneRunStays DEF RecInv
  <1>3. CASE Recover
    <2>1. GraphValidationSeen /\ UNCHANGED log
      BY <1>1, <1>3, Zenon DEF Recover
    <2>2. QED
      BY <2>1, GraphSeenNext
  <1>4. CASE mode \in {"workers", "reopens", "replay"} /\ UNCHANGED <<seen, log>> /\ status[Planner] = "completed"
    <2>1. seen
      BY <1>1, <1>4, Zenon
    <2>2. GraphValidationSeen
      BY <1>2, <1>4, <2>1 DEF Validated, SeenLogged
    <2>3. QED
      BY <1>4, <2>2, GraphSeenNext
  <1>5. CASE ResolveReopen
    <2>1. mode = "reopens" /\ UNCHANGED <<seen, status>>
      BY <1>5 DEF ResolveReopen, ledger
    <2>2. status[Planner] = "completed"
      BY <1>1, <2>1
    <2>3. CASE UNCHANGED log
      BY <1>4, <2>1, <2>2, <2>3
    <2>4. ASSUME NEW t \in reopens, t \in Tasks, Appends("escalation_resolved", t) PROVE GraphValidationSeen'
      <3>1. t # Planner
        BY <2>2, <2>4 DEF Validated, Reopened
      <3>2. seen
        BY <1>1, <2>1, Zenon
      <3>3. GraphValidationSeen
        BY <1>2, <2>1, <2>2, <3>2 DEF Validated, SeenLogged
      <3>4. Event("escalation_resolved", t) # Event("escalation_resolved", Planner)
        BY <3>1, EventFields
      <3>5. QED
        BY <2>4, <3>1, <3>3, <3>4, GraphSeenNext
    <2>5. QED
      BY <2>1, <2>3, <2>4, LogNext
  <1>6. CASE Quiet
    BY <1>1, <1>4, <1>6 DEF Quiet
  <1>7. CASE \E w \in Workers : AgentPlans(w)
    BY <1>1, <1>2, <1>4, <1>7 DEF AgentPlans, resuming
  <1>8. QED
    BY <1>1, <1>2, <1>3, <1>5, <1>6, <1>7
       DEF Effect, Begins, Drops, Resets, Dies, Run, Seed, Replay, HumanReopens, EditWorkOrder

\* A completed plan task is only announced by the first write of a handler.
LEMMA SecondNotCompleted ==
  ASSUME RecInv, mode \in {"loop", "stopping"}, Shifts, steps' # <<>>
  PROVE  ~(steps'[1].op = "task" /\ steps'[1].arg = "completed")
  <1>1. SUFFICES ASSUME steps'[1].op = "task", steps'[1].arg = "completed" PROVE FALSE
    OBVIOUS
  <1>2. Len(steps) >= 2 /\ Len(steps) \in Nat /\ steps[2] = steps'[1]
    <2>1. Len(steps') # 0 /\ Len(steps) \in Nat \ {0} /\ Len(steps') = Len(steps) - 1
      BY DEF Shifts
    <2>2. 1 \in 1..Len(steps') /\ 1 + 1 = 2 /\ Len(steps) >= 2 /\ Len(steps) \in Nat
      BY <2>1
    <2>3. steps'[1] = steps[1 + 1]
      BY <2>2 DEF Shifts
    <2>4. QED
      BY <2>2, <2>3
  <1>3. steps[2].op = "task" /\ steps[2].arg = "completed"
    BY <1>1, <1>2
  <1>4. ~Neutral(steps[2]) /\ 2 \in 1..Len(steps) /\ 2 \in 2..Len(steps)
    BY <1>2, <1>3 DEF Neutral
  <1>5. ~NeutralFrom(1) /\ ~NeutralFrom(2)
    BY <1>4 DEF NeutralFrom
  <1>6. PICK t \in Tasks, w \in Workers :
          \/ Assigning(t, w) \/ Assigned(t, w)
          \/ Logging(t, w) \/ Starting(t, w) \/ Started(t, w)
          \/ Ending(t, w) \/ Ended(t, w)
    BY <1>5 DEF RecInv, Handling
  <1>7. QED
    BY <1>3, <1>5, <1>6, StepFields
       DEF Assigning, Assigned, Logging, Starting, Started, Ending, Ended

LEMMA CompletesComing ==
  ASSUME NEW t \in Tasks, NEW w \in Workers, Begins(t, w), WillBe(Planner, {"completed"})',
         status[Planner] # "completed"
  PROVE  GraphComing'
  <1>1. /\ steps'[1].op = "task" /\ steps'[1].task = Planner /\ steps'[1].arg = "completed"
    BY DEF WillBe, Begins
  <1>2. Completes(steps', t, w) /\ t = Planner
    BY <1>1, StepFields DEF Begins, Assigns, Restarts, Retries, Fails, Completes
  <1>3. CASE Len(steps') = 4 /\ steps'[4] = EmitStep("graph_validated", Planner)
    <2>1. 4 \in 1..Len(steps')
      BY <1>3
    <2>2. QED
      BY <1>3, <2>1, StepFields DEF GraphComing, Emits, GraphKinds
  <1>4. CASE Len(steps') = 6 /\ steps'[5] = EmitStep("graph_invalid", Planner)
    <2>1. 5 \in 1..Len(steps')
      BY <1>4
    <2>2. QED
      BY <1>4, <2>1, StepFields DEF GraphComing, Emits, GraphKinds
  <1>5. QED
    BY <1>2, <1>3, <1>4 DEF Completes

LEMMA CheckedWrites ==
  ASSUME RecInv, Coherent, CheckedOrComing, Writes, mode \in {"loop", "stopping"},
         WillBe(Planner, {"completed"})'
  PROVE  GraphComing' \/ (status'[Planner] = "completed" /\ checked')
  <1>1. Types /\ Planner \in Tasks /\ status \in [Tasks -> Status]
    BY Numbers DEF RecInv, Types, Typed
  <1>2. StaysEnded
    BY WritesStatus, Constants DEF StaysEnded
  <1>3. checked => checked'
    BY Zenon DEF Writes, WritesTask, WritesOther, WritesSession, WritesEvent, Blocks
  <1>4. UNCHANGED steps \/ Shifts
    BY DEF Writes, WritesTask, WritesOther, WritesSession, WritesEvent, Blocks
  <1>5. Shifts => status'[Planner] = "completed"
    BY SecondNotCompleted DEF WillBe
  <1>6. WillBe(Planner, {"completed"})
    <2>1. CASE status'[Planner] = "completed"
      <3>1. ASSUME NEW t \in Tasks, NEW s \in Status, WritesTask(t, s) PROVE WillBe(Planner, {"completed"})
        BY <1>1, <2>1, <3>1 DEF WritesTask, WillBe, Shifts
      <3>2. CASE Blocks
        BY <1>1, <2>1, <3>2 DEF Blocks, WillBe
      <3>3. CASE UNCHANGED status
        BY <2>1, <3>3 DEF WillBe
      <3>4. QED
        BY <3>1, <3>2, <3>3 DEF Writes, WritesOther, WritesSession, WritesEvent
    <2>2. CASE status'[Planner] # "completed" /\ UNCHANGED steps
      BY <2>2 DEF WillBe
    <2>3. QED
      BY <1>4, <1>5, <2>1, <2>2
  <1>7. GraphComing \/ (status[Planner] = "completed" /\ checked)
    BY <1>6 DEF CheckedOrComing
  <1>8. CASE status[Planner] = "completed" /\ checked
    BY <1>1, <1>2, <1>3, <1>8 DEF StaysEnded, Terminal
  <1>9. CASE GraphComing
    <2>1. PICK i \in 1..Len(steps) : Emits(i, GraphKinds)
      BY <1>9 DEF GraphComing
    <2>2. CASE UNCHANGED steps
      BY <2>1, <2>2 DEF GraphComing, Emits
    <2>3. CASE Shifts /\ i # 1
      <3>1. PICK j \in 1..Len(steps') : i = j + 1
        <4>1. i - 1 \in 1..Len(steps') /\ i = (i - 1) + 1
          BY <2>3 DEF Shifts
        <4>2. QED
          BY <4>1
      <3>2. steps'[j] = steps[i]
        BY <2>3, <3>1 DEF Shifts
      <3>3. QED
        BY <2>1, <3>1, <3>2 DEF GraphComing, Emits
    <2>4. CASE Shifts /\ i = 1
      <3>1. steps[1].op = "emit" /\ steps[1].arg \in GraphKinds
        BY <2>1, <2>4 DEF Emits
      <3>2. PICK k \in Kinds, t \in Tasks : WritesEvent(k, t)
        BY <3>1 DEF Writes, WritesTask, WritesOther, WritesSession, Blocks
      <3>3. k \in GraphKinds
        BY <3>1, <3>2, StepFields DEF WritesEvent
      <3>4. checked'
        BY <3>2, <3>3 DEF WritesEvent
      <3>5. QED
        BY <1>5, <2>4, <3>4
    <2>5. QED
      BY <1>4, <2>2, <2>3, <2>4
  <1>10. QED
    BY <1>7, <1>8, <1>9

LEMMA CheckedOrComingNext ==
  ASSUME RecInv, Bounds, Coherent, Validated, CalmStep, OneRun'
  PROVE  CheckedOrComing'
  <1>1. SUFFICES ASSUME mode' \in {"loop", "stopping"}, WillBe(Planner, {"completed"})'
                 PROVE  GraphComing' \/ (status'[Planner] = "completed" /\ checked')
    BY DEF CheckedOrComing
  <1>2. Effect /\ Types /\ Planner \in Tasks /\ OneRun /\ (Run \/ Seed => Nothing)
    BY Effects, Numbers, OneRunStays DEF RecInv
  <1>3. SeenEnded /\ SeenLogged /\ CheckedOrComing
    BY <1>2 DEF Validated
  <1>4. CASE \E t \in Tasks, w \in Workers : Begins(t, w)
    <2>1. PICK t \in Tasks, w \in Workers : Begins(t, w)
      BY <1>4
    <2>2. CASE status[Planner] # "completed"
      BY <1>1, <2>1, <2>2, CompletesComing
    <2>3. CASE status[Planner] = "completed"
      <3>1. Len(steps) = 0 /\ mode \in {"loop", "stopping"} /\ UNCHANGED <<checked, status>>
        BY <2>1 DEF Begins
      <3>2. ~GraphComing
        <4>1. 1..Len(steps) = {}
          BY <3>1
        <4>2. QED
          BY <4>1 DEF GraphComing
      <3>3. checked
        BY <1>3, <2>3, <3>1, <3>2 DEF CheckedOrComing, WillBe
      <3>4. checked'
        BY <3>1, <3>3, Zenon
      <3>5. QED
        BY <2>3, <3>1, <3>4
    <2>4. QED
      BY <2>2, <2>3
  <1>0. CASE \E t \in Tasks, w \in Workers : Drops(t, w)
    <2>1. PICK t \in Tasks, w \in Workers : Drops(t, w)
      BY <1>0
    <2>2. mode = "loop" /\ steps'[1].arg = "failed" /\ UNCHANGED <<status, checked>>
      BY <2>1, StepFields DEF Drops
    <2>3. status[Planner] = "completed"
      BY <1>1, <2>2 DEF WillBe
    <2>4. ~GraphComing
      BY <2>1 DEF Drops, GraphComing, Emits
    <2>5. checked
      BY <1>3, <2>2, <2>3, <2>4 DEF CheckedOrComing, WillBe
    <2>6. checked'
      BY <2>2, <2>5, Zenon
    <2>7. QED
      BY <2>2, <2>3, <2>6
  <1>5. CASE Writes /\ mode \in {"loop", "stopping"}
    BY <1>1, <1>3, <1>5, CheckedWrites
  <1>6. CASE Quiet
    <2>1. mode \in {"loop", "stopping"} /\ UNCHANGED <<status, steps, checked>>
      BY <1>1, <1>6 DEF Quiet
    <2>2. GraphComing \/ (status[Planner] = "completed" /\ checked)
      BY <1>1, <1>3, <2>1 DEF CheckedOrComing, WillBe
    <2>3. (GraphComing' <=> GraphComing) /\ (checked => checked')
      <3>1. GraphComing' <=> GraphComing
        BY <2>1 DEF GraphComing, Emits
      <3>2. checked => checked'
        BY <2>1, Zenon
      <3>3. QED
        BY <3>1, <3>2
    <2>4. QED
      BY <2>1, <2>2, <2>3
  <1>7. CASE \E w \in Workers : AgentPlans(w)
    <2>1. PICK w \in Workers : AgentPlans(w)
      BY <1>7
    <2>2. session[w] = Planner /\ Planner # NoTask /\ UNCHANGED <<mode, steps>>
      BY <1>2, <2>1, Numbers DEF AgentPlans
    <2>3. status[Planner] \in Running \cup {"open", "failed"}
      BY <2>2 DEF Validated, Alive
    <2>4. status'[Planner] = status[Planner] /\ status[Planner] # "completed"
      BY <1>2, <2>1, <2>3 DEF AgentPlans, Running
    <2>5. WillBe(Planner, {"completed"})
      BY <1>1, <2>2, <2>4 DEF WillBe
    <2>6. GraphComing
      BY <1>1, <1>3, <2>2, <2>4, <2>5 DEF CheckedOrComing
    <2>7. QED
      BY <2>2, <2>6 DEF GraphComing, Emits
  <1>8. CASE Replay
    <2>1. steps = <<>> /\ mode = "replay" /\ UNCHANGED <<status, checked>>
      BY <1>8, NoSteps DEF Replay, ledger, history
    <2>2. CASE steps' = <<>>
      <3>1. status[Planner] = "completed"
        BY <1>1, <2>1, <2>2 DEF WillBe
      <3>2. seen
        <4>1. Len(steps') = 0
          BY <2>2
        <4>2. QED
          BY <1>8, <2>1, <2>2, <3>1, ReplaySteps
      <3>3. GraphValidationSeen
        BY <1>3, <2>1, <3>1, <3>2 DEF SeenLogged
      <3>4. checked
        BY <1>3, <3>1, <3>3 DEF SeenEnded
      <3>5. checked'
        BY <2>1, <3>4, Zenon
      <3>6. QED
        BY <2>1, <3>1, <3>5
    <2>3. CASE steps' # <<>>
      BY <1>8, <2>1, <2>3, ReplaySteps DEF GraphComing
    <2>4. QED
      BY <2>2, <2>3
  <1>9. CASE Seed
    <2>1. status[Planner] = "absent" /\ status \in [Tasks -> Status]
      BY <1>2, <1>9 DEF Nothing, Types, Typed
    <2>2. status'[Planner] # "completed" /\ steps' = <<>>
      BY <1>2, <1>9, <2>1, NoSteps DEF Seed
    <2>3. QED
      BY <1>1, <2>2 DEF WillBe
  <1>10. QED
    BY <1>0, <1>1, <1>2, <1>4, <1>5, <1>6, <1>7, <1>8, <1>9
       DEF Effect, Resets, Dies, Run, Recover, ResolveReopen, HumanReopens, EditWorkOrder

LEMMA ValidatedNext ==
  ASSUME RecInv, Bounds, Coherent, Validated, CalmStep
  PROVE  Validated'
  <1>1. Alive' /\ Reopened'
    BY AliveNext, ReopenedNext DEF Validated
  <1>2. ASSUME OneRun' PROVE SeenEnded' /\ SeenLogged' /\ CheckedOrComing'
    BY <1>2, SeenEndedNext, SeenLoggedNext, CheckedOrComingNext
  <1>3. QED
    BY <1>1, <1>2 DEF Validated

-----------------------------------------------------------------------------
(* What the crashes cost, and what they cannot undo *)

LEMMA HistInvInit == Init => HistInv
  <1>1. SUFFICES ASSUME Init PROVE HistInv
    OBVIOUS
  <1>2. /\ log = <<>> /\ steps = <<>> /\ mode = "down" /\ reopens = {} /\ downs = 0 /\ runs = 0
        /\ humanReopens = 0 /\ order = 1 /\ spawnFailures = 0
        /\ status = [t \in Tasks |-> "absent"] /\ launched = [t \in Tasks |-> 0]
        /\ session = [w \in Workers |-> NoTask]
    BY <1>1 DEF Init
  <1>3. DOMAIN log = {} /\ Len(steps) = 0 /\ 1..Len(steps) = {}
    <2>1. Len(steps) = 0
      BY <1>2
    <2>2. 1..Len(steps) = {}
      BY <2>1
    <2>3. QED
      BY <1>2, <2>1, <2>2
  <1>4. Types /\ Nothing
    BY <1>1, <1>2, RecInvInit DEF RecInv, Nothing
  <1>5. Bounds
    BY <1>2, <1>4, Numbers DEF Bounds
  <1>6. Lasting /\ Coherent
    BY <1>2, <1>3, NothingLeft DEF Lasting
  <1>7. \A k, t : Count(k, t) = 0 /\ Logged(k, t) = 0
    BY <1>3, <1>4, NothingCounted, NoneAwaited DEF Logged, Pending, OneIf
  <1>8. Budgeted
    BY <1>2, <1>7, RecoveryAssumption DEF Budgeted, Recovered
  <1>9. Spent
    BY <1>2, <1>7, Ones DEF Spent
  <1>10. Counted
    <2>1. Gapped = {} /\ Lost = {}
      BY <1>3, NoneAwaited DEF Gapped, Lost, Fallen, Failed
    <2>2. RecoveredGaps \in Nat
      BY <1>4, CountTyped
    <2>3. GapsGapped /\ FewLost
      BY <1>2, <2>1, <2>2, FS_EmptySet DEF GapsGapped, FewLost
    <2>4. CompletedStay /\ GapsKept
      BY <1>2, <1>3 DEF CompletedStay, GapsKept, Recovered
    <2>5. QED
      BY <2>3, <2>4 DEF Counted
  <1>11. Validated
    BY <1>2, <1>3 DEF Validated, Alive, Reopened, SeenEnded, SeenLogged, CheckedOrComing, GraphValidationSeen
  <1>12. QED
    BY <1>5, <1>6, <1>8, <1>9, <1>10, <1>11 DEF HistInv

LEMMA HistInvNext == RecInv /\ HistInv /\ CalmStep => HistInv'
  <1>1. SUFFICES ASSUME RecInv, HistInv, CalmStep PROVE HistInv'
    OBVIOUS
  <1>2. Bounds /\ Lasting /\ Coherent /\ Budgeted /\ Spent /\ Counted /\ Validated
    BY <1>1 DEF HistInv
  <1>3. Bounds' /\ Lasting' /\ Coherent'
    BY <1>1, <1>2, BoundsNext, LastingNext, CoherentNext
  <1>4. Budgeted' /\ Spent'
    BY <1>1, <1>2, BudgetedNext, SpentNext
  <1>5. Counted'
    BY <1>1, <1>2, GappedNext, LostNext, CompletedStayNext, GapsKeptNext DEF Counted
  <1>6. Validated'
    BY <1>1, <1>2, ValidatedNext
  <1>7. QED
    BY <1>3, <1>4, <1>5, <1>6 DEF HistInv

HistCalm == Faults /\ (strays = 0 => RecInv /\ HistInv)

LEMMA HistCalmNext == HistCalm /\ [Next]_vars => HistCalm'
  <1>1. SUFFICES ASSUME HistCalm, [Next]_vars, strays' = 0 PROVE RecInv' /\ HistInv'
    BY FaultsNext DEF HistCalm
  <1>2. /\ strays = 0 /\ strays \in Nat /\ spawnFailures \in Nat /\ trips \in Nat /\ left = {}
        /\ RecInv /\ HistInv
    BY <1>1, FaultsNext DEF HistCalm, Faults
  <1>3. CalmStep
    BY <1>1, <1>2 DEF CalmStep
  <1>4. QED
    BY <1>1, <1>2, <1>3, RecInvNext, HistInvNext

\* Which writes have happened, which are pending and what the log says of it, as long as
\* the watchdog has left no goroutine behind.
THEOREM HistoriesKept == Spec => []HistCalm
  <1>1. Init => HistCalm
    BY RecInvInit, HistInvInit, FaultsInit DEF HistCalm
  <1>2. HistCalm /\ [Next]_vars => HistCalm'
    BY HistCalmNext
  <1>3. QED
    BY <1>1, <1>2, PTL DEF Spec

\* BVV-S-02a: as long as nobody re-opens a task and the watchdog leaves no goroutine behind
\* (ResolvedOnlyReopened says so), no resume takes one for re-opened, whatever the retries,
\* resets, failed spawns and crashes: a task's terminal event is not logged before its
\* terminal status is written, and nothing else takes that back.
THEOREM NobodyReopened == Spec => []ResolvedOnlyReopened
  <1>1. HistCalm => ResolvedOnlyReopened
    BY LastingResolved DEF HistCalm, RecInv, HistInv, ResolvedOnlyReopened
  <1>2. QED
    BY <1>1, HistoriesKept, PTL

\* BVV-ERR-01 and BVV-L-04 across crashes: of the sessions a crash leaves unlogged one
\* was held and one had its retry or handoff pending, and never more than one of each.  As
\* CrashCost says, for a run whose watchdog left no goroutine behind.
THEOREM CrashesCostTwo == Spec => []CrashCost
  <1>1. HistCalm => CrashCost
    BY SpentCrashCost DEF HistCalm, RecInv, HistInv, CrashCost
  <1>2. QED
    BY <1>1, HistoriesKept, PTL

\* BVV-ERR-05: a restart forgets at most the one gap between a failure's event and its own,
\* and a failed spawn gives up one task that no gap is recorded for.  Proved for as long as
\* the watchdog has left no goroutine behind.
THEOREM RestartsForgetOneGap == Spec => [](strays = 0 => GapLoss)
  <1>1. HistCalm => (strays = 0 => GapLoss)
    BY CountedGapLoss DEF HistCalm, Faults, RecInv, HistInv
  <1>2. QED
    BY <1>1, HistoriesKept, PTL

\* A task of the graph is assigned by a handler that has nothing to log.
LEMMA DispatchedUnlogged ==
  ASSUME RecInv, CalmStep, GraphDispatched
  PROVE  mode \in {"loop", "stopping"} /\ ~GraphComing
  <1>1. PICK t \in Tasks \ {Planner} : status[t] # "assigned" /\ status'[t] = "assigned"
    BY DEF GraphDispatched
  <1>2. Effect /\ Types /\ status \in [Tasks -> Status]
    BY Effects DEF RecInv, Types, Typed
  <1>3. Writes /\ mode \in {"loop", "stopping"}
    BY <1>1, <1>2 DEF Effect, Begins, Drops, Quiet, Resets, Dies, Run, Seed, Recover, ResolveReopen, Replay,
                      AgentPlans, HumanReopens, EditWorkOrder, ledger
  <1>4. PICK u \in Tasks, s \in Status : WritesTask(u, s)
    BY <1>1, <1>2, <1>3 DEF Writes, WritesOther, WritesSession, WritesEvent, Blocks
  <1>5. u = t /\ s = "assigned" /\ Moves(u, s)
    BY <1>1, <1>2, <1>4 DEF WritesTask
  <1>6. PICK w \in Workers : Assigning(t, w)
    BY <1>5 DEF Moves, Terminal
  <1>7. \A i \in 1..Len(steps) : i \in {1, 2, 3, 4}
    BY <1>6 DEF Assigning
  <1>8. ~GraphComing
    BY <1>6, <1>7, StepFields DEF GraphComing, Emits, Assigning
  <1>9. QED
    BY <1>3, <1>8

\* BVV-TG-07..10 across crashes: no task of the graph of a completed planner is assigned
\* before that graph has been looked at, in a history without a goroutine left behind.  The
\* graph event of a planner is logged with its completion, replayed if a crash took it, or
\* there already and then not withdrawn.
THEOREM OnlyCheckedGraphs == Spec /\ [](strays = 0) => OnlyCheckedDispatched
  <1>1. ASSUME RecInv, HistInv, CalmStep,
               GraphDispatched, status[Planner] = "completed", runs = 1, CompletionsLogged
        PROVE  checked
    <2>1. mode \in {"loop", "stopping"} /\ ~GraphComing
      BY <1>1, DispatchedUnlogged
    <2>2. CheckedOrComing
      BY <1>1 DEF HistInv, Validated, OneRun
    <2>3. WillBe(Planner, {"completed"})
      BY <1>1 DEF WillBe
    <2>4. QED
      BY <2>1, <2>2, <2>3 DEF CheckedOrComing
  <1>2. HistCalm /\ strays = 0 /\ (strays = 0)' /\ [Next]_vars =>
          [(GraphDispatched /\ status[Planner] = "completed" /\ runs = 1 /\ CompletionsLogged) => checked]_vars
    <2>1. SUFFICES ASSUME HistCalm, strays = 0, strays' = 0, [Next]_vars
                   PROVE  (GraphDispatched /\ status[Planner] = "completed" /\ runs = 1
                             /\ CompletionsLogged) => checked
      OBVIOUS
    <2>2. RecInv /\ HistInv /\ CalmStep
      BY <2>1 DEF HistCalm, Faults, CalmStep
    <2>3. QED
      BY <1>1, <2>2
  <1>3. QED
    BY <1>2, HistoriesKept, PTL DEF Spec, OnlyCheckedDispatched
=============================================================================
