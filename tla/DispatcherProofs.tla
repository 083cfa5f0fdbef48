-------------------------- MODULE DispatcherProofs --------------------------
(***************************************************************************)
(* Safety of the dispatch loop for every branch, every pool size, every    *)
(* budget and every number of failing calls: first without a watchdog      *)
(* (Spec), then under supervision (SSpec) the session budget, the bound on *)
(* the outcomes to come and the end of the lifecycle.                      *)
(*                                                                         *)
(* The invariant the proofs rest on is IInv: besides the types it says     *)
(* which tasks the pending outcomes are about (OutcomesCurrent), that the  *)
(* task being spawned is still assigned to the worker it is spawned on     *)
(* and that the rest of the ready snapshot is still ready (SnapshotCurrent).*)
(* Without the latter OutcomesCurrent is not inductive: a spawn could      *)
(* launch a second goroutine for a task that has one.                      *)
(* Supervision breaks IInv; OutcomesInv counts instead: every outcome to   *)
(* come is paid for by an active worker or by a gap.                       *)
(***************************************************************************)
EXTENDS Supervision, SequenceTheorems, FiniteSetTheorems, TLAPS

-----------------------------------------------------------------------------
(* The channel *)

LEMMA ReceiveFacts ==
  ASSUME NEW S, NEW q \in Seq(S), q # <<>>
  PROVE  /\ Head(q) = q[1]
         /\ q[1] \in S
         /\ Tail(q) \in Seq(S)
         /\ Len(Tail(q)) = Len(q) - 1
         /\ Len(q) >= 1
         /\ \A i \in 1..Len(Tail(q)) : i + 1 \in 1..Len(q) /\ Tail(q)[i] = q[i + 1]
  BY SMT

LEMMA SendFacts ==
  ASSUME NEW S, NEW q \in Seq(S), NEW e \in S
  PROVE  /\ Append(q, e) \in Seq(S)
         /\ Len(Append(q, e)) = Len(q) + 1
         /\ \A i \in 1..Len(q) : Append(q, e)[i] = q[i]
         /\ Append(q, e)[Len(q) + 1] = e
  BY SMT

-----------------------------------------------------------------------------
(* Type correctness *)

LEMMA ConstantFacts ==
  /\ NoTask \notin Tasks
  /\ NoWorker \notin Workers
  /\ Workers \subseteq Nat
  /\ BufSize \in Nat
  /\ BufSize >= MaxWorkers
  BY TasksAssumption, LimitsAssumption DEF NoTask, NoWorker, Workers, BufSize

\* The part of TypeOK that handlers change.
LedgerTypeOK ==
  /\ status \in [Tasks -> Status]
  /\ assignee \in [Tasks -> Workers \cup {NoWorker}]
  /\ escalation \in [Tasks -> EscalationStatus]
  /\ current \in [Workers -> Tasks \cup {NoTask}]
  /\ session \in [Workers -> Tasks \cup {NoTask}]
  /\ retries \in [Tasks -> 0..MaxRetries]
  /\ handoffs \in [Tasks -> 0..MaxHandoffs]
  /\ gaps \in Nat
  /\ aborted \in BOOLEAN
  /\ reason \in AbortReason

LEMMA StrikeType ==
  ASSUME NEW f, Strike(f), faults \in 0..MaxFaults
  PROVE  faults' \in 0..MaxFaults
  BY LimitsAssumption DEF Strike

LEMMA ReleaseType ==
  ASSUME LedgerTypeOK, NEW w \in Workers, NEW f, Release(w, f)
  PROVE  /\ current' \in [Workers -> Tasks \cup {NoTask}]
         /\ session' \in [Workers -> Tasks \cup {NoTask}]
         /\ \A v \in Workers : v # w => current'[v] = current[v]
         /\ f # "release" => current'[w] = NoTask
         /\ f = "release" => current'[w] = current[w]
  BY DEF LedgerTypeOK, Release

\* What an abort does to the records: it blocks open tasks, nothing else.
LEMMA AbortEffect ==
  ASSUME LedgerTypeOK, NEW st \in [Tasks -> Status],
         NEW esc \in [Tasks -> EscalationStatus],
         NEW why \in AbortReason \ {""}, NEW f,
         AbortLifecycle(st, esc, why, f)
  PROVE  /\ status' \in [Tasks -> Status]
         /\ escalation' \in [Tasks -> EscalationStatus]
         /\ aborted' = TRUE
         /\ reason' \in AbortReason \ {""}
         /\ reason # "" => reason' = reason
         /\ reason = "" => reason' = why
         /\ \A t \in Tasks : \/ status'[t] = st[t]
                             \/ st[t] = "open" /\ status'[t] = "blocked"
  <1>1. /\ aborted' = TRUE
        /\ reason' = IF reason = "" THEN why ELSE reason
        /\ reason \in AbortReason
    BY DEF LedgerTypeOK, AbortLifecycle
  <1>2. PICK missed :
          /\ status' = [t \in Tasks |->
               IF st[t] = "open" /\ t \notin missed THEN "blocked" ELSE st[t]]
          /\ escalation' = [t \in Tasks |->
               IF esc[t] = "open" /\ t \notin missed THEN "blocked" ELSE esc[t]]
    BY DEF AbortLifecycle, AbortCleanup
  <1>3. \A t \in Tasks : \/ status'[t] = st[t]
                         \/ st[t] = "open" /\ status'[t] = "blocked"
    BY <1>2
  <1>4. status' \in [Tasks -> Status]
    BY <1>2 DEF Status
  <1>5. escalation' \in [Tasks -> EscalationStatus]
    BY <1>2 DEF EscalationStatus
  <1>6. QED
    BY <1>1, <1>3, <1>4, <1>5

\* handleTerminalFailure and the post-success hook leave the statuses they are
\* given, but for open tasks that an abort blocks.
LEMMA TerminalFailureEffect ==
  ASSUME LedgerTypeOK, NEW t \in Tasks, NEW st \in [Tasks -> Status], NEW f,
         HandleTerminalFailure(t, st, f)
  PROVE  /\ status' \in [Tasks -> Status]
         /\ escalation' \in [Tasks -> EscalationStatus]
         /\ aborted' \in BOOLEAN
         /\ reason' \in AbortReason
         /\ gaps' \in Nat
         /\ \A u \in Tasks : \/ status'[u] = st[u]
                             \/ st[u] = "open" /\ status'[u] = "blocked"
  <1>0. escalation \in [Tasks -> EscalationStatus] /\ gaps \in Nat
    BY DEF LedgerTypeOK
  <1>1. CASE t \in Critical
    <2>1. AbortLifecycle(st, escalation, "critical_task_failure", f) /\ gaps' = gaps
      BY <1>1 DEF HandleTerminalFailure
    <2>2. "critical_task_failure" \in AbortReason \ {""}
      BY DEF AbortReason
    <2>3. QED
      BY <1>0, <2>1, <2>2, AbortEffect
  <1>2. CASE t \notin Critical /\ GapAborts
    <2>1. AbortLifecycle(st, escalation, "gap_tolerance_exceeded", f) /\ gaps' = gaps + 1
      BY <1>2 DEF HandleTerminalFailure
    <2>2. "gap_tolerance_exceeded" \in AbortReason \ {""}
      BY DEF AbortReason
    <2>3. gaps' \in Nat
      BY <1>0, <2>1
    <2>4. QED
      BY <1>0, <2>1, <2>2, <2>3, AbortEffect
  <1>3. CASE t \notin Critical /\ ~GapAborts
    BY <1>3 DEF HandleTerminalFailure, LedgerTypeOK
  <1>4. QED
    BY <1>1, <1>2, <1>3

LEMMA PostSuccessEffect ==
  ASSUME LedgerTypeOK, NEW t \in Tasks, NEW st \in [Tasks -> Status], NEW f,
         PostSuccessHook(t, st, f)
  PROVE  /\ status' \in [Tasks -> Status]
         /\ escalation' \in [Tasks -> EscalationStatus]
         /\ aborted' \in BOOLEAN
         /\ reason' \in AbortReason
         /\ \A u \in Tasks : \/ status'[u] = st[u]
                             \/ st[u] = "open" /\ status'[u] = "blocked"
  <1> DEFINE esc == [escalation EXCEPT ![t] = IF @ = "none" /\ f # "create" THEN "open" ELSE @]
  <1>1. CASE t \in Planners /\ AbortLifecycle(st, esc, "graph_invalid", f)
    <2>1. esc \in [Tasks -> EscalationStatus]
      BY DEF LedgerTypeOK, EscalationStatus
    <2>2. "graph_invalid" \in AbortReason \ {""}
      BY DEF AbortReason
    <2> HIDE DEF esc
    <2>3. QED
      BY <1>1, <2>1, <2>2, AbortEffect
  <1>2. CASE status' = st /\ UNCHANGED <<escalation, aborted, reason>>
    BY <1>2 DEF LedgerTypeOK
  <1>3. QED
    BY <1>1, <1>2 DEF PostSuccessHook

\* What one processed outcome does to the ledger: only its own task and worker
\* change, and open tasks that an abort blocks.  If no call fails, the task
\* runs on with its worker or the two part.
Moves(t, w, f) ==
  /\ LedgerTypeOK'
  /\ \A u \in Tasks \ {t} :
       /\ assignee'[u] = assignee[u]
       /\ \/ status'[u] = status[u]
          \/ status[u] = "open" /\ status'[u] = "blocked"
  /\ \A v \in Workers \ {w} : current'[v] = current[v]
  /\ f = "none" =>
       \/ status'[t] \notin Running /\ current'[w] = NoTask
       \/ status'[t] = "in_progress" /\ assignee'[t] = w /\ current'[w] = t

LEMMA HandleFailureMoves ==
  ASSUME LedgerTypeOK, NEW t \in Tasks, NEW w \in Workers, NEW f,
         NEW s \in [Workers -> Tasks \cup {NoTask}],
         HandleFailure(t, w, f, s),
         handoffs' \in [Tasks -> 0..MaxHandoffs]
  PROVE  Moves(t, w, f)
  <1>1. CASE f = "update"
    BY <1>1 DEF HandleFailure, OutcomeLost, LedgerTypeOK, Moves, ledger
  <1>2. CASE f # "update" /\ CanRetry(t) /\ f # "retry"
    <2>1. RetryTask(t, w, f)
      BY <1>2 DEF HandleFailure
    <2>2. /\ current' \in [Workers -> Tasks \cup {NoTask}]
          /\ session' \in [Workers -> Tasks \cup {NoTask}]
          /\ \A v \in Workers : v # w => current'[v] = current[v]
          /\ f = "none" => current'[w] = NoTask
      BY <2>1, ReleaseType DEF RetryTask
    <2>3. retries' \in [Tasks -> 0..MaxRetries]
      BY <2>1, <1>2, LimitsAssumption DEF RetryTask, CanRetry, LedgerTypeOK
    <2>4. QED
      BY <2>1, <2>2, <2>3 DEF RetryTask, LedgerTypeOK, Moves, Status, Running
  <1>3. CASE f # "update" /\ ~(CanRetry(t) /\ f # "retry")
    <2> DEFINE st == [status EXCEPT ![t] = "failed"]
    <2>1. /\ TerminateAndRelease(t, w, f)
          /\ HandleTerminalFailure(t, st, f)
          /\ UNCHANGED retries
      BY <1>3 DEF HandleFailure
    <2>2. st \in [Tasks -> Status]
      BY DEF LedgerTypeOK, Status
    <2>3. /\ current' \in [Workers -> Tasks \cup {NoTask}]
          /\ session' \in [Workers -> Tasks \cup {NoTask}]
          /\ \A v \in Workers : v # w => current'[v] = current[v]
          /\ f = "none" => current'[w] = NoTask
      BY <2>1, ReleaseType DEF TerminateAndRelease
    <2>4. st[t] = "failed" /\ \A u \in Tasks \ {t} : st[u] = status[u]
      BY DEF LedgerTypeOK
    <2> HIDE DEF st
    <2>5. status'[t] \notin Running
      BY <2>1, <2>2, <2>4, TerminalFailureEffect DEF Running
    <2>6. QED
      BY <2>1, <2>2, <2>3, <2>4, <2>5, TerminalFailureEffect
      DEF TerminateAndRelease, LedgerTypeOK, Moves
  <1>4. QED
    BY <1>1, <1>2, <1>3

LEMMA HandleHandoffMoves ==
  ASSUME LedgerTypeOK, NEW t \in Tasks, NEW w \in Workers, NEW f,
         HandleHandoff(t, w, f)
  PROVE  Moves(t, w, f)
  <1>1. handoffs' \in [Tasks -> 0..MaxHandoffs]
    BY LimitsAssumption DEF HandleHandoff, TryRecord, LedgerTypeOK
  <1>2. CASE SpawnSession(t, w, w) /\ UNCHANGED <<escalation, retries, gaps, aborted, reason>>
    BY <1>1, <1>2 DEF SpawnSession, LedgerTypeOK, Moves, Status
  <1>3. CASE HandleFailure(t, w, f, [session EXCEPT ![w] = NoTask])
    <2>1. [session EXCEPT ![w] = NoTask] \in [Workers -> Tasks \cup {NoTask}]
      BY DEF LedgerTypeOK
    <2>2. QED
      BY <1>1, <1>3, <2>1, HandleFailureMoves
  <1>4. CASE HandleFailure(t, w, f, session)
    <2>1. session \in [Workers -> Tasks \cup {NoTask}]
      BY DEF LedgerTypeOK
    <2>2. QED
      BY <1>1, <1>4, <2>1, HandleFailureMoves
  <1>5. QED
    BY <1>2, <1>3, <1>4 DEF HandleHandoff

LEMMA ProcessOutcomeMoves ==
  ASSUME LedgerTypeOK, NEW o \in TaskOutcome, NEW f, ProcessOutcome(o, f)
  PROVE  Moves(o.task, o.worker, f)
  <1> DEFINE t == o.task
             w == o.worker
  <1>0. t \in Tasks /\ w \in Workers
    BY DEF TaskOutcome
  <1>1. CASE o.outcome = "success" /\ HandleSuccess(t, w, f) /\ UNCHANGED handoffs
    <2> DEFINE st == [status EXCEPT ![t] = "completed"]
    <2>1. CASE f = "update"
      BY <1>1, <2>1 DEF HandleSuccess, OutcomeLost, LedgerTypeOK, Moves, ledger
    <2>2. CASE f # "update"
      <3>1. /\ TerminateAndRelease(t, w, f)
            /\ PostSuccessHook(t, st, f)
            /\ UNCHANGED <<retries, gaps>>
        BY <1>1, <2>2 DEF HandleSuccess
      <3>2. st \in [Tasks -> Status]
        BY <1>0 DEF LedgerTypeOK, Status
      <3>3. /\ current' \in [Workers -> Tasks \cup {NoTask}]
            /\ session' \in [Workers -> Tasks \cup {NoTask}]
            /\ \A v \in Workers : v # w => current'[v] = current[v]
            /\ f = "none" => current'[w] = NoTask
        BY <1>0, <3>1, ReleaseType DEF TerminateAndRelease
      <3>4. st[t] = "completed" /\ \A u \in Tasks \ {t} : st[u] = status[u]
        BY <1>0 DEF LedgerTypeOK
      <3> HIDE DEF st, t, w
      <3>5. status'[t] \notin Running
        BY <1>0, <3>1, <3>2, <3>4, PostSuccessEffect DEF Running
      <3>6. Moves(t, w, f)
        BY <1>0, <1>1, <3>1, <3>2, <3>3, <3>4, <3>5, PostSuccessEffect
        DEF TerminateAndRelease, LedgerTypeOK, Moves
      <3>7. QED
        BY <3>6 DEF t, w
    <2>3. QED
      BY <2>1, <2>2
  <1>2. CASE o.outcome = "failure" /\ HandleFailure(t, w, f, session) /\ UNCHANGED handoffs
    <2>1. /\ session \in [Workers -> Tasks \cup {NoTask}]
          /\ handoffs' \in [Tasks -> 0..MaxHandoffs]
      BY <1>2 DEF LedgerTypeOK
    <2>2. QED
      BY <1>0, <1>2, <2>1, HandleFailureMoves
  <1>3. CASE o.outcome = "blocked" /\ HandleBlocked(t, w, f) /\ UNCHANGED handoffs
    <2> DEFINE st == [status EXCEPT ![t] = "blocked"]
    <2>1. CASE f = "update"
      BY <1>3, <2>1 DEF HandleBlocked, OutcomeLost, LedgerTypeOK, Moves, ledger
    <2>2. CASE f # "update"
      <3>1. /\ TerminateAndRelease(t, w, f)
            /\ HandleTerminalFailure(t, st, f)
            /\ UNCHANGED retries
        BY <1>3, <2>2 DEF HandleBlocked
      <3>2. st \in [Tasks -> Status]
        BY <1>0 DEF LedgerTypeOK, Status
      <3>3. /\ current' \in [Workers -> Tasks \cup {NoTask}]
            /\ session' \in [Workers -> Tasks \cup {NoTask}]
            /\ \A v \in Workers : v # w => current'[v] = current[v]
            /\ f = "none" => current'[w] = NoTask
        BY <1>0, <3>1, ReleaseType DEF TerminateAndRelease
      <3>4. st[t] = "blocked" /\ \A u \in Tasks \ {t} : st[u] = status[u]
        BY <1>0 DEF LedgerTypeOK
      <3> HIDE DEF st, t, w
      <3>5. status'[t] \notin Running
        BY <1>0, <3>1, <3>2, <3>4, TerminalFailureEffect DEF Running
      <3>6. Moves(t, w, f)
        BY <1>0, <1>3, <3>1, <3>2, <3>3, <3>4, <3>5, TerminalFailureEffect
        DEF TerminateAndRelease, LedgerTypeOK, Moves
      <3>7. QED
        BY <3>6 DEF t, w
    <2>3. QED
      BY <2>1, <2>2
  <1>4. CASE o.outcome = "handoff" /\ HandleHandoff(t, w, f)
    BY <1>0, <1>4, HandleHandoffMoves
  <1>5. QED
    BY <1>1, <1>2, <1>3, <1>4 DEF ProcessOutcome

LEMMA TypeSplit ==
  TypeOK <=>
    /\ LedgerTypeOK
    /\ sidecar \in [Tasks -> ExitCodes \cup {NoCode}]
    /\ monitors \subseteq Monitor
    /\ outcomes \in Seq(TaskOutcome)
    /\ Len(outcomes) <= BufSize
    /\ cancelled \in BOOLEAN
    /\ phase \in Phase
    /\ todo \subseteq Tasks
    /\ spawning \in [task: Tasks \cup {NoTask}, worker: Workers \cup {NoWorker}]
    /\ (phase = "spawn") => (spawning.task \in Tasks /\ spawning.worker \in Workers)
    /\ result \in Result
    /\ faults \in 0..MaxFaults
  BY DEF TypeOK, LedgerTypeOK

\* One iteration of Drain: the head of the channel is consumed and moves its
\* task and its worker.
LEMMA DrainOneMoves ==
  ASSUME TypeOK, DrainOne
  PROVE  /\ outcomes # <<>>
         /\ outcomes' = Tail(outcomes)
         /\ outcomes[1] \in TaskOutcome
         /\ phase \in {"drain", "final"}
         /\ UNCHANGED <<sidecar, monitors, control>>
         /\ faults' \in 0..MaxFaults
         /\ \E f \in FaultKind :
              Strike(f) /\ Moves(outcomes[1].task, outcomes[1].worker, f)
  <1>1. PICK f \in FaultKind : Strike(f) /\ ProcessOutcome(Head(outcomes), f)
    BY DEF DrainOne
  <1>2. outcomes \in Seq(TaskOutcome) /\ outcomes # <<>> /\ LedgerTypeOK /\ faults \in 0..MaxFaults
    BY TypeSplit DEF DrainOne
  <1>3. Head(outcomes) = outcomes[1] /\ outcomes[1] \in TaskOutcome
    BY <1>2, ReceiveFacts
  <1>4. Moves(outcomes[1].task, outcomes[1].worker, f)
    BY <1>1, <1>2, <1>3, ProcessOutcomeMoves
  <1>5. faults' \in 0..MaxFaults
    BY <1>1, <1>2, StrikeType
  <1>6. QED
    BY <1>1, <1>2, <1>3, <1>4, <1>5 DEF DrainOne

LEMMA TypeInit == Init => TypeOK
  <1> SUFFICES ASSUME Init PROVE TypeOK
    OBVIOUS
  <1>0. aborted \in BOOLEAN /\ cancelled \in BOOLEAN
    BY Zenon DEF Init
  <1>t. /\ status \in [Tasks -> {"open"} \cup Terminal]
        /\ assignee \in [Tasks -> Workers \cup {NoWorker}]
        /\ escalation = [t \in Tasks |-> "none"]
        /\ current = [w \in Workers |-> NoTask]
        /\ session = [w \in Workers |-> NoTask]
        /\ reason = ""
        /\ phase = "sleep"
        /\ result = "none"
    BY Zenon DEF Init
  <1>c. /\ retries = [t \in Tasks |-> 0]
        /\ handoffs = [t \in Tasks |-> 0]
        /\ gaps = 0
        /\ faults = 0
    BY Zenon DEF Init
  <1>q. outcomes = <<>>
    BY Zenon DEF Init
  <1>1. LedgerTypeOK
    <2>1. /\ status \in [Tasks -> Status]
          /\ escalation \in [Tasks -> EscalationStatus]
          /\ reason \in AbortReason
      BY <1>t DEF Status, Terminal, EscalationStatus, AbortReason
    <2>2. /\ assignee \in [Tasks -> Workers \cup {NoWorker}]
          /\ current \in [Workers -> Tasks \cup {NoTask}]
          /\ session \in [Workers -> Tasks \cup {NoTask}]
      BY <1>t
    <2>3. /\ retries \in [Tasks -> 0..MaxRetries]
          /\ handoffs \in [Tasks -> 0..MaxHandoffs]
          /\ gaps \in Nat
      BY <1>c, LimitsAssumption
    <2>4. QED
      BY <1>0, <2>1, <2>2, <2>3 DEF LedgerTypeOK
  <1>2. outcomes \in Seq(TaskOutcome) /\ Len(outcomes) <= BufSize
    BY <1>q, ConstantFacts, LimitsAssumption
  <1>3. spawning \in [task: Tasks \cup {NoTask}, worker: Workers \cup {NoWorker}]
    BY DEF Init, NoSpawn
  <1>4. /\ sidecar \in [Tasks -> ExitCodes \cup {NoCode}]
        /\ monitors \subseteq Monitor
        /\ todo \subseteq Tasks
    BY DEF Init
  <1>5. faults \in 0..MaxFaults
    BY <1>c, LimitsAssumption
  <1>6. phase \in Phase /\ result \in Result /\ phase # "spawn"
    BY <1>t DEF Phase, Result
  <1>7. QED
    BY <1>0, <1>1, <1>2, <1>3, <1>4, <1>5, <1>6, TypeSplit

LEMMA TypeStep == TypeOK /\ [Next]_vars => TypeOK'
  <1> SUFFICES ASSUME TypeOK, [Next]_vars PROVE TypeOK'
    OBVIOUS
  <1> USE DEF ledger, agents, budgets, control
  <1>1. CASE DrainOne
    <2>1. /\ Tail(outcomes) \in Seq(TaskOutcome)
          /\ Len(Tail(outcomes)) = Len(outcomes) - 1
          /\ Len(outcomes) \in Nat
      BY <1>1, DrainOneMoves, ReceiveFacts, TypeSplit
    <2>2. Len(outcomes') <= BufSize
      BY <1>1, <2>1, DrainOneMoves, ConstantFacts DEF TypeOK
    <2>3. LedgerTypeOK'
      BY <1>1, DrainOneMoves DEF Moves
    <2>4. QED
      BY <1>1, <2>1, <2>2, <2>3, DrainOneMoves DEF TypeOK, LedgerTypeOK
  <1>2. CASE StartTick
    BY <1>2 DEF StartTick, TypeOK, Goto, Return, Phase, Result
  <1>3. CASE DrainDone
    BY <1>3 DEF DrainDone, TypeOK, Goto, Phase
  <1>4. CASE CheckAbort
    <2>1. faults' \in 0..MaxFaults
      BY <1>4, StrikeType DEF CheckAbort, TypeOK
    <2>2. QED
      BY <1>4, <2>1 DEF CheckAbort, TypeOK, Return, Phase, Result
  <1>5. CASE CreateEscalation
    <2>1. PICK t \in UnknownRole, f \in {"none", "create", "update"} :
            /\ Strike(f)
            /\ escalation' = IF f = "create" THEN escalation
                 ELSE [escalation EXCEPT ![t] = IF @ = "none" THEN "open" ELSE @]
            /\ status' = IF f = "update" THEN status
                 ELSE [status EXCEPT ![t] = "blocked"]
            /\ todo' = todo \ {t}
      BY <1>5 DEF CreateEscalation
    <2>2. faults' \in 0..MaxFaults
      BY <2>1, StrikeType DEF TypeOK
    <2>3. status' \in [Tasks -> Status] /\ escalation' \in [Tasks -> EscalationStatus]
      BY <2>1 DEF TypeOK, Status, EscalationStatus
    <2>4. QED
      BY <1>5, <2>1, <2>2, <2>3 DEF CreateEscalation, TypeOK
  <1>6. CASE Assign
    BY <1>6 DEF Assign, TypeOK, Status, Phase
  <1>7. CASE AssignFails
    <2>1. PICK w \in Workers : Release(w, "none")
      BY <1>7 DEF AssignFails
    <2>2. faults' \in 0..MaxFaults
      BY <1>7, StrikeType DEF AssignFails, TypeOK
    <2>3. /\ current' \in [Workers -> Tasks \cup {NoTask}]
          /\ session' \in [Workers -> Tasks \cup {NoTask}]
      BY <2>1, ReleaseType, TypeSplit
    <2>4. QED
      BY <1>7, <2>2, <2>3 DEF AssignFails, TypeOK
  <1>8. CASE DispatchDone
    <2>1. faults' \in 0..MaxFaults
      BY <1>8, StrikeType DEF DispatchDone, TypeOK
    <2>2. QED
      BY <1>8, <2>1 DEF DispatchDone, TypeOK, Phase
  <1>9. CASE Spawn
    <2>1. spawning.task \in Tasks /\ spawning.worker \in Workers
      BY <1>9 DEF Spawn, TypeOK
    <2>2. [task |-> spawning.task, worker |-> spawning.worker,
           attempt |-> retries[spawning.task], outcome |-> "none"] \in Monitor
      BY <2>1 DEF TypeOK, Monitor
    <2>3. QED
      BY <1>9, <2>1, <2>2 DEF Spawn, SpawnSession, TypeOK, Status, Phase, NoSpawn
  <1>10. CASE SpawnFails
    <2>1. spawning.task \in Tasks /\ spawning.worker \in Workers
      BY <1>10 DEF SpawnFails, TypeOK
    <2>2. PICK f \in {"none", "read", "update", "release"} :
            /\ Strike(f)
            /\ assignee' = IF f = "read" THEN [assignee EXCEPT ![spawning.task] = NoWorker]
                           ELSE assignee
            /\ status' = IF f = "update" THEN status
                         ELSE [status EXCEPT ![spawning.task] = "failed"]
            /\ Release(spawning.worker, f)
      BY <1>10 DEF SpawnFails
    <2>3. faults' \in 0..MaxFaults
      BY <2>2, StrikeType DEF TypeOK
    <2>4. /\ current' \in [Workers -> Tasks \cup {NoTask}]
          /\ session' \in [Workers -> Tasks \cup {NoTask}]
      BY <2>1, <2>2, ReleaseType, TypeSplit
    <2>5. status' \in [Tasks -> Status] /\ assignee' \in [Tasks -> Workers \cup {NoWorker}]
      BY <2>1, <2>2 DEF TypeOK, Status
    <2>6. QED
      BY <1>10, <2>3, <2>4, <2>5 DEF SpawnFails, TypeOK, Phase, NoSpawn
  <1>11. CASE CheckTermination
    <2>1. faults' \in 0..MaxFaults
      BY <1>11, StrikeType DEF CheckTermination, TypeOK
    <2>2. QED
      BY <1>11, <2>1 DEF CheckTermination, TypeOK, Goto, Return, Phase, Result
  <1>12. CASE WaitDone
    BY <1>12 DEF WaitDone, TypeOK, Goto, Phase
  <1>13. CASE Cleanup
    <2>1. faults' \in 0..MaxFaults
      BY <1>13, StrikeType DEF Cleanup, TypeOK
    <2>2. QED
      BY <1>13, <2>1 DEF Cleanup, TypeOK, Goto, Phase
  <1>14. CASE NoWatchdog
    BY <1>14 DEF NoWatchdog, TypeOK, Goto, Phase
  <1>15. CASE Signal
    BY <1>15 DEF Signal, TypeOK
  <1>16. ASSUME NEW w \in Workers, AgentStep(w) PROVE TypeOK'
    <2>1. session[w] \in Tasks
      BY <1>16 DEF AgentStep, AgentExit, AgentKilled, TypeOK
    <2>2. sidecar' \in [Tasks -> ExitCodes \cup {NoCode}]
      BY <1>16, <2>1 DEF AgentStep, AgentExit, AgentKilled, TypeOK
    <2>3. session' \in [Workers -> Tasks \cup {NoTask}]
      BY <1>16 DEF AgentStep, AgentExit, AgentKilled, TypeOK
    <2>4. QED
      BY <1>16, <2>2, <2>3 DEF AgentStep, AgentExit, AgentKilled, TypeOK
  <1>17. ASSUME NEW m \in monitors, MonitorStep(m) PROVE TypeOK'
    <2>1. m \in Monitor
      BY DEF TypeOK
    <2>2. CASE MonitorExit(m)
      <3>1. DetermineOutcome(sidecar[m.task]) \in AgentOutcome
        BY DEF DetermineOutcome, AgentOutcome
      <3>2. monitors' \subseteq Monitor
        BY <2>1, <2>2, <3>1 DEF MonitorExit, Determined, Monitor, TypeOK
      <3>3. QED
        BY <2>2, <3>2 DEF MonitorExit, TypeOK
    <2>3. CASE MonitorKill(m)
      <3>1. monitors' \subseteq Monitor
        BY <2>1, <2>3 DEF MonitorKill, Determined, Monitor, AgentOutcome, TypeOK
      <3>2. faults' \in 0..MaxFaults
        BY <2>3, StrikeType DEF MonitorKill, TypeOK
      <3>3. QED
        BY <2>1, <2>3, <3>1, <3>2 DEF MonitorKill, Monitor, TypeOK
    <2>4. CASE MonitorSend(m)
      <3> DEFINE o == [task |-> m.task, worker |-> m.worker, outcome |-> m.outcome]
      <3>1. o \in TaskOutcome
        BY <2>1, <2>4 DEF MonitorSend, Monitor, TaskOutcome
      <3>2. outcomes' = Append(outcomes, o) /\ Len(outcomes) < BufSize
        BY <2>4 DEF MonitorSend
      <3>3. outcomes \in Seq(TaskOutcome) /\ Len(outcomes) \in Nat
        BY DEF TypeOK
      <3> HIDE DEF o
      <3>4. outcomes' \in Seq(TaskOutcome) /\ Len(outcomes') <= BufSize
        BY <3>1, <3>2, <3>3, SendFacts, ConstantFacts
      <3>5. QED
        BY <2>4, <3>4 DEF MonitorSend, TypeOK
    <2>5. QED
      BY <1>17, <2>2, <2>3, <2>4 DEF MonitorStep
  <1>18. ASSUME NEW t \in Tasks, ResolveEscalation(t) PROVE TypeOK'
    BY <1>18 DEF ResolveEscalation, TypeOK, EscalationStatus
  <1>19. CASE UNCHANGED vars
    BY <1>19 DEF vars, TypeOK
  <1>20. QED
    BY <1>1, <1>2, <1>3, <1>4, <1>5, <1>6, <1>7, <1>8, <1>9, <1>10, <1>11, <1>12,
       <1>13, <1>14, <1>15, <1>16, <1>17, <1>18, <1>19
    DEF Next, DispatchStep, Ended

\* Every value the dispatcher keeps stays in its range: in particular no retry
\* or handoff counter passes its budget (BVV-ERR-01, BVV-L-04) and the channel
\* never holds more than its buffer.
THEOREM TypeCorrect == Spec => []TypeOK
  BY TypeInit, TypeStep, PTL DEF Spec

-----------------------------------------------------------------------------
(* The inductive invariant *)

\* dispatch runs only in a tick that found the lifecycle not aborted.
DispatchingUnaborted == phase \in {"dispatch", "spawn"} => ~aborted

IInv ==
  /\ TypeOK
  /\ OutcomesCurrent
  /\ SnapshotCurrent
  /\ DependencyOrdering
  /\ WorkerOwnership
  /\ DispatchingUnaborted

\* A handler struck by no fault leaves the count of failed calls alone.
LEMMA StrikeClean ==
  ASSUME NEW f, Strike(f), faults \in 0..MaxFaults, faults' = 0
  PROVE  f = "none" /\ faults = 0
  BY LimitsAssumption DEF Strike

\* The domain of the channel's contents.
LEMMA ChannelDomain ==
  ASSUME TypeOK
  PROVE  /\ DOMAIN outcomes = 1..Len(outcomes)
         /\ \A i \in DOMAIN outcomes : outcomes[i] \in TaskOutcome
         /\ Len(outcomes) \in Nat
  BY DEF TypeOK

LEMMA IInvInit == Init => IInv
  <1> SUFFICES ASSUME Init PROVE IInv
    OBVIOUS
  <1>1. TypeOK
    BY TypeInit
  <1>2. /\ status \in [Tasks -> {"open"} \cup Terminal]
        /\ current = [w \in Workers |-> NoTask]
        /\ monitors = {}
        /\ phase = "sleep"
    BY Zenon DEF Init
  <1>3. outcomes = <<>>
    BY Zenon DEF Init
  <1>4. OutcomesCurrent
    BY <1>2, <1>3 DEF OutcomesCurrent
  <1>5. DependencyOrdering /\ WorkerOwnership
    BY <1>2 DEF DependencyOrdering, WorkerOwnership, Running, Terminal
  <1>6. SnapshotCurrent /\ DispatchingUnaborted
    BY <1>2 DEF SnapshotCurrent, DispatchingUnaborted
  <1>7. QED
    BY <1>1, <1>4, <1>5, <1>6 DEF IInv

\* Two pending outcomes of different tasks are on different workers, so what
\* happens to one task and its worker leaves the others current.
LEMMA DrainKeepsCurrent ==
  ASSUME IInv, DrainOne
  PROVE  OutcomesCurrent'
  <1> DEFINE h == outcomes[1]
  <1>1. PICK f \in FaultKind : Strike(f) /\ Moves(h.task, h.worker, f)
    BY DrainOneMoves DEF IInv
  <1>2. /\ outcomes # <<>>
        /\ outcomes' = Tail(outcomes)
        /\ h \in TaskOutcome
        /\ monitors' = monitors
    BY DrainOneMoves DEF IInv
  <1>3. outcomes \in Seq(TaskOutcome) /\ monitors \subseteq Monitor
    BY DEF IInv, TypeOK
  <1>4. h.task \in Tasks /\ h.worker \in Workers
    BY <1>2 DEF TaskOutcome
  <1>5. /\ 1 \in DOMAIN outcomes
        /\ DOMAIN outcomes' = 1..Len(Tail(outcomes))
        /\ \A i \in DOMAIN outcomes' :
             /\ i + 1 \in DOMAIN outcomes
             /\ i + 1 # 1
             /\ outcomes'[i] = outcomes[i + 1]
    BY <1>2, <1>3, ReceiveFacts
  <1>6. current[h.worker] = h.task
    BY <1>5 DEF IInv, OutcomesCurrent
  <1>7. \A t \in Tasks, w \in Workers :
          status[t] = "in_progress" /\ current[w] = t /\ t # h.task
            => status'[t] = "in_progress" /\ current'[w] = t
    BY <1>1, <1>4, <1>6 DEF Moves
  <1>8. \A m \in monitors : m.task \in Tasks /\ m.worker \in Workers /\ m.task # h.task
    BY <1>3, <1>5 DEF IInv, OutcomesCurrent, Monitor
  <1>9. \A i \in DOMAIN outcomes' :
          /\ outcomes'[i].task \in Tasks
          /\ outcomes'[i].worker \in Workers
          /\ outcomes'[i].task # h.task
    <2> SUFFICES ASSUME NEW i \in DOMAIN outcomes'
                 PROVE  /\ outcomes'[i].task \in Tasks
                        /\ outcomes'[i].worker \in Workers
                        /\ outcomes'[i].task # h.task
      OBVIOUS
    <2>1. i + 1 \in DOMAIN outcomes /\ i + 1 # 1 /\ outcomes'[i] = outcomes[i + 1]
      BY <1>5
    <2>2. outcomes[i + 1].task # h.task
      BY <1>5, <2>1 DEF IInv, OutcomesCurrent
    <2>3. outcomes[i + 1] \in TaskOutcome
      BY <2>1, ChannelDomain DEF IInv
    <2>4. QED
      BY <2>1, <2>2, <2>3 DEF TaskOutcome
  <1> HIDE DEF h
  <1>10. \A m \in monitors : status'[m.task] = "in_progress" /\ current'[m.worker] = m.task
    BY <1>7, <1>8 DEF IInv, OutcomesCurrent
  <1>11. \A i \in DOMAIN outcomes' :
           /\ status'[outcomes'[i].task] = "in_progress"
           /\ current'[outcomes'[i].worker] = outcomes'[i].task
    BY <1>5, <1>7, <1>9 DEF IInv, OutcomesCurrent
  <1>12. \A i, j \in DOMAIN outcomes' : outcomes'[i].task = outcomes'[j].task => i = j
    <2> SUFFICES ASSUME NEW i \in DOMAIN outcomes', NEW j \in DOMAIN outcomes',
                        outcomes'[i].task = outcomes'[j].task
                 PROVE  i = j
      OBVIOUS
    <2>1. i + 1 = j + 1
      BY <1>5 DEF IInv, OutcomesCurrent
    <2>2. i \in Int /\ j \in Int
      BY <1>2, <1>3, <1>5
    <2>3. QED
      BY <2>1, <2>2
  <1>13. \A m \in monitors, i \in DOMAIN outcomes' : m.task # outcomes'[i].task
    BY <1>5 DEF IInv, OutcomesCurrent
  <1>14. QED
    BY <1>2, <1>10, <1>11, <1>12, <1>13 DEF IInv, OutcomesCurrent

\* The task of the outcome being processed was running, so it is nobody's
\* finished dependency; aborts only make open tasks terminal.
LEMMA DrainKeepsLedger ==
  ASSUME IInv, DrainOne
  PROVE  /\ DependencyOrdering'
         /\ WorkerOwnership'
         /\ \A t \in Tasks : status[t] \in Terminal => status'[t] = status[t]
         /\ \A t \in Tasks : status'[t] \in Running => status[t] \in Running
  <1> DEFINE t == outcomes[1].task
             w == outcomes[1].worker
  <1>1. PICK f \in FaultKind : Strike(f) /\ Moves(t, w, f)
    BY DrainOneMoves DEF IInv
  <1>2. t \in Tasks /\ w \in Workers
    BY DrainOneMoves DEF IInv, TaskOutcome
  <1>3. status[t] = "in_progress" /\ current[w] = t
    <2>1. 1 \in DOMAIN outcomes
      BY DrainOneMoves, ReceiveFacts, ChannelDomain DEF IInv, TypeOK
    <2>2. QED
      BY <2>1 DEF IInv, OutcomesCurrent
  <1> HIDE DEF t, w
  <1>4. \A u \in Tasks : status[u] \in Terminal => status'[u] = status[u]
    BY <1>1, <1>3 DEF Moves, Terminal
  <1>5. \A u \in Tasks : status'[u] \in Running => status[u] \in Running
    BY <1>1, <1>3 DEF Moves, Running
  <1>6. DependencyOrdering'
    <2>1. \A u \in Tasks : Deps[u] \subseteq Tasks
      BY DepsAssumption
    <2>2. QED
      BY <1>4, <1>5, <2>1 DEF IInv, DependencyOrdering
  <1>7. WorkerOwnership'
    <2> SUFFICES ASSUME faults' = 0
                 PROVE  /\ \A v \in Workers : current'[v] # NoTask =>
                             status'[current'[v]] \in Running /\ assignee'[current'[v]] = v
                        /\ \A u \in Tasks : status'[u] \in Running =>
                             assignee'[u] \in Workers /\ current'[assignee'[u]] = u
      BY DEF WorkerOwnership
    <2>1. f = "none" /\ faults = 0
      BY <1>1, StrikeClean DEF IInv, TypeOK
    <2>2. \/ status'[t] \notin Running /\ current'[w] = NoTask
          \/ status'[t] \in Running /\ assignee'[t] = w /\ current'[w] = t
      BY <1>1, <2>1 DEF Moves, Running
    <2>3. /\ \A v \in Workers : current[v] # NoTask =>
               status[current[v]] \in Running /\ assignee[current[v]] = v
          /\ \A u \in Tasks : status[u] \in Running =>
               assignee[u] \in Workers /\ current[assignee[u]] = u
      BY <2>1 DEF IInv, WorkerOwnership
    <2>4. /\ \A u \in Tasks \ {t} : assignee'[u] = assignee[u]
          /\ \A u \in Tasks \ {t} : status[u] \in Running => status'[u] = status[u]
          /\ \A v \in Workers \ {w} : current'[v] = current[v]
      BY <1>1 DEF Moves, Running
    <2>5. ASSUME NEW v \in Workers, current'[v] # NoTask
          PROVE  status'[current'[v]] \in Running /\ assignee'[current'[v]] = v
      <3>1. CASE v = w
        BY <2>2, <2>5, <3>1
      <3>2. CASE v # w
        <4>1. current'[v] = current[v] /\ current[v] \in Tasks
          BY <2>4, <2>5, <3>2 DEF IInv, TypeOK
        <4>2. current[v] # t
          BY <1>2, <1>3, <2>3, <2>5, <3>2, <4>1, ConstantFacts
        <4>3. QED
          BY <2>3, <2>4, <2>5, <4>1, <4>2
      <3>3. QED
        BY <3>1, <3>2
    <2>6. ASSUME NEW u \in Tasks, status'[u] \in Running
          PROVE  assignee'[u] \in Workers /\ current'[assignee'[u]] = u
      <3>1. CASE u = t
        BY <1>2, <2>2, <2>6, <3>1
      <3>2. CASE u # t
        <4>1. assignee'[u] = assignee[u] /\ assignee[u] \in Workers /\ current[assignee[u]] = u
          BY <1>5, <2>3, <2>4, <2>6, <3>2
        <4>2. assignee[u] # w
          BY <1>3, <3>2, <4>1
        <4>3. QED
          BY <2>4, <4>1, <4>2
      <3>3. QED
        BY <3>1, <3>2
    <2>7. QED
      BY <2>5, <2>6
  <1>8. QED
    BY <1>4, <1>5, <1>6, <1>7

LEMMA DrainOneInv ==
  ASSUME IInv, DrainOne
  PROVE  IInv'
  <1>1. TypeOK'
    BY TypeStep DEF IInv, Next, DispatchStep
  <1>2. phase' = phase /\ phase \in {"drain", "final"}
    BY DrainOneMoves DEF IInv, control
  <1>3. SnapshotCurrent' /\ DispatchingUnaborted'
    BY <1>2 DEF SnapshotCurrent, DispatchingUnaborted
  <1>4. QED
    BY <1>1, <1>3, DrainKeepsCurrent, DrainKeepsLedger DEF IInv

\* What the invariants read, apart from where the dispatch goroutine stands.
Watched == <<status, assignee, current, monitors, outcomes, aborted>>

\* Steps that only move the dispatch goroutine between the points where it
\* holds no snapshot, and those of agents, signals and humans.
LEMMA QuietInv ==
  ASSUME IInv, TypeOK', UNCHANGED Watched,
         faults' = 0 => faults = 0,
         \/ phase' \notin {"dispatch", "spawn"}
         \/ UNCHANGED <<phase, todo, spawning>>
  PROVE  IInv'
  <1>1. OutcomesCurrent'
    BY DEF IInv, OutcomesCurrent, Watched
  <1>2. DependencyOrdering' /\ WorkerOwnership'
    BY DEF IInv, DependencyOrdering, WorkerOwnership, Watched
  <1>3. SnapshotCurrent' /\ DispatchingUnaborted'
    BY DEF IInv, SnapshotCurrent, DispatchingUnaborted, Ready, Watched
  <1>4. QED
    BY <1>1, <1>2, <1>3 DEF IInv

LEMMA CheckAbortInv ==
  ASSUME IInv, TypeOK', CheckAbort
  PROVE  IInv'
  <1>1. faults' = 0 => faults = 0
    BY StrikeClean DEF IInv, TypeOK, CheckAbort
  <1>2. UNCHANGED Watched
    BY DEF CheckAbort, Watched, ledger, agents, budgets
  <1>3. CASE phase' \notin {"dispatch", "spawn"}
    BY <1>1, <1>2, <1>3, QuietInv
  <1>4. CASE phase' \in {"dispatch", "spawn"}
    <2>1. phase' = "dispatch" /\ ~aborted /\ (todo' = {} \/ todo' = {t \in Tasks : Ready(t)})
      BY <1>4 DEF CheckAbort, Return
    <2>2. OutcomesCurrent' /\ DependencyOrdering' /\ WorkerOwnership'
      BY <1>1, <1>2 DEF IInv, OutcomesCurrent, DependencyOrdering, WorkerOwnership, Watched
    <2>3. SnapshotCurrent' /\ DispatchingUnaborted'
      BY <1>2, <2>1 DEF SnapshotCurrent, DispatchingUnaborted, Ready, Watched
    <2>4. QED
      BY <2>2, <2>3 DEF IInv
  <1>5. QED
    BY <1>3, <1>4

\* An unknown role: the blocked task was open, so nothing is pending for it and
\* no other ready task loses a dependency.
LEMMA CreateEscalationInv ==
  ASSUME IInv, TypeOK', CreateEscalation
  PROVE  IInv'
  <1>1. PICK t \in UnknownRole, f \in {"none", "create", "update"} :
          /\ NextTodo(t)
          /\ todo' = todo \ {t}
          /\ Strike(f)
          /\ status' = IF f = "update" THEN status
               ELSE [status EXCEPT ![t] = "blocked"]
    BY DEF CreateEscalation
  <1>2. /\ phase = "dispatch"
        /\ UNCHANGED <<assignee, current, monitors, outcomes, aborted, phase, spawning>>
    BY DEF CreateEscalation, agents, budgets
  <1>3. status[t] = "open" /\ t \in Tasks
    BY <1>1, <1>2, LabelsAssumption DEF IInv, SnapshotCurrent, Ready, NextTodo
  <1>4. /\ \A u \in Tasks : u # t => status'[u] = status[u]
        /\ status'[t] \in {"open", "blocked"}
    BY <1>1, <1>3 DEF IInv, TypeOK
  <1>5. \A m \in monitors : m.task \in Tasks /\ m.task # t
    BY <1>3 DEF IInv, TypeOK, Monitor, OutcomesCurrent
  <1>6. \A i \in DOMAIN outcomes : outcomes[i].task \in Tasks /\ outcomes[i].task # t
    BY <1>3, ChannelDomain DEF IInv, OutcomesCurrent, TaskOutcome
  <1>7. OutcomesCurrent'
    BY <1>2, <1>4, <1>5, <1>6 DEF IInv, OutcomesCurrent
  <1>8. DependencyOrdering'
    BY <1>3, <1>4, DepsAssumption DEF IInv, DependencyOrdering, Running, Terminal
  <1>9. WorkerOwnership'
    <2>1. faults' = 0 => faults = 0
      BY <1>1, StrikeClean DEF IInv, TypeOK
    <2>2. \A w \in Workers : current[w] # NoTask => current[w] \in Tasks
      BY DEF IInv, TypeOK
    <2>3. QED
      BY <1>2, <1>3, <1>4, <2>1, <2>2 DEF IInv, WorkerOwnership, Running
  <1>10. SnapshotCurrent' /\ DispatchingUnaborted'
    <2>1. \A u \in todo : Ready(u)
      BY <1>2 DEF IInv, SnapshotCurrent
    <2>2. todo \subseteq Tasks
      BY DEF IInv, TypeOK
    <2>3. \A u \in todo' : Ready(u)'
      BY <1>1, <1>2, <1>3, <1>4, <2>1, <2>2, DepsAssumption DEF Ready, Terminal
    <2>4. QED
      BY <1>2, <2>3 DEF IInv, SnapshotCurrent, DispatchingUnaborted
  <1>11. QED
    BY <1>7, <1>8, <1>9, <1>10 DEF IInv

\* A worker that a pending outcome names is busy, so an idle one is not named.
LEMMA PendingBusy ==
  ASSUME IInv
  PROVE  /\ \A m \in monitors :
              /\ m.task \in Tasks /\ m.worker \in Workers
              /\ status[m.task] = "in_progress" /\ current[m.worker] = m.task
         /\ \A i \in DOMAIN outcomes :
              /\ outcomes[i].task \in Tasks /\ outcomes[i].worker \in Workers
              /\ status[outcomes[i].task] = "in_progress"
              /\ current[outcomes[i].worker] = outcomes[i].task
  <1>1. monitors \subseteq Monitor
    BY DEF IInv, TypeOK
  <1>2. \A i \in DOMAIN outcomes : outcomes[i] \in TaskOutcome
    BY ChannelDomain DEF IInv
  <1>3. QED
    BY <1>1, <1>2 DEF IInv, OutcomesCurrent, Monitor, TaskOutcome

\* A step that leaves the pending outcomes, and every task and worker that one
\* of them names, leaves them current.
LEMMA PendingKept ==
  ASSUME IInv, UNCHANGED <<monitors, outcomes>>,
         \A t \in Tasks, w \in Workers :
           status[t] = "in_progress" /\ current[w] = t
             => status'[t] = "in_progress" /\ current'[w] = t
  PROVE  OutcomesCurrent'
  BY PendingBusy DEF IInv, OutcomesCurrent

LEMMA AssignInv ==
  ASSUME IInv, TypeOK', Assign
  PROVE  IInv'
  <1>1. PICK t \in Tasks \ UnknownRole, w \in Workers :
          /\ NextTodo(t)
          /\ Allocated(w)
          /\ status[t] = "open"
          /\ status' = [status EXCEPT ![t] = "assigned"]
          /\ assignee' = [assignee EXCEPT ![t] = w]
          /\ current' = [current EXCEPT ![w] = t]
          /\ spawning' = [task |-> t, worker |-> w]
          /\ todo' = todo \ {t}
    BY DEF Assign
  <1>2. /\ phase = "dispatch" /\ phase' = "spawn"
        /\ UNCHANGED <<monitors, outcomes, aborted, faults>>
    BY DEF Assign, agents, budgets
  <1>3. current[w] = NoTask /\ t \in todo
    BY <1>1 DEF Allocated, Idle, NextTodo
  <1>4. /\ status'[t] = "assigned" /\ assignee'[t] = w /\ current'[w] = t
        /\ \A u \in Tasks : u # t => status'[u] = status[u] /\ assignee'[u] = assignee[u]
        /\ \A v \in Workers : v # w => current'[v] = current[v]
    BY <1>1 DEF IInv, TypeOK
  <1>5. \A u \in todo : Ready(u)
    BY <1>2 DEF IInv, SnapshotCurrent
  <1>6. OutcomesCurrent'
    <2>1. \A u \in Tasks, v \in Workers :
            status[u] = "in_progress" /\ current[v] = u
              => status'[u] = "in_progress" /\ current'[v] = u
      BY <1>1, <1>3, <1>4, ConstantFacts
    <2>2. QED
      BY <1>2, <2>1, PendingKept
  <1>7. DependencyOrdering'
    <2>1. \A d \in Deps[t] : status[d] \in Terminal
      BY <1>3, <1>5 DEF Ready
    <2>2. QED
      BY <1>1, <1>4, <2>1, DepsAssumption DEF IInv, DependencyOrdering, Running, Terminal
  <1>8. WorkerOwnership'
    <2>1. \A v \in Workers : current[v] # NoTask => current[v] \in Tasks
      BY DEF IInv, TypeOK
    <2>2. QED
      BY <1>1, <1>2, <1>3, <1>4, <2>1, ConstantFacts DEF IInv, WorkerOwnership, Running
  <1>9. \A u \in todo' : Ready(u)'
    <2>1. todo \subseteq Tasks
      BY DEF IInv, TypeOK
    <2>2. QED
      BY <1>1, <1>4, <1>5, <2>1, DepsAssumption DEF Ready, Terminal
  <1>10. SnapshotCurrent' /\ DispatchingUnaborted'
    BY <1>1, <1>2, <1>4, <1>9 DEF IInv, SnapshotCurrent, DispatchingUnaborted
  <1>11. QED
    BY <1>6, <1>7, <1>8, <1>10 DEF IInv

\* The worker that goes back to the pool was idle.
LEMMA AssignFailsInv ==
  ASSUME IInv, TypeOK', AssignFails
  PROVE  IInv'
  <1>1. PICK w \in Workers : Allocated(w) /\ Release(w, "none")
    BY DEF AssignFails
  <1>2. current' = current
    BY <1>1 DEF Allocated, Idle, Release, IInv, TypeOK
  <1>3. /\ UNCHANGED <<status, assignee, monitors, outcomes, aborted, phase, spawning>>
        /\ todo' \subseteq todo
    BY DEF AssignFails, budgets
  <1>4. faults' = 0 => faults = 0
    BY StrikeClean DEF AssignFails, IInv, TypeOK
  <1>5. OutcomesCurrent' /\ DependencyOrdering' /\ WorkerOwnership'
    BY <1>2, <1>3, <1>4 DEF IInv, OutcomesCurrent, DependencyOrdering, WorkerOwnership
  <1>6. SnapshotCurrent' /\ DispatchingUnaborted'
    BY <1>2, <1>3 DEF IInv, SnapshotCurrent, DispatchingUnaborted, Ready
  <1>7. QED
    BY <1>5, <1>6 DEF IInv

\* Whatever becomes of the spawn, its task was assigned and its worker busy
\* with it: no pending outcome names either, and the snapshot does not hold it.
LEMMA SpawnTarget ==
  ASSUME IInv, phase = "spawn"
  PROVE  /\ spawning.task \in Tasks
         /\ spawning.worker \in Workers
         /\ status[spawning.task] = "assigned"
         /\ current[spawning.worker] = spawning.task
         /\ spawning.task \notin todo
         /\ todo \subseteq Tasks
         /\ \A u \in todo : Ready(u)
         /\ ~aborted
  BY DEF IInv, TypeOK, SnapshotCurrent, DispatchingUnaborted, Ready

LEMMA SpawnInv ==
  ASSUME IInv, TypeOK', Spawn
  PROVE  IInv'
  <1> DEFINE t == spawning.task
             w == spawning.worker
             n == [task |-> t, worker |-> w, attempt |-> retries[t], outcome |-> "none"]
  <1>1. /\ phase = "spawn" /\ phase' = "dispatch"
        /\ SpawnSession(t, w, w)
        /\ monitors' = monitors \cup {n}
        /\ UNCHANGED <<outcomes, aborted, todo, faults>>
    BY DEF Spawn, budgets
  <1>2. /\ t \in Tasks /\ w \in Workers
        /\ status[t] = "assigned" /\ current[w] = t
        /\ t \notin todo /\ todo \subseteq Tasks /\ ~aborted
        /\ \A u \in todo : Ready(u)
    BY <1>1, SpawnTarget
  <1>3. /\ status'[t] = "in_progress" /\ assignee'[t] = w
        /\ \A u \in Tasks : u # t => status'[u] = status[u] /\ assignee'[u] = assignee[u]
        /\ current' = current
    BY <1>1, <1>2 DEF SpawnSession, IInv, TypeOK
  <1>4. n.task = t /\ n.worker = w
    OBVIOUS
  <1> HIDE DEF t, w, n
  <1>5. OutcomesCurrent'
    <2>1. \A m \in monitors : m.task # t /\ status'[m.task] = "in_progress"
      BY <1>2, <1>3, PendingBusy
    <2>2. \A i \in DOMAIN outcomes :
            outcomes[i].task # t /\ status'[outcomes[i].task] = "in_progress"
      BY <1>2, <1>3, PendingBusy
    <2>3. QED
      BY <1>1, <1>2, <1>3, <1>4, <2>1, <2>2 DEF IInv, OutcomesCurrent
  <1>6. DependencyOrdering'
    BY <1>2, <1>3, DepsAssumption DEF IInv, DependencyOrdering, Running, Terminal
  <1>7. WorkerOwnership'
    <2>1. \A v \in Workers : current[v] # NoTask => current[v] \in Tasks
      BY DEF IInv, TypeOK
    <2>2. QED
      BY <1>1, <1>2, <1>3, <2>1, ConstantFacts DEF IInv, WorkerOwnership, Running
  <1>8. \A u \in todo : Ready(u)'
    BY <1>2, <1>3, DepsAssumption DEF Ready, Terminal
  <1>9. SnapshotCurrent' /\ DispatchingUnaborted'
    BY <1>1, <1>2, <1>8 DEF SnapshotCurrent, DispatchingUnaborted
  <1>10. QED
    BY <1>5, <1>6, <1>7, <1>9 DEF IInv

LEMMA SpawnFailsInv ==
  ASSUME IInv, TypeOK', SpawnFails
  PROVE  IInv'
  <1> DEFINE t == spawning.task
             w == spawning.worker
  <1>1. PICK f \in {"none", "read", "update", "release"} :
          /\ Strike(f)
          /\ assignee' = IF f = "read" THEN [assignee EXCEPT ![t] = NoWorker] ELSE assignee
          /\ status' = IF f = "update" THEN status ELSE [status EXCEPT ![t] = "failed"]
          /\ Release(w, f)
    BY DEF SpawnFails
  <1>2. /\ phase = "spawn" /\ phase' = "dispatch"
        /\ UNCHANGED <<monitors, outcomes, aborted, todo>>
    BY DEF SpawnFails, budgets
  <1>3. /\ t \in Tasks /\ w \in Workers
        /\ status[t] = "assigned" /\ current[w] = t
        /\ t \notin todo /\ todo \subseteq Tasks /\ ~aborted
        /\ \A u \in todo : Ready(u)
    BY <1>2, SpawnTarget
  <1> HIDE DEF t, w
  <1>4. /\ \A u \in Tasks : u # t => status'[u] = status[u] /\ assignee'[u] = assignee[u]
        /\ status'[t] \in {"assigned", "failed"}
        /\ f = "none" => status'[t] = "failed"
    BY <1>1, <1>3 DEF IInv, TypeOK
  <1>5. /\ \A v \in Workers : v # w => current'[v] = current[v]
        /\ f = "none" => current'[w] = NoTask
    BY <1>1, <1>3, ReleaseType, TypeSplit DEF IInv
  <1>6. OutcomesCurrent'
    <2>1. \A u \in Tasks, v \in Workers :
            status[u] = "in_progress" /\ current[v] = u
              => status'[u] = "in_progress" /\ current'[v] = u
      BY <1>3, <1>4, <1>5
    <2>2. QED
      BY <1>2, <2>1, PendingKept
  <1>7. DependencyOrdering'
    BY <1>3, <1>4, DepsAssumption DEF IInv, DependencyOrdering, Running, Terminal
  <1>8. WorkerOwnership'
    <2>1. faults' = 0 => f = "none" /\ faults = 0
      BY <1>1, StrikeClean DEF IInv, TypeOK
    <2>2. \A v \in Workers : current[v] # NoTask => current[v] \in Tasks
      BY DEF IInv, TypeOK
    <2>3. QED
      BY <1>2, <1>3, <1>4, <1>5, <2>1, <2>2, ConstantFacts DEF IInv, WorkerOwnership, Running
  <1>9. \A u \in todo : Ready(u)'
    BY <1>2, <1>3, <1>4, DepsAssumption DEF Ready, Terminal
  <1>10. SnapshotCurrent' /\ DispatchingUnaborted'
    BY <1>2, <1>3, <1>9 DEF SnapshotCurrent, DispatchingUnaborted
  <1>11. QED
    BY <1>6, <1>7, <1>8, <1>10 DEF IInv

\* A goroutine that ends its poll loop, and one that hands its outcome to the
\* channel, name the task and the worker they named before.
LEMMA MonitorInv ==
  ASSUME IInv, TypeOK', NEW m \in monitors, MonitorStep(m)
  PROVE  IInv'
  <1>1. UNCHANGED <<status, assignee, current, aborted, phase, todo, spawning>>
    BY DEF MonitorStep, MonitorExit, MonitorKill, MonitorSend, ledger, budgets, control
  <1>f. faults' = 0 => faults = 0
    BY StrikeClean DEF MonitorStep, MonitorExit, MonitorKill, MonitorSend, IInv, TypeOK
  <1>2. OutcomesCurrent'
    <2>1. CASE MonitorExit(m) \/ MonitorKill(m)
      <3>1. PICK o : monitors' = (monitors \ {m}) \cup {[m EXCEPT !.outcome = o]}
        BY <2>1 DEF MonitorExit, MonitorKill, Determined
      <3> DEFINE n == [m EXCEPT !.outcome = o]
      <3>2. n.task = m.task /\ n.worker = m.worker
        BY DEF IInv, TypeOK, Monitor
      <3>3. outcomes' = outcomes /\ monitors' = (monitors \ {m}) \cup {n}
        BY <2>1, <3>1 DEF MonitorExit, MonitorKill
      <3> HIDE DEF n
      <3>4. QED
        BY <1>1, <3>2, <3>3 DEF IInv, OutcomesCurrent
    <2>2. CASE MonitorSend(m)
      <3> DEFINE o == [task |-> m.task, worker |-> m.worker, outcome |-> m.outcome]
      <3>1. outcomes' = Append(outcomes, o) /\ monitors' = monitors \ {m}
        BY <2>2 DEF MonitorSend
      <3>2. o \in TaskOutcome /\ o.task = m.task /\ o.worker = m.worker
        BY <2>2 DEF MonitorSend, IInv, TypeOK, Monitor, TaskOutcome
      <3>3. outcomes \in Seq(TaskOutcome)
        BY DEF IInv, TypeOK
      <3> HIDE DEF o
      <3>4. /\ DOMAIN outcomes' = DOMAIN outcomes \cup {Len(outcomes) + 1}
            /\ \A i \in DOMAIN outcomes : outcomes'[i] = outcomes[i]
            /\ outcomes'[Len(outcomes) + 1] = o
        BY <3>1, <3>2, <3>3, SendFacts
      <3>5. \A i \in DOMAIN outcomes' :
              \/ i = Len(outcomes) + 1 /\ outcomes'[i] = o
              \/ i \in DOMAIN outcomes /\ outcomes'[i] = outcomes[i]
        BY Zenon, <3>4
      <3>6. \A k \in monitors' : k \in monitors /\ k.task # m.task
        BY <3>1 DEF IInv, OutcomesCurrent
      <3>7. \A i \in DOMAIN outcomes : outcomes[i].task # m.task
        BY DEF IInv, OutcomesCurrent
      <3>8. \A k \in monitors' :
              status'[k.task] = "in_progress" /\ current'[k.worker] = k.task
        BY <1>1, <3>6 DEF IInv, OutcomesCurrent
      <3>9. \A i \in DOMAIN outcomes' :
              /\ status'[outcomes'[i].task] = "in_progress"
              /\ current'[outcomes'[i].worker] = outcomes'[i].task
        BY <1>1, <3>2, <3>5 DEF IInv, OutcomesCurrent
      <3>10. \A i, j \in DOMAIN outcomes' : outcomes'[i].task = outcomes'[j].task => i = j
        BY <3>2, <3>5, <3>7 DEF IInv, OutcomesCurrent
      <3>11. \A k \in monitors', i \in DOMAIN outcomes' : k.task # outcomes'[i].task
        BY <3>2, <3>5, <3>6 DEF IInv, OutcomesCurrent
      <3>12. \A k, l \in monitors' : k.task = l.task => k = l
        BY <3>6 DEF IInv, OutcomesCurrent
      <3>13. QED
        BY <3>8, <3>9, <3>10, <3>11, <3>12 DEF OutcomesCurrent
    <2>3. QED
      BY <2>1, <2>2 DEF MonitorStep
  <1>3. DependencyOrdering' /\ WorkerOwnership'
    BY <1>1, <1>f DEF IInv, DependencyOrdering, WorkerOwnership
  <1>4. SnapshotCurrent' /\ DispatchingUnaborted'
    BY <1>1 DEF IInv, SnapshotCurrent, DispatchingUnaborted, Ready
  <1>5. QED
    BY <1>2, <1>3, <1>4 DEF IInv

LEMMA IInvStep == IInv /\ [Next]_vars => IInv'
  <1> SUFFICES ASSUME IInv, [Next]_vars PROVE IInv'
    OBVIOUS
  <1> USE DEF ledger, agents, budgets, control
  <1>0. TypeOK'
    BY TypeStep DEF IInv
  <1>1. CASE DrainOne
    BY <1>1, DrainOneInv
  <1>2. CASE CheckAbort
    BY <1>0, <1>2, CheckAbortInv
  <1>3. CASE CreateEscalation
    BY <1>0, <1>3, CreateEscalationInv
  <1>4. CASE Assign
    BY <1>0, <1>4, AssignInv
  <1>5. CASE AssignFails
    BY <1>0, <1>5, AssignFailsInv
  <1>6. CASE Spawn
    BY <1>0, <1>6, SpawnInv
  <1>7. CASE SpawnFails
    BY <1>0, <1>7, SpawnFailsInv
  <1>8. ASSUME NEW m \in monitors, MonitorStep(m) PROVE IInv'
    BY <1>0, <1>8, MonitorInv
  <1>9. CASE StartTick \/ DrainDone \/ DispatchDone \/ WaitDone \/ Cleanup \/ NoWatchdog
    <2>1. UNCHANGED Watched /\ phase' \notin {"dispatch", "spawn"}
      BY <1>9 DEF StartTick, DrainDone, DispatchDone, WaitDone, Cleanup, NoWatchdog,
                  Goto, Return, Watched
    <2>2. faults' = 0 => faults = 0
      BY <1>9, StrikeClean DEF StartTick, DrainDone, DispatchDone, WaitDone, Cleanup,
                               NoWatchdog, IInv, TypeOK
    <2>3. QED
      BY <1>0, <2>1, <2>2, QuietInv
  <1>10. CASE CheckTermination
    <2>1. UNCHANGED Watched /\ phase' \notin {"dispatch", "spawn"}
      BY <1>10 DEF CheckTermination, Goto, Return, Watched
    <2>2. faults' = 0 => faults = 0
      BY <1>10, StrikeClean DEF CheckTermination, IInv, TypeOK
    <2>3. QED
      BY <1>0, <2>1, <2>2, QuietInv
  <1>11. CASE Signal \/ (\E w \in Workers : AgentStep(w)) \/ (\E t \in Tasks : ResolveEscalation(t))
    <2>1. UNCHANGED Watched /\ UNCHANGED <<phase, todo, spawning, faults>>
      BY <1>11 DEF Signal, AgentStep, AgentExit, AgentKilled, ResolveEscalation, Watched
    <2>2. QED
      BY <1>0, <2>1, QuietInv
  <1>12. CASE UNCHANGED vars
    <2>1. UNCHANGED Watched /\ UNCHANGED <<phase, todo, spawning, faults>>
      BY <1>12 DEF vars, Watched
    <2>2. QED
      BY <1>0, <2>1, QuietInv
  <1>13. QED
    BY <1>1, <1>2, <1>3, <1>4, <1>5, <1>6, <1>7, <1>8, <1>9, <1>10, <1>11, <1>12
    DEF Next, DispatchStep, Ended

LEMMA Invariance == Spec => []IInv
  BY IInvInit, IInvStep, PTL DEF Spec

-----------------------------------------------------------------------------
(* What follows *)

\* processOutcome never acts on a task that has moved on: every outcome that is
\* pending or will be sent is about a task in progress on that worker, and no
\* task has two, whichever calls failed before.
THEOREM OutcomesAlwaysCurrent == Spec => []OutcomesCurrent
  <1>1. IInv => OutcomesCurrent
    BY DEF IInv
  <1>2. QED
    BY <1>1, Invariance, PTL

\* Between the ReadyTasks snapshot and the spawn nothing invalidates what
\* dispatch has read (BVV-S-03, BVV-S-04 at the moment of the spawn).
THEOREM SnapshotAlwaysCurrent == Spec => []SnapshotCurrent
  <1>1. IInv => SnapshotCurrent
    BY DEF IInv
  <1>2. QED
    BY <1>1, Invariance, PTL

\* BVV-S-04: a task that is assigned or runs has only terminal dependencies,
\* for every dependency relation, cyclic ones included.
THEOREM DependenciesFirst == Spec => []DependencyOrdering
  <1>1. IInv => DependencyOrdering
    BY DEF IInv
  <1>2. QED
    BY <1>1, Invariance, PTL

\* BVV-S-03: while no call has failed, tasks that run and active workers are
\* paired one to one.
THEOREM OneWorkerPerTask == Spec => []WorkerOwnership
  <1>1. IInv => WorkerOwnership
    BY DEF IInv
  <1>2. QED
    BY <1>1, Invariance, PTL

\* A pending outcome's worker is busy with its task, and no task has two
\* pending outcomes, so the pending outcomes map one to one into the workers.
LEMMA PendingFitWorkers ==
  ASSUME IInv
  PROVE  ChannelHasRoom
  <1> DEFINE U == {m.worker : m \in monitors}
             V == {outcomes[i].worker : i \in DOMAIN outcomes}
             f == [m \in monitors |-> m.worker]
             g == [i \in DOMAIN outcomes |-> outcomes[i].worker]
  <1>1. IsFiniteSet(Workers) /\ Cardinality(Workers) = MaxWorkers
    BY FS_Interval, LimitsAssumption DEF Workers
  <1>2. U \subseteq Workers /\ V \subseteq Workers
    BY PendingBusy
  <1>3. f \in Injection(monitors, U)
    <2>1. \A m, n \in monitors : m.worker = n.worker => m = n
      BY PendingBusy DEF IInv, OutcomesCurrent
    <2>2. QED
      BY <2>1 DEF Injection, IsInjective
  <1>4. g \in Injection(DOMAIN outcomes, V)
    <2>1. \A i, j \in DOMAIN outcomes : outcomes[i].worker = outcomes[j].worker => i = j
      BY PendingBusy DEF IInv, OutcomesCurrent
    <2>2. QED
      BY <2>1 DEF Injection, IsInjective
  <1>5. U \cap V = {}
    BY PendingBusy DEF IInv, OutcomesCurrent
  <1>6. Len(outcomes) \in Nat /\ DOMAIN outcomes = 1..Len(outcomes)
    BY ChannelDomain DEF IInv
  <1> HIDE DEF U, V, f, g
  <1>7. IsFiniteSet(U) /\ IsFiniteSet(V) /\ IsFiniteSet(U \cup V)
        /\ Cardinality(U \cup V) <= MaxWorkers
    <2>1. U \cup V \subseteq Workers
      BY <1>2
    <2>2. QED
      BY <1>1, <1>2, <2>1, FS_Subset
  <1>8. Cardinality(U \cup V) = Cardinality(U) + Cardinality(V)
    <2>1. Cardinality(U \cap V) = 0
      BY <1>5, FS_EmptySet
    <2>2. Cardinality(U) \in Nat /\ Cardinality(V) \in Nat
      BY <1>7, FS_CardinalityType
    <2>3. Cardinality(U \cup V) = Cardinality(U) + Cardinality(V) - Cardinality(U \cap V)
      BY <1>7, FS_Union
    <2>4. QED
      BY <2>1, <2>2, <2>3
  <1>9. IsFiniteSet(monitors) /\ Cardinality(monitors) <= Cardinality(U)
    BY <1>3, <1>7, FS_Injection
  <1>10. Cardinality(DOMAIN outcomes) <= Cardinality(V)
    BY <1>4, <1>7, FS_Injection
  <1>11. Cardinality(DOMAIN outcomes) = Len(outcomes)
    <2>1. Cardinality(1..Len(outcomes)) = IF 1 > Len(outcomes) THEN 0 ELSE Len(outcomes) - 1 + 1
      BY <1>6, FS_Interval
    <2>2. (IF 1 > Len(outcomes) THEN 0 ELSE Len(outcomes) - 1 + 1) = Len(outcomes)
      BY <1>6
    <2>3. QED
      BY Zenon, <1>6, <2>1, <2>2
  <1>12. /\ Cardinality(monitors) \in Nat
         /\ Cardinality(U) \in Nat
         /\ Cardinality(V) \in Nat
    BY <1>7, <1>9, FS_CardinalityType
  <1>13. QED
    BY <1>6, <1>7, <1>8, <1>9, <1>10, <1>11, <1>12, LimitsAssumption
    DEF ChannelHasRoom, Outstanding

\* No goroutine ever blocks on the outcomes channel, for any number of workers:
\* what is to come plus what waits never exceeds MaxWorkers, which the buffer
\* holds.  disp.Wait() in runLoop depends on it.
THEOREM SendsNeverBlock == Spec => []ChannelHasRoom
  <1>1. IInv => ChannelHasRoom
    BY PendingFitWorkers
  <1>2. QED
    BY <1>1, Invariance, PTL

\* A status changes from a terminal one, or to a running one, in no step but
\* the assignment of a ready task and the spawn for an assigned one.
LEMMA StatusStep ==
  ASSUME IInv, [Next]_vars
  PROVE  /\ \A t \in Tasks : status[t] \in Terminal => status'[t] = status[t]
         /\ aborted => \A t \in Tasks : status'[t] \in Running => status[t] \in Running
  <1> USE DEF ledger, agents, budgets, control
  <1>0. status \in [Tasks -> Status]
    BY DEF IInv, TypeOK
  <1>1. CASE DrainOne
    BY <1>1, DrainKeepsLedger
  <1>2. CASE CreateEscalation
    <2>1. PICK t \in UnknownRole, f \in {"none", "create", "update"} :
            /\ NextTodo(t)
            /\ status' = IF f = "update" THEN status ELSE [status EXCEPT ![t] = "blocked"]
      BY <1>2 DEF CreateEscalation
    <2>2. status[t] = "open"
      BY <1>2, <2>1 DEF CreateEscalation, IInv, SnapshotCurrent, Ready, NextTodo
    <2>3. QED
      BY <1>0, <2>1, <2>2 DEF Terminal, Running
  <1>3. CASE Assign
    <2>1. ~aborted
      BY <1>3 DEF Assign, IInv, DispatchingUnaborted
    <2>2. QED
      BY <1>0, <1>3, <2>1 DEF Assign, Terminal
  <1>4. CASE Spawn
    <2>1. status[spawning.task] = "assigned"
      BY <1>4, SpawnTarget DEF Spawn
    <2>2. QED
      BY <1>0, <1>4, <2>1 DEF Spawn, SpawnSession, Terminal, Running
  <1>5. CASE SpawnFails
    <2>1. status[spawning.task] = "assigned"
      BY <1>5, SpawnTarget DEF SpawnFails
    <2>2. QED
      BY <1>0, <1>5, <2>1 DEF SpawnFails, Terminal, Running
  <1>6. CASE UNCHANGED status
    BY <1>6
  <1>7. QED
    BY <1>1, <1>2, <1>3, <1>4, <1>5, <1>6
    DEF Next, DispatchStep, Ended, vars, StartTick, DrainDone, CheckAbort, AssignFails,
        DispatchDone, CheckTermination, WaitDone, Cleanup, NoWatchdog, Signal, AgentStep,
        AgentExit, AgentKilled, MonitorStep, MonitorExit, MonitorKill, MonitorSend,
        ResolveEscalation

\* BVV-S-02: no step of the dispatcher, its goroutines or its environment takes
\* a task out of a terminal status, whichever calls fail.
THEOREM TerminalForever == Spec => TerminalIrreversible
  <1>1. IInv /\ [Next]_vars =>
          [\A t \in Tasks : status[t] \in Terminal => status'[t] = status[t]]_vars
    BY StatusStep
  <1>2. QED
    BY <1>1, Invariance, PTL DEF Spec, TerminalIrreversible

\* BVV-ERR-03/04: after an abort no task that was not running starts to run.
THEOREM AbortIsFinal == Spec => AbortStopsDispatch
  <1>1. IInv /\ [Next]_vars =>
          [aborted => \A t \in Tasks : status'[t] \in Running => status[t] \in Running]_vars
    BY StatusStep
  <1>2. QED
    BY <1>1, Invariance, PTL DEF Spec, AbortStopsDispatch

-----------------------------------------------------------------------------
(* The gap tolerance *)

\* What a handler does to the budget of gaps: it counts at most one, it lifts
\* no abort, and the count that reaches the limit aborts.
GapMoves ==
  /\ gaps' = gaps \/ gaps' = gaps + 1
  /\ aborted => aborted'
  /\ gaps' # gaps => (gaps' < GapLimit \/ aborted')

LEMMA GapLimitFacts ==
  /\ GapLimit \in Nat
  /\ GapLimit >= 1
  /\ \A n \in Nat : ~(n + 1 >= GapTolerance) => n + 1 < GapLimit
  BY LimitsAssumption DEF GapLimit

LEMMA TerminalFailureGaps ==
  ASSUME LedgerTypeOK, NEW t \in Tasks, NEW st, NEW f, HandleTerminalFailure(t, st, f)
  PROVE  GapMoves
  <1>0. gaps \in Nat /\ aborted \in BOOLEAN
    BY DEF LedgerTypeOK
  <1>1. CASE t \in Critical
    BY <1>1 DEF HandleTerminalFailure, AbortLifecycle, GapMoves
  <1>2. CASE t \notin Critical /\ GapAborts
    BY <1>2 DEF HandleTerminalFailure, AbortLifecycle, GapMoves
  <1>3. CASE t \notin Critical /\ ~GapAborts
    <2>1. gaps' = gaps + 1 /\ aborted' = aborted
      BY <1>3 DEF HandleTerminalFailure
    <2>2. gaps + 1 < GapLimit
      BY <1>0, <1>3, GapLimitFacts DEF GapAborts
    <2>3. QED
      BY <2>1, <2>2 DEF GapMoves
  <1>4. QED
    BY <1>1, <1>2, <1>3

LEMMA FailureGaps ==
  ASSUME LedgerTypeOK, NEW t \in Tasks, NEW w, NEW f, NEW s, HandleFailure(t, w, f, s)
  PROVE  GapMoves
  <1>1. CASE UNCHANGED <<gaps, aborted>>
    BY <1>1 DEF GapMoves
  <1>2. CASE HandleTerminalFailure(t, [status EXCEPT ![t] = "failed"], f)
    BY <1>2, TerminalFailureGaps
  <1>3. QED
    BY <1>1, <1>2 DEF HandleFailure, OutcomeLost, RetryTask

LEMMA DrainOneGaps ==
  ASSUME TypeOK, DrainOne
  PROVE  GapMoves
  <1>1. PICK f \in FaultKind : ProcessOutcome(Head(outcomes), f)
    BY DEF DrainOne
  <1> DEFINE o == Head(outcomes)
             t == o.task
             w == o.worker
  <1>2. LedgerTypeOK /\ t \in Tasks
    BY DrainOneMoves, TypeSplit, ReceiveFacts DEF TaskOutcome
  <1>0. CASE UNCHANGED <<gaps, aborted>>
    BY <1>0 DEF GapMoves
  <1>3. CASE HandleSuccess(t, w, f)
    <2>1. CASE f = "update"
      BY <1>0, <1>3, <2>1 DEF HandleSuccess, OutcomeLost
    <2>2. CASE f # "update"
      <3>1. PostSuccessHook(t, [status EXCEPT ![t] = "completed"], f) /\ gaps' = gaps
        BY <1>3, <2>2 DEF HandleSuccess
      <3>2. aborted' = TRUE \/ aborted' = aborted
        BY <3>1 DEF PostSuccessHook, AbortLifecycle
      <3>3. QED
        BY <3>1, <3>2 DEF GapMoves
    <2>3. QED
      BY <2>1, <2>2
  <1>4. CASE HandleFailure(t, w, f, session)
    BY <1>2, <1>4, FailureGaps
  <1>5. CASE HandleBlocked(t, w, f)
    <2>1. CASE f = "update"
      BY <1>0, <1>5, <2>1 DEF HandleBlocked, OutcomeLost
    <2>2. CASE f # "update"
      BY <1>2, <1>5, <2>2, TerminalFailureGaps DEF HandleBlocked
    <2>3. QED
      BY <2>1, <2>2
  <1>6. CASE HandleHandoff(t, w, f)
    <2>1. CASE UNCHANGED <<gaps, aborted>>
      BY <1>0, <2>1
    <2>2. CASE \E s : HandleFailure(t, w, f, s)
      BY <1>2, <2>2, FailureGaps
    <2>3. QED
      BY <1>6, <2>1, <2>2 DEF HandleHandoff
  <1>7. QED
    BY <1>1, <1>3, <1>4, <1>5, <1>6 DEF ProcessOutcome

\* The overshoot counts the outcomes still to come.  Before the abort the gaps
\* are below the limit and at most MaxWorkers outcomes are outstanding; from
\* the abort on nothing is launched, so each further gap uses up one of them.
GapInv ==
  /\ ~aborted => gaps < GapLimit
  /\ gaps + Outstanding <= GapLimit - 1 + MaxWorkers

\* Goroutines are as finite as the workers they occupy.
OutstandingOK ==
  /\ IsFiniteSet(monitors)
  /\ Cardinality(monitors) \in Nat
  /\ Len(outcomes) \in Nat
  /\ Outstanding \in Nat
  /\ Outstanding <= MaxWorkers

LEMMA OutstandingType == IInv => OutstandingOK
  <1> SUFFICES ASSUME IInv PROVE OutstandingOK
    OBVIOUS
  <1> DEFINE f == [m \in monitors |-> m.worker]
  <1>1. IsFiniteSet(Workers)
    BY FS_Interval, LimitsAssumption DEF Workers
  <1>2. f \in Injection(monitors, Workers)
    <2>1. \A m, n \in monitors : m.worker = n.worker => m = n
      BY PendingBusy DEF IInv, OutcomesCurrent
    <2>2. \A m \in monitors : m.worker \in Workers
      BY PendingBusy
    <2>3. QED
      BY <2>1, <2>2 DEF Injection, IsInjective
  <1> HIDE DEF f
  <1>3. IsFiniteSet(monitors)
    BY <1>1, <1>2, FS_Injection
  <1>4. Cardinality(monitors) \in Nat
    BY <1>3, FS_CardinalityType
  <1>5. Len(outcomes) \in Nat
    BY ChannelDomain DEF IInv
  <1>6. Outstanding <= MaxWorkers
    BY PendingFitWorkers DEF ChannelHasRoom
  <1>7. QED
    BY <1>3, <1>4, <1>5, <1>6 DEF Outstanding, OutstandingOK

LEMMA OutstandingTypeNext == IInv' => OutstandingOK'
  BY OutstandingType, PTL

\* A goroutine that polls or sends stands for one outcome before and after.
LEMMA MonitorOutstanding ==
  ASSUME TypeOK, IsFiniteSet(monitors), NEW m \in monitors, MonitorStep(m)
  PROVE  /\ IsFiniteSet(monitors')
         /\ Outstanding' \in Nat
         /\ Outstanding' <= Outstanding
  <1>0. /\ Len(outcomes) \in Nat
        /\ Cardinality(monitors) \in Nat
        /\ outcomes \in Seq(TaskOutcome)
        /\ m \in Monitor
        /\ IsFiniteSet(monitors \ {m})
        /\ Cardinality(monitors \ {m}) = Cardinality(monitors) - 1
    BY FS_CardinalityType, FS_RemoveElement DEF TypeOK
  <1>1. CASE MonitorSend(m)
    <2>1. Len(outcomes') = Len(outcomes) + 1
      BY <1>0, <1>1, SendFacts DEF MonitorSend, TaskOutcome, Monitor
    <2>2. monitors' = monitors \ {m}
      BY <1>1 DEF MonitorSend
    <2>3. QED
      BY <1>0, <2>1, <2>2 DEF Outstanding
  <1>2. ASSUME NEW o, Determined(m, o), outcomes' = outcomes
        PROVE  /\ IsFiniteSet(monitors')
               /\ Outstanding' \in Nat
               /\ Outstanding' <= Outstanding
    <2> DEFINE n == [m EXCEPT !.outcome = o]
    <2>1. monitors' = (monitors \ {m}) \cup {n}
      BY <1>2 DEF Determined
    <2> HIDE DEF n
    <2>2. /\ IsFiniteSet((monitors \ {m}) \cup {n})
          /\ Cardinality((monitors \ {m}) \cup {n}) =
               IF n \in monitors \ {m} THEN Cardinality(monitors \ {m})
               ELSE Cardinality(monitors \ {m}) + 1
      BY <1>0, FS_AddElement
    <2>3. Cardinality(monitors') \in Nat /\ Cardinality(monitors') <= Cardinality(monitors)
      BY <1>0, <2>1, <2>2, FS_CardinalityType
    <2>4. QED
      BY <1>0, <1>2, <2>1, <2>2, <2>3 DEF Outstanding
  <1>3. CASE MonitorExit(m)
    <2>1. outcomes' = outcomes /\ Determined(m, DetermineOutcome(sidecar[m.task]))
      BY <1>3 DEF MonitorExit
    <2>2. QED
      BY <1>2, <2>1
  <1>4. CASE MonitorKill(m)
    <2>1. outcomes' = outcomes /\ Determined(m, "failure")
      BY <1>4 DEF MonitorKill
    <2>2. QED
      BY <1>2, <2>1
  <1>5. QED
    BY <1>1, <1>3, <1>4 DEF MonitorStep

\* Only a launched agent adds an outcome to come.
LEMMA OutstandingStep ==
  ASSUME IInv, IInv', Next, ~Spawn
  PROVE  /\ Outstanding' <= Outstanding
         /\ DrainOne => Outstanding' <= Outstanding - 1
  <1> USE DEF ledger, agents, budgets, control
  <1>0. /\ Len(outcomes) \in Nat
        /\ Cardinality(monitors) \in Nat
        /\ IsFiniteSet(monitors)
        /\ Outstanding \in Nat
        /\ outcomes \in Seq(TaskOutcome)
    BY OutstandingType DEF OutstandingOK, IInv, TypeOK
  <1>1. CASE DrainOne
    <2>1. outcomes # <<>> /\ outcomes' = Tail(outcomes) /\ monitors' = monitors
      BY <1>1 DEF DrainOne
    <2>2. Len(outcomes') = Len(outcomes) - 1
      BY <1>0, <2>1, ReceiveFacts
    <2>3. QED
      BY <1>0, <2>1, <2>2 DEF Outstanding
  <1>2. ASSUME NEW m \in monitors, MonitorStep(m) PROVE Outstanding' <= Outstanding
    BY <1>0, <1>2, MonitorOutstanding DEF IInv
  <1>3. ASSUME UNCHANGED <<monitors, outcomes>> PROVE Outstanding' <= Outstanding
    <2>1. monitors' = monitors /\ outcomes' = outcomes
      BY <1>3
    <2>2. Outstanding' = Outstanding
      BY <2>1 DEF Outstanding
    <2>3. QED
      BY <1>0, <2>2
  <1>4. ~DrainOne => Outstanding' <= Outstanding
    BY <1>2, <1>3
    DEF Next, DispatchStep, Ended, vars, StartTick, DrainDone, CheckAbort, AssignFails,
        DispatchDone, CheckTermination, WaitDone, Cleanup, NoWatchdog, Signal, AgentStep,
        AgentExit, AgentKilled, ResolveEscalation, CreateEscalation, Assign, SpawnFails
  <1>5. QED
    BY <1>0, <1>1, <1>4

\* The sum of the gaps and the outcomes to come grows only below the limit.
LEMMA SumBound ==
  ASSUME NEW g \in Nat, NEW g1 \in Nat, NEW n \in Nat, NEW n1 \in Nat,
         NEW l \in Nat, NEW w \in Nat,
         \/ g1 <= g + 1 /\ n1 <= n - 1 /\ g + n <= l - 1 + w
         \/ g1 = g /\ n1 <= n /\ g + n <= l - 1 + w
         \/ g1 < l /\ n1 <= w
  PROVE  g1 + n1 <= l - 1 + w
  OBVIOUS

LEMMA GapInvInit == Init => GapInv
  <1> SUFFICES ASSUME Init PROVE GapInv
    OBVIOUS
  <1>1. monitors = {} /\ outcomes = <<>> /\ gaps = 0
    BY DEF Init
  <1>2. Outstanding = 0
    BY <1>1, FS_EmptySet DEF Outstanding
  <1>3. QED
    BY <1>1, <1>2, GapLimitFacts, LimitsAssumption DEF GapInv

LEMMA GapInvStep == IInv /\ GapInv /\ [Next]_vars => GapInv'
  <1> SUFFICES ASSUME IInv, GapInv, [Next]_vars PROVE GapInv'
    OBVIOUS
  <1>0. IInv'
    BY IInvStep
  <1>1. /\ Outstanding \in Nat /\ Outstanding' \in Nat
        /\ Outstanding' <= MaxWorkers
        /\ gaps \in Nat /\ gaps' \in Nat
        /\ GapLimit \in Nat /\ MaxWorkers \in Nat /\ GapLimit' = GapLimit
    BY <1>0, OutstandingType, OutstandingTypeNext, GapLimitFacts, LimitsAssumption
    DEF OutstandingOK, IInv, TypeOK, GapLimit
  <1>2. CASE DrainOne
    <2>1. GapMoves
      BY <1>2, DrainOneGaps DEF IInv
    <2>2. Outstanding' <= Outstanding - 1
      BY <1>0, <1>2, OutstandingStep DEF Next, DispatchStep, DrainOne, Spawn
    <2>3. gaps' + Outstanding' <= GapLimit - 1 + MaxWorkers
      <3>1. gaps' <= gaps + 1
        BY <1>1, <2>1 DEF GapMoves
      <3>2. gaps + Outstanding <= GapLimit - 1 + MaxWorkers
        BY DEF GapInv
      <3>3. QED
        BY <1>1, <2>2, <3>1, <3>2, SumBound
    <2>4. ~aborted' => ~aborted /\ (gaps' = gaps \/ gaps' < GapLimit)
      BY <2>1 DEF GapMoves
    <2>5. ~aborted' => gaps' < GapLimit
      BY <2>4 DEF GapInv
    <2>6. QED
      BY <1>1, <2>3, <2>5 DEF GapInv
  <1>3. CASE Spawn
    <2>1. gaps' = gaps /\ aborted' = aborted /\ ~aborted
      BY <1>3 DEF Spawn, budgets, IInv, DispatchingUnaborted
    <2>2. gaps' < GapLimit
      BY <2>1 DEF GapInv
    <2>3. gaps' + Outstanding' <= GapLimit - 1 + MaxWorkers
      BY <1>1, <2>2, SumBound
    <2>4. QED
      BY <1>1, <2>2, <2>3 DEF GapInv
  <1>4. CASE UNCHANGED vars
    BY <1>4 DEF vars, budgets, agents, GapInv, Outstanding
  <1>5. CASE Next /\ ~DrainOne /\ ~Spawn
    <2>1. Outstanding' <= Outstanding
      BY <1>0, <1>5, OutstandingStep
    <2>2. gaps' = gaps /\ aborted' = aborted
      BY <1>5
      DEF Next, DispatchStep, Ended, vars, budgets, StartTick, DrainDone, CheckAbort,
          AssignFails, DispatchDone, CheckTermination, WaitDone, Cleanup, NoWatchdog,
          Signal, AgentStep, AgentExit, AgentKilled, ResolveEscalation, CreateEscalation,
          Assign, SpawnFails, MonitorStep, MonitorExit, MonitorKill, MonitorSend
    <2>3. gaps' + Outstanding' <= GapLimit - 1 + MaxWorkers
      <3>1. gaps + Outstanding <= GapLimit - 1 + MaxWorkers
        BY DEF GapInv
      <3>2. QED
        BY <1>1, <2>1, <2>2, <3>1, SumBound
    <2>4. ~aborted' => gaps' < GapLimit
      BY <2>2 DEF GapInv
    <2>5. QED
      BY <1>1, <2>3, <2>4 DEF GapInv
  <1>6. QED
    BY <1>2, <1>3, <1>4, <1>5

\* The gaps exceed the tolerance by at most the agents that were running when
\* it was reached, MaxWorkers - 1, for every tolerance and every pool size:
\* the bound that the comment in handleTerminalFailure claims.
THEOREM GapsOvershootByInFlight == Spec => []GapOvershootBounded
  <1>1. IInv /\ GapInv => GapOvershootBounded
    <2>1. GapLimit \in Nat /\ MaxWorkers \in Nat
      BY GapLimitFacts, LimitsAssumption
    <2>2. QED
      BY <2>1, OutstandingType DEF OutstandingOK, GapInv, GapOvershootBounded, IInv, TypeOK
  <1>2. QED
    BY <1>1, Invariance, GapInvInit, GapInvStep, PTL DEF Spec

-----------------------------------------------------------------------------
(* Sessions under supervision *)

\* A session of the task that is granted and not started yet: the task waits to
\* be dispatched or is about to be spawned, or the watchdog has recorded the
\* handoff and not restarted the session.
ToDispatch(t) == status[t] = "open" \/ (phase = "spawn" /\ spawning.task = t)
ToRestart(t) == wdStep = "restart" /\ wdCopy.task = t

Granted(t) == (IF ToDispatch(t) THEN 1 ELSE 0) + (IF ToRestart(t) THEN 1 ELSE 0)

SessionInv ==
  /\ STypeOK
  /\ \A t \in Tasks : started[t] + Granted(t) <= 1 + retries[t] + handoffs[t]

\* The types of what Supervision adds to the dispatcher.
WatchdogTypeOK ==
  /\ wdStep \in {"idle", "inspect", "restart", "record"}
  /\ wdWorker \in 1..(MaxWorkers + 1)
  /\ listing \in [Workers -> Tasks \cup {NoTask}]
  /\ wdCopy \in [task: Tasks \cup {NoTask}, assignee: Workers \cup {NoWorker}]
  /\ wdStep \in {"restart", "record"} => wdCopy.task \in Tasks /\ wdWorker \in Workers

HandoverTypeOK ==
  /\ stuck \in Seq(StuckTask)
  /\ drained \in Seq(StuckTask)
  /\ orphanCkDone \in BOOLEAN

BreakerTypeOK ==
  /\ cbFailures \in [Workers -> 0..CBThreshold]
  /\ cbTripped \in BOOLEAN

LEMMA STypeSplit ==
  STypeOK <=> /\ TypeOK /\ WatchdogTypeOK /\ HandoverTypeOK /\ BreakerTypeOK
              /\ started \in [Tasks -> Nat]
  BY DEF STypeOK, WatchdogTypeOK, HandoverTypeOK, BreakerTypeOK

LEMMA RecordFailureType ==
  ASSUME BreakerTypeOK, NEW w \in Workers, RecordFailure(w)
  PROVE  BreakerTypeOK'
  <1>1. CASE UNCHANGED breaker
    BY <1>1 DEF breaker, BreakerTypeOK
  <1>2. CASE ~UNCHANGED breaker
    <2>1. PICK kept \in [Workers -> 0..CBThreshold] :
            /\ cbFailures' = [kept EXCEPT ![w] = IF @ < CBThreshold THEN @ + 1 ELSE @]
            /\ cbTripped' = (cbTripped \/ \E v \in Workers : cbFailures'[v] >= CBThreshold)
      BY <1>2, Zenon DEF RecordFailure, Breaker!RecordFailure, Breaker!breaker, breaker
    <2>2. cbFailures' \in [Workers -> 0..CBThreshold]
      BY <2>1, CBAssumption
    <2>3. cbTripped' \in BOOLEAN
      BY <2>1, Zenon
    <2>4. QED
      BY <2>2, <2>3 DEF BreakerTypeOK
  <1>3. QED
    BY <1>1, <1>2

LEMMA ResetType ==
  ASSUME ResetCB
  PROVE  BreakerTypeOK'
  <1>1. cbFailures' = [v \in Workers |-> 0]
    BY DEF ResetCB, Breaker!ResetCB
  <1>2. cbTripped' \in BOOLEAN
    BY Zenon DEF ResetCB, Breaker!ResetCB
  <1>3. QED
    BY <1>1, <1>2, CBAssumption DEF BreakerTypeOK

-----------------------------------------------------------------------------
(* What the steps grant *)

\* A step that grants no session: it re-opens no task, spawns for none that was
\* not open, and takes no budget back.
GrantsNothing(t) ==
  /\ retries'[t] >= retries[t]
  /\ handoffs'[t] >= handoffs[t]
  /\ ToDispatch(t)' => ToDispatch(t)

Budget(t) == started[t] + Granted(t) <= 1 + retries[t] + handoffs[t]

LEMMA CountsType ==
  ASSUME STypeOK, NEW t \in Tasks
  PROVE  started[t] \in Nat /\ retries[t] \in Nat /\ handoffs[t] \in Nat
  BY LimitsAssumption DEF STypeOK, TypeOK

LEMMA CountsTypeNext ==
  ASSUME STypeOK', NEW t \in Tasks
  PROVE  started'[t] \in Nat /\ retries'[t] \in Nat /\ handoffs'[t] \in Nat
  BY LimitsAssumption DEF STypeOK, TypeOK

\* A step that starts no session and grants none.
LEMMA QuietBudget ==
  ASSUME STypeOK, STypeOK', NEW t \in Tasks, Budget(t), GrantsNothing(t),
         started'[t] = started[t], ToRestart(t)' => ToRestart(t)
  PROVE  Budget(t)'
  <1>1. /\ started[t] \in Nat /\ retries[t] \in Nat /\ handoffs[t] \in Nat
        /\ retries'[t] \in Nat /\ handoffs'[t] \in Nat
    BY CountsType, CountsTypeNext
  <1>2. Granted(t) \in Nat /\ Granted(t)' \in Nat /\ Granted(t)' <= Granted(t)
    BY DEF GrantsNothing, Granted
  <1>3. QED
    BY <1>1, <1>2 DEF Budget, GrantsNothing

\* handleFailure re-opens the task only with a retry recorded.
Reopens(t) ==
  /\ \A u \in Tasks \ {t} : retries'[u] = retries[u] /\ (status'[u] = "open" => status[u] = "open")
  /\ \/ retries'[t] = retries[t] + 1
     \/ retries'[t] = retries[t] /\ (status'[t] = "open" => status[t] = "open")

LEMMA HandleFailureReopens ==
  ASSUME LedgerTypeOK, NEW t \in Tasks, NEW w \in Workers, NEW f, NEW s,
         HandleFailure(t, w, f, s)
  PROVE  Reopens(t)
  <1>1. CASE f = "update"
    BY <1>1 DEF HandleFailure, OutcomeLost, ledger, Reopens
  <1>2. CASE f # "update" /\ CanRetry(t) /\ f # "retry"
    BY <1>2 DEF HandleFailure, RetryTask, LedgerTypeOK, Reopens
  <1>3. CASE f # "update" /\ ~(CanRetry(t) /\ f # "retry")
    <2> DEFINE st == [status EXCEPT ![t] = "failed"]
    <2>1. HandleTerminalFailure(t, st, f) /\ UNCHANGED retries
      BY <1>3 DEF HandleFailure
    <2>2. /\ st \in [Tasks -> Status]
          /\ st[t] = "failed" /\ \A u \in Tasks \ {t} : st[u] = status[u]
      BY DEF LedgerTypeOK, Status
    <2> HIDE DEF st
    <2>3. \A u \in Tasks : status'[u] = "open" => st[u] = "open"
      BY <2>1, <2>2, TerminalFailureEffect
    <2>4. QED
      BY <2>1, <2>2, <2>3 DEF Reopens
  <1>4. QED
    BY <1>1, <1>2, <1>3

LEMMA ProcessOutcomeReopens ==
  ASSUME LedgerTypeOK, NEW o \in TaskOutcome, NEW f, ProcessOutcome(o, f)
  PROVE  /\ Reopens(o.task)
         /\ \A u \in Tasks \ {o.task} : handoffs'[u] = handoffs[u]
         /\ \/ handoffs'[o.task] = handoffs[o.task]
            \/ handoffs'[o.task] = handoffs[o.task] + 1
  <1> DEFINE t == o.task
             w == o.worker
  <1>0. t \in Tasks /\ w \in Workers
    BY DEF TaskOutcome
  <1>1. ASSUME NEW s, s \in {"completed", "blocked"}, UNCHANGED retries,
               \/ PostSuccessHook(t, [status EXCEPT ![t] = s], f)
               \/ HandleTerminalFailure(t, [status EXCEPT ![t] = s], f)
        PROVE  Reopens(t)
    <2> DEFINE st == [status EXCEPT ![t] = s]
    <2>1. /\ st \in [Tasks -> Status]
          /\ st[t] = s /\ \A u \in Tasks \ {t} : st[u] = status[u]
      BY <1>0, <1>1 DEF LedgerTypeOK, Status
    <2>2. PostSuccessHook(t, st, f) \/ HandleTerminalFailure(t, st, f)
      BY <1>1
    <2> HIDE DEF st, t
    <2>3. \A u \in Tasks : status'[u] = "open" => st[u] = "open"
      BY <1>0, <2>1, <2>2, TerminalFailureEffect, PostSuccessEffect
    <2>4. QED
      BY <1>0, <1>1, <2>1, <2>3 DEF Reopens
  <1>2. ASSUME OutcomeLost(session) PROVE Reopens(t)
    BY <1>2 DEF OutcomeLost, ledger, Reopens
  <1>3. CASE o.outcome = "success" /\ HandleSuccess(t, w, f) /\ UNCHANGED handoffs
    <2>1. Reopens(t)
      BY <1>1, <1>2, <1>3 DEF HandleSuccess
    <2>2. QED
      BY <1>3, <2>1
  <1>4. CASE o.outcome = "failure" /\ HandleFailure(t, w, f, session) /\ UNCHANGED handoffs
    BY <1>0, <1>4, HandleFailureReopens
  <1>5. CASE o.outcome = "blocked" /\ HandleBlocked(t, w, f) /\ UNCHANGED handoffs
    <2>1. Reopens(t)
      BY <1>1, <1>2, <1>5 DEF HandleBlocked
    <2>2. QED
      BY <1>5, <2>1
  <1>6. CASE o.outcome = "handoff" /\ HandleHandoff(t, w, f)
    <2>1. /\ \A u \in Tasks \ {t} : handoffs'[u] = handoffs[u]
          /\ handoffs'[t] = handoffs[t] \/ handoffs'[t] = handoffs[t] + 1
      BY <1>0, <1>6 DEF HandleHandoff, TryRecord, LedgerTypeOK
    <2>2. CASE SpawnSession(t, w, w) /\ UNCHANGED retries
      BY <1>0, <2>1, <2>2 DEF SpawnSession, LedgerTypeOK, Reopens
    <2>3. CASE \E s : HandleFailure(t, w, f, s)
      BY <1>0, <2>1, <2>3, HandleFailureReopens
    <2>4. QED
      BY <1>6, <2>2, <2>3 DEF HandleHandoff
  <1>7. QED
    BY <1>3, <1>4, <1>5, <1>6 DEF ProcessOutcome

\* Drain: a session that is restarted was recorded as a handoff.
LEMMA DrainBudget ==
  ASSUME STypeOK, STypeOK', NEW t \in Tasks, Budget(t), DrainStep, Unsupervised
  PROVE  Budget(t)'
  <1> DEFINE o == outcomes[1]
  <1>1. PICK f \in FaultKind : ProcessOutcome(Head(outcomes), f)
    BY DEF DrainStep, DrainOne
  <1>2. /\ LedgerTypeOK
        /\ outcomes \in Seq(TaskOutcome) /\ outcomes # <<>>
        /\ phase \in {"drain", "final"} /\ phase' = phase
    BY STypeSplit, TypeSplit DEF DrainStep, DrainOne, control
  <1>3. Head(outcomes) = o /\ o \in TaskOutcome
    BY <1>2, ReceiveFacts
  <1>4. o.task \in Tasks
    BY <1>3 DEF TaskOutcome
  <1>5. /\ Reopens(o.task)
        /\ \A u \in Tasks \ {o.task} : handoffs'[u] = handoffs[u]
        /\ \/ handoffs'[o.task] = handoffs[o.task]
           \/ handoffs'[o.task] = handoffs[o.task] + 1
    BY <1>1, <1>2, <1>3, ProcessOutcomeReopens
  <1>6. started' = started \/ ( /\ started' = [started EXCEPT ![o.task] = @ + 1]
                                /\ handoffs'[o.task] # handoffs[o.task]
                                /\ status'[o.task] = "in_progress" )
    BY <1>3 DEF DrainStep
  <1>7. ToRestart(t)' <=> ToRestart(t)
    BY DEF Unsupervised, watchdog, ToRestart
  <1>8. /\ started[t] \in Nat /\ retries[t] \in Nat /\ handoffs[t] \in Nat
        /\ retries'[t] \in Nat /\ handoffs'[t] \in Nat
        /\ started \in [Tasks -> Nat]
    BY CountsType, CountsTypeNext, STypeSplit
  <1>9. /\ ToDispatch(t) <=> status[t] = "open"
        /\ ToDispatch(t)' <=> status'[t] = "open"
    BY <1>2 DEF ToDispatch
  <1> HIDE DEF o
  <1>10. CASE t # o.task
    <2>1. GrantsNothing(t) /\ started'[t] = started[t]
      BY <1>4, <1>5, <1>6, <1>8, <1>9, <1>10 DEF GrantsNothing, Reopens
    <2>2. QED
      BY <1>7, <2>1, QuietBudget
  <1>11. CASE t = o.task
    <2> DEFINE g == Granted(t)
               g1 == Granted(t)'
    <2>1. g \in Nat /\ g1 \in Nat
      BY DEF Granted
    <2>2. \/ g1 <= g /\ retries'[t] = retries[t]
          \/ g1 <= g + 1 /\ retries'[t] = retries[t] + 1
      BY <1>5, <1>7, <1>9, <1>11 DEF Granted, Reopens
    <2>3. CASE started'[t] = started[t]
      <3>1. started[t] + g1 <= 1 + retries'[t] + handoffs'[t]
        <4> HIDE DEF g1
        <4>1. started[t] + g <= 1 + retries[t] + handoffs[t]
          BY DEF Budget
        <4> HIDE DEF g
        <4>2. QED
          BY <1>5, <1>8, <1>11, <2>1, <2>2, <4>1
      <3>2. QED
        BY <2>3, <3>1 DEF Budget
    <2>4. CASE /\ started'[t] = started[t] + 1
               /\ handoffs'[t] = handoffs[t] + 1
               /\ status'[t] = "in_progress"
      <3>1. g1 <= g
        BY <1>7, <1>9, <2>4 DEF Granted
      <3>2. started[t] + 1 + g1 <= 1 + retries'[t] + handoffs'[t]
        <4> HIDE DEF g1
        <4>1. started[t] + g <= 1 + retries[t] + handoffs[t]
          BY DEF Budget
        <4> HIDE DEF g
        <4>2. QED
          BY <1>8, <2>1, <2>2, <2>4, <3>1, <4>1
      <3>3. QED
        BY <2>4, <3>2 DEF Budget
    <2>5. QED
      BY <1>5, <1>6, <1>8, <1>11, <2>3, <2>4
  <1>12. QED
    BY <1>10, <1>11

LEMMA SpawnBudget ==
  ASSUME STypeOK, STypeOK', NEW t \in Tasks, Budget(t), SpawnStep, Unsupervised
  PROVE  Budget(t)'
  <1>1. /\ phase = "spawn" /\ phase' = "dispatch" /\ spawning.task \in Tasks
        /\ status' = [status EXCEPT ![spawning.task] = "in_progress"]
        /\ started' = [started EXCEPT ![spawning.task] = @ + 1]
        /\ UNCHANGED <<retries, handoffs>>
    BY DEF SpawnStep, Spawn, SpawnSession, budgets, STypeOK, TypeOK
  <1>2. /\ status \in [Tasks -> Status] /\ started \in [Tasks -> Nat]
        /\ started[t] \in Nat /\ retries[t] \in Nat /\ handoffs[t] \in Nat
    BY CountsType DEF STypeOK, TypeOK
  <1>3. ToRestart(t)' <=> ToRestart(t)
    BY DEF Unsupervised, watchdog, ToRestart
  <1>4. CASE t # spawning.task
    <2>1. GrantsNothing(t) /\ started'[t] = started[t]
      BY <1>1, <1>2, <1>4 DEF GrantsNothing, ToDispatch
    <2>2. QED
      BY <1>3, <2>1, QuietBudget
  <1>5. CASE t = spawning.task
    <2>1. ToDispatch(t) /\ ~ToDispatch(t)' /\ started'[t] = started[t] + 1
      BY <1>1, <1>2, <1>5 DEF ToDispatch
    <2>2. Granted(t)' + 1 = Granted(t) /\ Granted(t)' \in Nat
      BY <1>3, <2>1 DEF Granted
    <2>3. QED
      BY <1>1, <1>2, <2>1, <2>2 DEF Budget
  <1>6. QED
    BY <1>4, <1>5

\* No other step of the dispatcher starts or grants a session: an assignment
\* passes on the one that the open task was granted.
LEMMA OtherGrantsNothing ==
  ASSUME STypeOK, NEW t \in Tasks, OtherStep \/ WaitStep
  PROVE  GrantsNothing(t) /\ started'[t] = started[t]
  <1>0. /\ status \in [Tasks -> Status]
        /\ retries[t] >= retries[t] /\ handoffs[t] >= handoffs[t]
        /\ (phase = "spawn") => spawning.task \in Tasks
    BY CountsType DEF STypeOK, TypeOK
  <1>1. UNCHANGED <<retries, handoffs, started>>
    BY DEF OtherStep, WaitStep, WaitDone, StartTick, DrainDone, CheckAbort, CreateEscalation,
           Assign, AssignFails, DispatchDone, SpawnFails, CheckTermination, Cleanup, budgets
  <1>2. CASE StartTick \/ DrainDone \/ CheckAbort \/ DispatchDone \/ CheckTermination
             \/ Cleanup \/ WaitStep
    <2>1. status' = status /\ phase' # "spawn"
      BY <1>2 DEF WaitStep, WaitDone, StartTick, DrainDone, CheckAbort, DispatchDone,
                  CheckTermination, Cleanup, Goto, Return, ledger
    <2>2. QED
      BY <1>0, <1>1, <2>1 DEF GrantsNothing, ToDispatch
  <1>3. CASE CreateEscalation \/ AssignFails
    <2>1. phase' # "spawn" /\ (status'[t] = "open" => status[t] = "open")
      BY <1>0, <1>3 DEF CreateEscalation, AssignFails
    <2>2. QED
      BY <1>0, <1>1, <2>1 DEF GrantsNothing, ToDispatch
  <1>4. CASE Assign
    <2>1. PICK u \in Tasks, w \in Workers :
            /\ status[u] = "open"
            /\ status' = [status EXCEPT ![u] = "assigned"]
            /\ spawning' = [task |-> u, worker |-> w]
      BY <1>4 DEF Assign
    <2>2. ToDispatch(t)' => ToDispatch(t)
      BY <1>0, <2>1 DEF ToDispatch
    <2>3. QED
      BY <1>0, <1>1, <2>2 DEF GrantsNothing
  <1>5. CASE SpawnFails
    <2>1. phase' # "spawn" /\ (status'[t] = "open" => status[t] = "open")
      BY <1>0, <1>5 DEF SpawnFails
    <2>2. QED
      BY <1>0, <1>1, <2>1 DEF GrantsNothing, ToDispatch
  <1>6. QED
    BY <1>2, <1>3, <1>4, <1>5 DEF OtherStep

\* orphanCk and failStuckTasks fail tasks, they re-open none.
LEMMA OrphanEffect ==
  ASSUME LedgerTypeOK, NEW u \in Tasks, NEW w \in Workers, NEW f, FailOrphanedTask(u, w, f)
  PROVE  /\ LedgerTypeOK'
         /\ UNCHANGED <<retries, handoffs>>
         /\ \A t \in Tasks : status'[t] = "open" => status[t] = "open"
  <1> DEFINE st == [status EXCEPT ![u] = "failed"]
  <1>1. /\ HandleTerminalFailure(u, st, f)
        /\ Release(w, f)
        /\ UNCHANGED <<assignee, retries, handoffs>>
    BY DEF FailOrphanedTask
  <1>2. /\ st \in [Tasks -> Status]
        /\ st[u] = "failed" /\ \A t \in Tasks \ {u} : st[t] = status[t]
    BY DEF LedgerTypeOK, Status
  <1> HIDE DEF st
  <1>3. \A t \in Tasks : status'[t] = "open" => st[t] = "open"
    BY <1>1, <1>2, TerminalFailureEffect
  <1>4. /\ status' \in [Tasks -> Status]
        /\ escalation' \in [Tasks -> EscalationStatus]
        /\ aborted' \in BOOLEAN
        /\ reason' \in AbortReason
        /\ gaps' \in Nat
    BY <1>1, <1>2, TerminalFailureEffect
  <1>5. /\ current' \in [Workers -> Tasks \cup {NoTask}]
        /\ session' \in [Workers -> Tasks \cup {NoTask}]
    BY <1>1, ReleaseType
  <1>6. QED
    BY <1>1, <1>2, <1>3, <1>4, <1>5 DEF LedgerTypeOK

LEMMA NotOrphanedEffect ==
  ASSUME LedgerTypeOK, NotOrphaned
  PROVE  /\ LedgerTypeOK'
         /\ UNCHANGED <<retries, handoffs>>
         /\ \A t \in Tasks : status'[t] = "open" => status[t] = "open"
  BY DEF NotOrphaned, LedgerTypeOK, ledger, budgets

LEMMA OrphanStep ==
  ASSUME STypeOK, OrphanCk \/ FailStuck
  PROVE  /\ STypeOK'
         /\ UNCHANGED <<phase, spawning, wdStep, wdCopy, retries, handoffs, started>>
         /\ \A t \in Tasks : status'[t] = "open" => status[t] = "open"
  <1>0. /\ LedgerTypeOK /\ TypeOK /\ WatchdogTypeOK /\ HandoverTypeOK /\ BreakerTypeOK
        /\ started \in [Tasks -> Nat] /\ faults \in 0..MaxFaults
        /\ current \in [Workers -> Tasks \cup {NoTask}]
    BY STypeSplit, TypeSplit DEF LedgerTypeOK
  <1>1. /\ UNCHANGED <<sidecar, monitors, outcomes, control, watchdog, started>>
    BY DEF OrphanCk, FailStuck
  <1>2. /\ LedgerTypeOK'
        /\ UNCHANGED <<retries, handoffs>>
        /\ \A t \in Tasks : status'[t] = "open" => status[t] = "open"
        /\ faults' \in 0..MaxFaults
        /\ HandoverTypeOK' /\ BreakerTypeOK'
    <2>1. CASE OrphanCk
      <3> DEFINE OneFailed == \E f \in FaultKind, g \in FaultKind, w \in Workers :
                   Strike(f) /\ current[w] \in Tasks /\ FailOrphanedTask(current[w], w, g) /\ ResetCB
      <3>1. HandoverTypeOK'
        <4>1. drained' = stuck /\ stuck' = <<>>
          BY <2>1 DEF OrphanCk
        <4>2. orphanCkDone' \in BOOLEAN
          BY <2>1, Zenon DEF OrphanCk
        <4>3. QED
          BY <1>0, <4>1, <4>2 DEF HandoverTypeOK
      <3>2. CASE NotOrphaned /\ UNCHANGED <<breaker, faults>>
        BY <1>0, <3>1, <3>2, NotOrphanedEffect DEF breaker, BreakerTypeOK
      <3>3. CASE \E f \in FaultKind : Strike(f) /\ NotOrphaned /\ UNCHANGED breaker
        BY <1>0, <3>1, <3>3, NotOrphanedEffect, StrikeType DEF breaker, BreakerTypeOK
      <3>4. CASE OneFailed
        BY <1>0, <3>1, <3>4, OrphanEffect, StrikeType, ResetType
      <3>5. ASSUME cbTripped, ~(\E f \in FaultKind : Strike(f) /\ NotOrphaned /\ UNCHANGED breaker),
                   NEW f \in FaultKind, Strike(f), NEW lost \in SUBSET Workers,
                   LET orphans == {w \in Workers \ lost : Orphan(w)}
                       g == IF f = "update" THEN "none" ELSE f
                   IN \/ orphans = {} /\ NotOrphaned /\ UNCHANGED breaker
                      \/ \E w \in orphans :
                           /\ \A v \in orphans : w <= v
                           /\ \A v \in lost : v < w /\ Orphan(v)
                           /\ FailOrphanedTask(current[w], w, g)
                           /\ ResetCB
            PROVE  OneFailed
        <4>1. PICK w \in Workers : /\ Orphan(w)
                                   /\ FailOrphanedTask(current[w], w, IF f = "update" THEN "none" ELSE f)
                                   /\ ResetCB
          BY <3>5, Zenon
        <4>2. current[w] \in Tasks
          BY <1>0, <4>1 DEF Orphan
        <4>3. (IF f = "update" THEN "none" ELSE f) \in FaultKind
          BY DEF FaultKind
        <4>4. QED
          BY <3>5, <4>1, <4>2, <4>3, Zenon
      <3>6. QED
        <4>1. \/ NotOrphaned /\ UNCHANGED <<breaker, faults>>
              \/ \E f \in FaultKind : Strike(f) /\ NotOrphaned /\ UNCHANGED breaker
              \/ OneFailed
          BY <2>1, <3>5, Zenon DEF OrphanCk
        <4>2. QED
          BY <3>2, <3>3, <3>4, <4>1
    <2>2. CASE FailStuck
      <3>1. PICK f \in FaultKind :
              /\ Strike(f)
              /\ \/ FailOrphanedTask(Head(drained).task, Head(drained).worker, f)
                 \/ NotOrphaned
        BY <2>2 DEF FailStuck
      <3>2. drained # <<>> /\ drained' = Tail(drained) /\ UNCHANGED <<breaker, stuck, orphanCkDone>>
        BY <2>2 DEF FailStuck
      <3>3. Head(drained) \in StuckTask /\ Tail(drained) \in Seq(StuckTask)
        BY <1>0, <3>2, ReceiveFacts DEF HandoverTypeOK
      <3>4. Head(drained).task \in Tasks /\ Head(drained).worker \in Workers
        BY <3>3 DEF StuckTask
      <3>5. HandoverTypeOK' /\ BreakerTypeOK'
        BY <1>0, <3>2, <3>3 DEF HandoverTypeOK, BreakerTypeOK, breaker
      <3>6. QED
        BY <1>0, <3>1, <3>4, <3>5, OrphanEffect, NotOrphanedEffect, StrikeType
    <2>3. QED
      BY <2>1, <2>2
  <1>3. TypeOK'
    BY <1>0, <1>1, <1>2 DEF TypeOK, LedgerTypeOK, control
  <1>4. WatchdogTypeOK' /\ UNCHANGED <<phase, spawning, wdStep, wdCopy>>
    BY <1>0, <1>1 DEF WatchdogTypeOK, watchdog, control
  <1>5. started' \in [Tasks -> Nat]
    BY <1>0, <1>1
  <1>6. QED
    BY <1>1, <1>2, <1>3, <1>4, <1>5
    DEF STypeOK, WatchdogTypeOK, HandoverTypeOK, BreakerTypeOK

-----------------------------------------------------------------------------
(* The steps of CheckOnce *)

LEMMA WatchdogTypes ==
  ASSUME STypeOK, WatchdogStep
  PROVE  STypeOK'
  <1>0. /\ TypeOK /\ WatchdogTypeOK /\ HandoverTypeOK /\ BreakerTypeOK
        /\ LedgerTypeOK /\ started \in [Tasks -> Nat] /\ faults \in 0..MaxFaults
    BY STypeSplit, TypeSplit
  <1>c. /\ MaxWorkers \in Nat \ {0} /\ Workers = 1..MaxWorkers
        /\ (wdWorker \in Workers) => (wdWorker + 1) \in 1..(MaxWorkers + 1)
    BY LimitsAssumption DEF Workers
  <1> USE DEF ledger, agents, budgets, control, handover, breaker
  <1>1. CASE WdList
    <2>1. TypeOK' /\ HandoverTypeOK' /\ BreakerTypeOK' /\ started' \in [Tasks -> Nat]
      BY <1>0, <1>1 DEF WdList, vars, TypeOK, HandoverTypeOK, BreakerTypeOK
    <2>2. WatchdogTypeOK'
      BY <1>0, <1>1, <1>c DEF WdList, WatchdogTypeOK, LedgerTypeOK
    <2>3. QED
      BY <2>1, <2>2 DEF STypeOK, WatchdogTypeOK, HandoverTypeOK, BreakerTypeOK
  <1>2. CASE WdSkip
    <2>1. HandoverTypeOK' /\ BreakerTypeOK' /\ started' \in [Tasks -> Nat]
      BY <1>0, <1>2 DEF WdSkip, HandoverTypeOK, BreakerTypeOK
    <2>2. faults' \in 0..MaxFaults
      BY <1>0, <1>2, StrikeType DEF WdSkip
    <2>3. TypeOK'
      BY <1>0, <1>2, <2>2 DEF WdSkip, TypeOK
    <2>4. WatchdogTypeOK'
      BY <1>0, <1>2, <1>c DEF WdSkip, NextWorker, WatchdogTypeOK
    <2>5. QED
      BY <2>1, <2>3, <2>4 DEF STypeOK, WatchdogTypeOK, HandoverTypeOK, BreakerTypeOK
  <1>3. CASE WdDead
    <2> DEFINE t == listing[wdWorker]
    <2>1. wdWorker \in Workers /\ t \in Tasks /\ assignee[t] \in Workers \cup {NoWorker}
      BY <1>0, <1>3 DEF WdDead, Dead, WatchdogTypeOK, LedgerTypeOK
    <2>2. HandoverTypeOK' /\ BreakerTypeOK' /\ started' \in [Tasks -> Nat]
      BY <1>0, <1>3, <2>1, RecordFailureType DEF WdDead, HandoverTypeOK
    <2>3. handoffs' \in [Tasks -> 0..MaxHandoffs]
      BY <1>0, <1>3, <2>1, LimitsAssumption DEF WdDead, TryRecord, LedgerTypeOK
    <2>4. TypeOK'
      BY <1>0, <1>3, <2>3 DEF WdDead, TypeOK
    <2>5. WatchdogTypeOK'
      BY <1>0, <1>3, <2>1 DEF WdDead, WatchdogTypeOK
    <2>6. QED
      BY <2>2, <2>4, <2>5 DEF STypeOK, WatchdogTypeOK, HandoverTypeOK, BreakerTypeOK
  <1>4. CASE WdStuck
    <2> DEFINE s == [task |-> listing[wdWorker], worker |-> wdWorker]
    <2>1. s \in StuckTask /\ stuck \in Seq(StuckTask)
      BY <1>0, <1>4 DEF WdStuck, Dead, WatchdogTypeOK, StuckTask, HandoverTypeOK
    <2>2. Append(stuck, s) \in Seq(StuckTask)
      BY <2>1, SendFacts
    <2>3. stuck' = stuck \/ stuck' = Append(stuck, s)
      BY <1>4 DEF WdStuck
    <2> HIDE DEF s
    <2>4. HandoverTypeOK' /\ BreakerTypeOK' /\ started' \in [Tasks -> Nat]
      BY <1>0, <1>4, <2>1, <2>2, <2>3 DEF WdStuck, HandoverTypeOK, BreakerTypeOK
    <2>5. TypeOK'
      BY <1>0, <1>4 DEF WdStuck, TypeOK, vars
    <2>6. WatchdogTypeOK'
      BY <1>0, <1>4, <1>c DEF WdStuck, NextWorker, WatchdogTypeOK
    <2>7. QED
      BY <2>4, <2>5, <2>6 DEF STypeOK, WatchdogTypeOK, HandoverTypeOK, BreakerTypeOK
  <1>5. CASE WdRestart
    <2>1. wdCopy.task \in Tasks /\ wdWorker \in Workers
      BY <1>0, <1>5 DEF WdRestart, WatchdogTypeOK
    <2>2. faults' \in 0..MaxFaults
      BY <1>0, <1>5, StrikeType DEF WdRestart
    <2>3. session' \in [Workers -> Tasks \cup {NoTask}] /\ started' \in [Tasks -> Nat]
      BY <1>0, <1>5, <2>1 DEF WdRestart, LedgerTypeOK
    <2>4. TypeOK'
      BY <1>0, <1>5, <2>2, <2>3 DEF WdRestart, TypeOK
    <2>5. HandoverTypeOK' /\ BreakerTypeOK'
      BY <1>0, <1>5 DEF WdRestart, HandoverTypeOK, BreakerTypeOK
    <2>6. WatchdogTypeOK'
      BY <1>0, <1>5, <1>c, <2>1 DEF WdRestart, NextWorker, WatchdogTypeOK
    <2>7. QED
      BY <2>3, <2>4, <2>5, <2>6 DEF STypeOK, WatchdogTypeOK, HandoverTypeOK, BreakerTypeOK
  <1>6. CASE WdRecord
    <2>1. /\ wdCopy.task \in Tasks /\ wdWorker \in Workers
          /\ wdCopy.assignee \in Workers \cup {NoWorker}
      BY <1>0, <1>6 DEF WdRecord, WatchdogTypeOK
    <2>2. faults' \in 0..MaxFaults
      BY <1>0, <1>6, StrikeType DEF WdRecord
    <2>3. /\ session' \in [Workers -> Tasks \cup {NoTask}]
          /\ current' \in [Workers -> Tasks \cup {NoTask}]
          /\ status' \in [Tasks -> Status]
          /\ assignee' \in [Tasks -> Workers \cup {NoWorker}]
      BY <1>0, <1>6, <2>1 DEF WdRecord, LedgerTypeOK, Status
    <2>4. TypeOK'
      BY <1>0, <1>6, <2>2, <2>3 DEF WdRecord, TypeOK
    <2>5. HandoverTypeOK' /\ BreakerTypeOK' /\ started' \in [Tasks -> Nat]
      BY <1>0, <1>6 DEF WdRecord, HandoverTypeOK, BreakerTypeOK
    <2>6. WatchdogTypeOK'
      BY <1>0, <1>6, <1>c, <2>1 DEF WdRecord, NextWorker, WatchdogTypeOK, NoCopy
    <2>7. QED
      BY <2>4, <2>5, <2>6 DEF STypeOK, WatchdogTypeOK, HandoverTypeOK, BreakerTypeOK
  <1>7. CASE WdDone
    <2>1. TypeOK' /\ HandoverTypeOK' /\ BreakerTypeOK' /\ started' \in [Tasks -> Nat]
      BY <1>0, <1>7 DEF WdDone, vars, TypeOK, HandoverTypeOK, BreakerTypeOK
    <2>2. WatchdogTypeOK'
      BY <1>0, <1>7, <1>c DEF WdDone, WatchdogTypeOK, NoCopy
    <2>3. QED
      BY <2>1, <2>2 DEF STypeOK, WatchdogTypeOK, HandoverTypeOK, BreakerTypeOK
  <1>8. QED
    BY <1>1, <1>2, <1>3, <1>4, <1>5, <1>6, <1>7 DEF WatchdogStep

\* The handoff is recorded before the session is restarted: the watchdog grants
\* itself the session it starts.
LEMMA WatchdogBudget ==
  ASSUME STypeOK, STypeOK', NEW t \in Tasks, Budget(t), WatchdogStep
  PROVE  Budget(t)'
  <1>0. /\ TypeOK /\ WatchdogTypeOK /\ LedgerTypeOK
        /\ started \in [Tasks -> Nat]
        /\ started[t] \in Nat /\ retries[t] \in Nat /\ handoffs[t] \in Nat
    BY STypeSplit, TypeSplit, CountsType
  <1>1. UNCHANGED <<phase, spawning, retries>>
    BY DEF WatchdogStep, WdList, WdSkip, WdDead, WdStuck, WdRestart, WdRecord, WdDone, vars,
           control, budgets
  <1>2. CASE WdDead
    <2> DEFINE u == listing[wdWorker]
    <2>1. /\ u \in Tasks
          /\ handoffs' = [handoffs EXCEPT ![u] = @ + 1]
          /\ wdStep = "inspect" /\ wdStep' = "restart" /\ wdCopy'.task = u
          /\ UNCHANGED <<status, started>>
      BY <1>0, <1>2 DEF WdDead, Dead, TryRecord, WatchdogTypeOK, ledger
    <2> HIDE DEF u
    <2>2. /\ ~ToRestart(t) /\ (ToRestart(t)' <=> t = u)
          /\ ToDispatch(t)' <=> ToDispatch(t)
      BY <1>1, <2>1 DEF ToRestart, ToDispatch
    <2>3. CASE t # u
      <3>1. GrantsNothing(t) /\ started'[t] = started[t] /\ (ToRestart(t)' => ToRestart(t))
        BY <1>0, <1>1, <2>1, <2>2, <2>3 DEF GrantsNothing, LedgerTypeOK
      <3>2. QED
        BY <3>1, QuietBudget
    <2>4. CASE t = u
      <3>1. Granted(t)' = Granted(t) + 1 /\ Granted(t) \in Nat
        BY <2>2, <2>4 DEF Granted
      <3>2. handoffs'[t] = handoffs[t] + 1 /\ retries'[t] = retries[t] /\ started'[t] = started[t]
        BY <1>0, <1>1, <2>1, <2>4 DEF LedgerTypeOK
      <3>3. QED
        BY <1>0, <3>1, <3>2 DEF Budget
    <2>5. QED
      BY <2>3, <2>4
  <1>3. CASE WdRestart /\ wdStep' = "record"
    <2>1. /\ wdCopy.task \in Tasks
          /\ started' = [started EXCEPT ![wdCopy.task] = @ + 1]
          /\ wdStep = "restart"
          /\ UNCHANGED <<status, handoffs>>
      BY <1>0, <1>3 DEF WdRestart, WatchdogTypeOK, ledger, budgets
    <2>2. /\ (ToRestart(t) <=> wdCopy.task = t) /\ ~ToRestart(t)'
          /\ ToDispatch(t)' <=> ToDispatch(t)
      BY <1>1, <1>3, <2>1 DEF ToRestart, ToDispatch
    <2>3. CASE t # wdCopy.task
      <3>1. GrantsNothing(t) /\ started'[t] = started[t]
        BY <1>0, <1>1, <2>1, <2>2, <2>3 DEF GrantsNothing
      <3>2. QED
        BY <2>2, <3>1, QuietBudget
    <2>4. CASE t = wdCopy.task
      <3>1. Granted(t)' + 1 = Granted(t) /\ Granted(t)' \in Nat
        BY <2>2, <2>4 DEF Granted
      <3>2. handoffs'[t] = handoffs[t] /\ retries'[t] = retries[t] /\ started'[t] = started[t] + 1
        BY <1>0, <1>1, <2>1, <2>4
      <3>3. QED
        BY <1>0, <3>1, <3>2 DEF Budget
    <2>5. QED
      BY <2>3, <2>4
  <1>4. CASE WdList \/ WdSkip \/ WdStuck \/ (WdRestart /\ wdStep' # "record") \/ WdRecord \/ WdDone
    <2>1. UNCHANGED <<handoffs, started>>
      BY <1>4 DEF WdList, WdSkip, WdStuck, WdRestart, WdRecord, WdDone, vars, budgets
    <2>2. wdStep' # "restart"
      BY <1>4 DEF WdList, WdSkip, WdStuck, WdRestart, WdRecord, WdDone
    <2>3. status'[t] = "open" => status[t] = "open"
      BY <1>0, <1>4 DEF WdList, WdSkip, WdStuck, WdRestart, WdRecord, WdDone, vars, ledger,
                        WatchdogTypeOK, LedgerTypeOK
    <2>4. GrantsNothing(t) /\ started'[t] = started[t] /\ (ToRestart(t)' => ToRestart(t))
      BY <1>0, <1>1, <2>1, <2>2, <2>3 DEF GrantsNothing, ToDispatch, ToRestart
    <2>5. QED
      BY <2>4, QuietBudget
  <1>5. QED
    BY <1>2, <1>3, <1>4 DEF WatchdogStep

-----------------------------------------------------------------------------
(* Composition *)

LEMMA SInitInv == SInit => SessionInv
  <1> SUFFICES ASSUME SInit PROVE SessionInv
    OBVIOUS
  <1>1. TypeOK
    BY TypeInit DEF SInit
  <1>2. /\ wdStep = "idle" /\ wdWorker = 1 /\ wdCopy = NoCopy
        /\ listing = [w \in Workers |-> NoTask]
        /\ cbFailures = [w \in Workers |-> 0]
        /\ started = [t \in Tasks |-> 0]
    BY DEF SInit
  <1>3. stuck = <<>> /\ drained = <<>>
    BY DEF SInit
  <1>4. orphanCkDone \in BOOLEAN /\ cbTripped \in BOOLEAN
    BY Zenon DEF SInit
  <1>5. WatchdogTypeOK
    BY <1>2, LimitsAssumption DEF WatchdogTypeOK, NoCopy
  <1>6. HandoverTypeOK /\ BreakerTypeOK
    BY <1>2, <1>3, <1>4, CBAssumption DEF HandoverTypeOK, BreakerTypeOK
  <1>7. STypeOK
    BY <1>1, <1>2, <1>5, <1>6, STypeSplit
  <1>8. /\ phase = "sleep" /\ retries = [t \in Tasks |-> 0] /\ handoffs = [t \in Tasks |-> 0]
    BY Zenon DEF SInit, Init
  <1>9. \A t \in Tasks : started[t] + Granted(t) <= 1 + retries[t] + handoffs[t]
    BY <1>2, <1>8 DEF Granted, ToRestart, ToDispatch
  <1>10. QED
    BY <1>7, <1>9 DEF SessionInv

LEMMA IncrementType ==
  ASSUME NEW S, NEW f \in [S -> Nat], NEW x
  PROVE  [f EXCEPT ![x] = @ + 1] \in [S -> Nat]
  <1>1. \A y \in S : f[y] \in Nat /\ f[y] + 1 \in Nat
    OBVIOUS
  <1>2. QED
    BY <1>1, Zenon

LEMMA SNextInv == SessionInv /\ [SNext]_svars => SessionInv'
  <1> SUFFICES ASSUME SessionInv, [SNext]_svars PROVE SessionInv'
    OBVIOUS
  <1>0. /\ STypeOK /\ TypeOK /\ WatchdogTypeOK /\ HandoverTypeOK /\ BreakerTypeOK
        /\ started \in [Tasks -> Nat]
        /\ \A t \in Tasks : Budget(t)
    BY STypeSplit DEF SessionInv, Budget
  <1>1. ASSUME STypeOK', \A t \in Tasks : Budget(t)' PROVE SessionInv'
    BY <1>1 DEF SessionInv, Budget
  <1>2. ASSUME Unsupervised, TypeOK', started' \in [Tasks -> Nat] PROVE STypeOK'
    BY <1>0, <1>2 DEF Unsupervised, watchdog, breaker, handover, STypeOK, WatchdogTypeOK,
                      HandoverTypeOK, BreakerTypeOK
  <1>3. ASSUME Unsupervised, NEW t \in Tasks PROVE ToRestart(t)' => ToRestart(t)
    BY <1>3 DEF Unsupervised, watchdog, ToRestart
  <1>4. ASSUME STypeOK', UNCHANGED <<status, phase, spawning, retries, handoffs, wdStep, wdCopy, started>>
        PROVE  SessionInv'
    BY <1>0, <1>4 DEF SessionInv, Budget, Granted, ToDispatch, ToRestart
  <1>5. CASE SpawnStep /\ Unsupervised
    <2>1. TypeOK'
      BY <1>0, <1>5, TypeStep DEF SpawnStep, Next, DispatchStep
    <2>2. started' \in [Tasks -> Nat]
      BY <1>0, <1>5, IncrementType DEF SpawnStep
    <2>3. STypeOK'
      BY <1>2, <1>5, <2>1, <2>2
    <2>4. \A t \in Tasks : Budget(t)'
      BY <1>0, <1>5, <2>3, SpawnBudget
    <2>5. QED
      BY <1>1, <2>3, <2>4
  <1>6. CASE DrainStep /\ Unsupervised
    <2>1. TypeOK'
      BY <1>0, <1>6, TypeStep DEF DrainStep, Next, DispatchStep
    <2>2. started' \in [Tasks -> Nat]
      BY <1>0, <1>6, IncrementType DEF DrainStep
    <2>3. STypeOK'
      BY <1>2, <1>6, <2>1, <2>2
    <2>4. \A t \in Tasks : Budget(t)'
      BY <1>0, <1>6, <2>3, DrainBudget
    <2>5. QED
      BY <1>1, <2>3, <2>4
  <1>7. CASE (WaitStep \/ OtherStep) /\ Unsupervised
    <2>1. TypeOK'
      BY <1>0, <1>7, TypeStep DEF WaitStep, OtherStep, Next, DispatchStep
    <2>2. started' \in [Tasks -> Nat]
      BY <1>0, <1>7 DEF WaitStep, OtherStep
    <2>3. STypeOK'
      BY <1>2, <1>7, <2>1, <2>2
    <2>4. QED
      BY <1>0, <1>1, <1>3, <1>7, <2>3, OtherGrantsNothing, QuietBudget
  <1>8. CASE OrphanCk \/ FailStuck
    <2>1. \A t \in Tasks : GrantsNothing(t) /\ started'[t] = started[t]
                           /\ (ToRestart(t)' => ToRestart(t))
      <3> SUFFICES ASSUME NEW t \in Tasks
                   PROVE  GrantsNothing(t) /\ started'[t] = started[t]
                          /\ (ToRestart(t)' => ToRestart(t))
        OBVIOUS
      <3>1. retries[t] >= retries[t] /\ handoffs[t] >= handoffs[t]
        BY <1>0, CountsType
      <3>2. QED
        BY <1>0, <1>8, <3>1, OrphanStep DEF GrantsNothing, ToDispatch, ToRestart
    <2>2. QED
      BY <1>0, <1>1, <1>8, <2>1, OrphanStep, QuietBudget
  <1>9. CASE OrphansDone
    <2>1. TypeOK' /\ phase' # "spawn" /\ UNCHANGED <<status, retries, handoffs, wdStep, wdCopy, started>>
      BY <1>0, <1>9 DEF OrphansDone, TypeOK, Goto, Phase, ledger, agents, budgets, watchdog
    <2>2. HandoverTypeOK'
      <3>1. orphanCkDone' \in BOOLEAN
        BY <1>9, Zenon DEF OrphansDone
      <3>2. QED
        BY <1>0, <1>9, <3>1 DEF OrphansDone, HandoverTypeOK
    <2>3. WatchdogTypeOK' /\ BreakerTypeOK'
      BY <1>0, <1>9 DEF OrphansDone, WatchdogTypeOK, BreakerTypeOK, watchdog, breaker
    <2>4. STypeOK'
      BY <1>0, <2>1, <2>2, <2>3 DEF STypeOK, WatchdogTypeOK, HandoverTypeOK, BreakerTypeOK
    <2>5. \A t \in Tasks : GrantsNothing(t) /\ (ToRestart(t)' => ToRestart(t))
      <3> SUFFICES ASSUME NEW t \in Tasks
                   PROVE  GrantsNothing(t) /\ (ToRestart(t)' => ToRestart(t))
        OBVIOUS
      <3>1. retries[t] >= retries[t] /\ handoffs[t] >= handoffs[t]
        BY <1>0, CountsType
      <3>2. QED
        BY <2>1, <3>1 DEF GrantsNothing, ToDispatch, ToRestart
    <2>6. QED
      BY <1>0, <1>1, <2>1, <2>4, <2>5, QuietBudget
  <1>10. CASE WatchdogStep
    BY <1>0, <1>1, <1>10, WatchdogTypes, WatchdogBudget
  <1>11. ASSUME NEW m \in monitors, SMonitorStep(m) PROVE SessionInv'
    <2>1. TypeOK' /\ MonitorStep(m)
      BY <1>0, <1>11, TypeStep DEF SMonitorStep, MonitorReports, MonitorStep, Next
    <2>2. UNCHANGED <<status, phase, spawning, retries, handoffs, watchdog, handover, started>>
      BY <1>11 DEF SMonitorStep, MonitorReports, MonitorExit, MonitorKill, MonitorSend,
                   Unsupervised, ledger, control, budgets
    <2>3. m.worker \in Workers
      BY <1>0 DEF TypeOK, Monitor
    <2>4. BreakerTypeOK'
      <3>1. UNCHANGED breaker \/ RecordFailure(m.worker)
        BY <1>11 DEF SMonitorStep, MonitorReports, Unsupervised
      <3>2. CASE UNCHANGED breaker
        BY <1>0, <3>2 DEF breaker, BreakerTypeOK
      <3>3. QED
        BY <1>0, <2>3, <3>1, <3>2, RecordFailureType
    <2>5. STypeOK'
      BY <1>0, <2>1, <2>2, <2>4
      DEF STypeOK, WatchdogTypeOK, HandoverTypeOK, BreakerTypeOK, watchdog, handover
    <2>6. QED
      BY <1>4, <2>2, <2>5 DEF watchdog
  <1>12. CASE Environment
    <2>1. TypeOK'
      BY <1>0, <1>12, TypeStep DEF Environment, SAgentStep, Next
    <2>2. UNCHANGED <<status, phase, spawning, retries, handoffs, started>> /\ Unsupervised
      BY <1>12 DEF Environment, SAgentStep, AgentStep, AgentExit, AgentKilled, Signal, Ended,
                   ResolveEscalation, ledger, control, budgets, vars
    <2>3. STypeOK'
      BY <1>0, <1>2, <2>1, <2>2
    <2>4. QED
      BY <1>4, <2>2, <2>3 DEF Unsupervised, watchdog
  <1>13. CASE UNCHANGED svars
    <2>1. TypeOK'
      BY <1>0, <1>13, TypeStep DEF svars
    <2>2. /\ Unsupervised
          /\ UNCHANGED <<status, phase, spawning, retries, handoffs, wdStep, wdCopy, started>>
      BY <1>13 DEF svars, vars, ledger, control, budgets, Unsupervised, watchdog, breaker, handover
    <2>3. QED
      BY <1>0, <1>2, <1>4, <2>1, <2>2
  <1>14. QED
    BY <1>5, <1>6, <1>7, <1>8, <1>9, <1>10, <1>11, <1>12, <1>13
    DEF SNext, SDispatch, DispatcherStep

\* Every value keeps its type with the watchdog running beside the dispatcher: no
\* retry or handoff counter passes its budget although two goroutines record
\* handoffs.
THEOREM SupervisedTypeCorrect == SSpec => []STypeOK
  <1>1. SessionInv => STypeOK
    BY DEF SessionInv
  <1>2. QED
    BY <1>1, SInitInv, SNextInv, PTL DEF SSpec

\* BVV-ERR-01 with BVV-L-04: for any tasks, workers and budgets, and whatever the
\* dispatcher and the watchdog do to each other, a task gets one session, one more
\* per recorded retry and one more per recorded handoff.
THEOREM SessionsWithinBudget == SSpec => []SessionBudget
  <1>1. SessionInv => SessionBudget
    <2> SUFFICES ASSUME SessionInv, NEW t \in Tasks
                 PROVE  started[t] <= 1 + retries[t] + handoffs[t]
      BY DEF SessionBudget
    <2>1. /\ started[t] \in Nat /\ retries[t] \in Nat /\ handoffs[t] \in Nat
          /\ started[t] + Granted(t) <= 1 + retries[t] + handoffs[t]
      BY CountsType DEF SessionInv
    <2>2. Granted(t) \in Nat
      BY DEF Granted
    <2>3. QED
      BY <2>1, <2>2
  <1>2. QED
    BY <1>1, SInitInv, SNextInv, PTL DEF SSpec
-----------------------------------------------------------------------------
(* The outcomes to come under supervision *)

\* The workers the ledger has as active; the outcomes to come, with the one of the
\* agent about to be launched.
Active == Cardinality({w \in Workers : current[w] # NoTask})
Owed == IF phase = "spawn" THEN Outstanding + 1 ELSE Outstanding

\* Before the abort every outcome to come is paid for by an active worker or by a
\* gap: an orphan's failure takes the worker away and counts the gap.  The abort
\* ends the launches, so the bound reached then is kept.
OutcomesInv ==
  /\ IsFiniteSet(monitors)
  /\ phase \in {"dispatch", "spawn"} => ~aborted
  /\ ~aborted => gaps < GapLimit
  /\ ~aborted => Owed <= Active + gaps
  /\ Owed <= MaxWorkers + GapLimit - 1

\* What every step does to the account: outcomes grow with the active workers and
\* the gaps, and not at all once the lifecycle aborted.
Balanced ==
  /\ IsFiniteSet(monitors')
  /\ GapMoves
  /\ ~aborted' => Owed' + Active + gaps <= Owed + Active' + gaps'
  /\ aborted' => Owed' <= Owed
  /\ phase' \in {"dispatch", "spawn"} => ~aborted'

LEMMA ActiveType ==
  ASSUME NEW c
  PROVE  /\ IsFiniteSet({w \in Workers : c[w] # NoTask})
         /\ Cardinality({w \in Workers : c[w] # NoTask}) \in Nat
         /\ Cardinality({w \in Workers : c[w] # NoTask}) <= MaxWorkers
  <1>1. IsFiniteSet(Workers) /\ Cardinality(Workers) = MaxWorkers
    BY FS_Interval, LimitsAssumption DEF Workers
  <1>2. {w \in Workers : c[w] # NoTask} \subseteq Workers
    OBVIOUS
  <1>3. QED
    BY <1>1, <1>2, FS_Subset, FS_CardinalityType

\* One worker's record changes the number of active workers by at most one.
LEMMA ActiveMoves ==
  ASSUME NEW c, NEW d, NEW w \in Workers, \A v \in Workers \ {w} : d[v] = c[v]
  PROVE  /\ Cardinality({v \in Workers : c[v] # NoTask}) - 1
              <= Cardinality({v \in Workers : d[v] # NoTask})
         /\ d[w] # NoTask => Cardinality({v \in Workers : c[v] # NoTask})
                               <= Cardinality({v \in Workers : d[v] # NoTask})
         /\ c[w] = NoTask /\ d[w] # NoTask =>
              Cardinality({v \in Workers : d[v] # NoTask})
                = Cardinality({v \in Workers : c[v] # NoTask}) + 1
  <1> DEFINE C == {v \in Workers : c[v] # NoTask}
             D == {v \in Workers : d[v] # NoTask}
  <1>1. /\ IsFiniteSet(C) /\ Cardinality(C) \in Nat
        /\ IsFiniteSet(D) /\ Cardinality(D) \in Nat
    BY ActiveType
  <1>2. C \ {w} \subseteq D
    OBVIOUS
  <1>3. /\ IsFiniteSet(C \ {w})
        /\ Cardinality(C \ {w}) = IF w \in C THEN Cardinality(C) - 1 ELSE Cardinality(C)
    BY <1>1, FS_RemoveElement
  <1>4. Cardinality(C \ {w}) <= Cardinality(D)
    BY <1>1, <1>2, FS_Subset
  <1>5. ASSUME d[w] # NoTask PROVE Cardinality(C) <= Cardinality(D)
    <2>1. C \subseteq D
      BY <1>5
    <2>2. QED
      BY <1>1, <2>1, FS_Subset
  <1>6. ASSUME c[w] = NoTask, d[w] # NoTask PROVE Cardinality(D) = Cardinality(C) + 1
    <2>1. D = C \cup {w} /\ w \notin C
      BY <1>6
    <2>2. QED
      BY <1>1, <2>1, FS_AddElement
  <1>7. QED
    BY <1>1, <1>3, <1>4, <1>5, <1>6

\* The account's entries are numbers.
AccountOK ==
  /\ Outstanding \in Nat /\ Owed \in Nat
  /\ Active \in Nat /\ Active <= MaxWorkers
  /\ gaps \in Nat

LEMMA AccountType ==
  ASSUME STypeOK, IsFiniteSet(monitors)
  PROVE  AccountOK
  <1>1. outcomes \in Seq(TaskOutcome) /\ gaps \in Nat
    BY DEF STypeOK, TypeOK
  <1>2. Cardinality(monitors) \in Nat /\ Len(outcomes) \in Nat
    BY <1>1, FS_CardinalityType
  <1>3. Active \in Nat /\ Active <= MaxWorkers
    BY ActiveType DEF Active
  <1>4. QED
    BY <1>1, <1>2, <1>3 DEF AccountOK, Outstanding, Owed

LEMMA AccountTypeNext ==
  ASSUME STypeOK', IsFiniteSet(monitors')
  PROVE  AccountOK'
  <1>1. outcomes' \in Seq(TaskOutcome) /\ gaps' \in Nat
    BY DEF STypeOK, TypeOK
  <1>2. Cardinality(monitors') \in Nat /\ Len(outcomes') \in Nat
    BY <1>1, FS_CardinalityType
  <1>3. Active' \in Nat /\ Active' <= MaxWorkers
    BY ActiveType DEF Active
  <1>4. QED
    BY <1>1, <1>2, <1>3 DEF AccountOK, Outstanding, Owed

\* The account's arithmetic: n outcomes owed, a workers active, g gaps.
LEMMA AccountSums ==
  ASSUME NEW n \in Nat, NEW n1 \in Nat, NEW a \in Nat, NEW a1 \in Nat,
         NEW g \in Nat, NEW g1 \in Nat
  PROVE  /\ n1 <= n /\ a <= a1 /\ g1 = g => n1 + a + g <= n + a1 + g1
         /\ n1 = n /\ a - 1 <= a1 /\ g1 = g + 1 => n1 + a + g <= n + a1 + g1
         /\ n1 = n + 1 /\ a1 = a + 1 /\ g1 = g => n1 + a + g <= n + a1 + g1
         /\ n1 = n => n1 <= n
         /\ \A w, l \in Nat : a <= w /\ g < l /\ n <= a + g => n <= w + l - 1
  OBVIOUS

LEMMA StaysPaid ==
  ASSUME NEW n \in Nat, NEW n1 \in Nat, NEW a \in Nat, NEW a1 \in Nat,
         NEW g \in Nat, NEW g1 \in Nat, n <= a + g, n1 + a + g <= n + a1 + g1
  PROVE  n1 <= a1 + g1
  OBVIOUS

LEMMA OnePaidOff ==
  ASSUME NEW n \in Nat, NEW n1 \in Nat, NEW a \in Nat, NEW a1 \in Nat,
         NEW g \in Nat, NEW g1 \in Nat, n1 = n - 1, a - 1 <= a1, g <= g1
  PROVE  n1 <= n /\ n1 + a + g <= n + a1 + g1
  OBVIOUS

LEMMA BalancedKeeps ==
  ASSUME STypeOK, STypeOK', OutcomesInv, Balanced
  PROVE  OutcomesInv'
  <1>1. AccountOK /\ AccountOK'
    BY AccountType, AccountTypeNext DEF OutcomesInv, Balanced
  <1>2. GapLimit \in Nat /\ MaxWorkers \in Nat
    BY GapLimitFacts, LimitsAssumption
  <1>3. ~aborted' => ~aborted /\ gaps' < GapLimit
    BY DEF Balanced, GapMoves, OutcomesInv
  <1>4. ~aborted' => Owed' <= Active' + gaps'
    <2> SUFFICES ASSUME ~aborted' PROVE Owed' <= Active' + gaps'
      OBVIOUS
    <2>1. Owed <= Active + gaps
      BY <1>3 DEF OutcomesInv
    <2>2. Owed' + Active + gaps <= Owed + Active' + gaps'
      BY DEF Balanced
    <2>3. /\ Owed \in Nat /\ Owed' \in Nat /\ Active \in Nat /\ Active' \in Nat
          /\ gaps \in Nat /\ gaps' \in Nat
      BY <1>1 DEF AccountOK
    <2>4. QED
      BY <2>1, <2>2, <2>3, StaysPaid
  <1>5. Owed' <= MaxWorkers + GapLimit - 1
    <2>1. CASE ~aborted'
      BY <1>1, <1>2, <1>3, <1>4, <2>1, AccountSums DEF AccountOK
    <2>2. CASE aborted'
      BY <1>1, <1>2, <2>2 DEF AccountOK, Balanced, OutcomesInv
    <2>3. QED
      BY <2>1, <2>2
  <1>6. QED
    BY <1>3, <1>4, <1>5 DEF OutcomesInv, Balanced, GapLimit

\* A step that launches nothing, idles nobody and counts nothing.
LEMMA QuietBalanced ==
  ASSUME AccountOK, AccountOK', IsFiniteSet(monitors'), UNCHANGED <<gaps, aborted>>,
         Owed' <= Owed,
         Active <= Active',
         phase' \in {"dispatch", "spawn"} => ~aborted'
  PROVE  Balanced
  <1>1. GapMoves
    BY DEF GapMoves, AccountOK
  <1>2. Owed' + Active + gaps <= Owed + Active' + gaps'
    BY AccountSums DEF AccountOK
  <1>3. QED
    BY <1>1, <1>2 DEF Balanced

\* Drain takes an outcome out of the channel and idles at most its worker.
LEMMA DrainBalanced ==
  ASSUME STypeOK, STypeOK', OutcomesInv, DrainOne
  PROVE  Balanced
  <1>0. TypeOK /\ IsFiniteSet(monitors)
    BY DEF STypeOK, OutcomesInv
  <1>1. /\ outcomes # <<>> /\ outcomes' = Tail(outcomes)
        /\ outcomes \in Seq(TaskOutcome)
        /\ phase' = phase /\ phase \in {"drain", "final"} /\ monitors' = monitors
    BY <1>0, DrainOneMoves DEF TypeOK, control
  <1>2. AccountOK /\ AccountOK'
    BY <1>0, <1>1, AccountType, AccountTypeNext
  <1>3. Owed' = Owed - 1
    <2>1. Len(outcomes') = Len(outcomes) - 1 /\ Len(outcomes) \in Nat
      BY <1>1, ReceiveFacts
    <2>2. Cardinality(monitors) \in Nat
      BY <1>0, FS_CardinalityType
    <2>3. QED
      BY <1>1, <2>1, <2>2 DEF Outstanding, Owed
  <1>4. Active - 1 <= Active'
    <2>1. PICK w \in Workers : \A v \in Workers \ {w} : current'[v] = current[v]
      BY <1>0, DrainOneMoves DEF Moves, TaskOutcome
    <2>2. QED
      BY <2>1, ActiveMoves DEF Active
  <1>5. GapMoves
    BY <1>0, DrainOneGaps
  <1>6. gaps <= gaps'
    BY <1>2, <1>5 DEF GapMoves, AccountOK
  <1>7. Owed' <= Owed /\ Owed' + Active + gaps <= Owed + Active' + gaps'
    <2>1. /\ Owed \in Nat /\ Owed' \in Nat /\ Active \in Nat /\ Active' \in Nat
          /\ gaps \in Nat /\ gaps' \in Nat
      BY <1>2 DEF AccountOK
    <2>2. QED
      BY <1>3, <1>4, <1>6, <2>1, OnePaidOff
  <1>8. QED
    BY <1>0, <1>1, <1>5, <1>7 DEF Balanced

\* An orphan's failure idles its worker and counts a gap, or aborts.
LEMMA OrphanBalanced ==
  ASSUME STypeOK, STypeOK', OutcomesInv, phase = "orphans",
         NEW u \in Tasks, NEW w \in Workers, NEW f, FailOrphanedTask(u, w, f),
         UNCHANGED <<phase, monitors, outcomes>>
  PROVE  Balanced
  <1>0. LedgerTypeOK /\ IsFiniteSet(monitors)
    BY TypeSplit DEF STypeOK, OutcomesInv
  <1>1. AccountOK /\ AccountOK'
    BY <1>0, AccountType, AccountTypeNext
  <1>2. /\ HandleTerminalFailure(u, [status EXCEPT ![u] = "failed"], f)
        /\ Release(w, f)
    BY DEF FailOrphanedTask
  <1>3. Owed' = Owed
    BY DEF Outstanding, Owed
  <1>4. Active - 1 <= Active'
    <2>1. \A v \in Workers \ {w} : current'[v] = current[v]
      BY <1>0, <1>2, ReleaseType
    <2>2. QED
      BY <2>1, ActiveMoves DEF Active
  <1>5. GapMoves
    BY <1>0, <1>2, TerminalFailureGaps
  <1>6. aborted' \/ gaps' = gaps + 1
    BY <1>2 DEF HandleTerminalFailure, AbortLifecycle
  <1>7. ~aborted' => Owed' + Active + gaps <= Owed + Active' + gaps'
    BY <1>1, <1>3, <1>4, <1>6, AccountSums DEF AccountOK
  <1>8. Owed' <= Owed
    BY <1>1, <1>3, AccountSums DEF AccountOK
  <1>9. QED
    BY <1>0, <1>5, <1>7, <1>8 DEF Balanced

LEMMA OrphanCases ==
  ASSUME STypeOK, OrphanCk \/ FailStuck
  PROVE  \/ NotOrphaned
         \/ \E u \in Tasks, w \in Workers, f \in FaultKind : FailOrphanedTask(u, w, f)
  <1>0. current \in [Workers -> Tasks \cup {NoTask}] /\ drained \in Seq(StuckTask)
    BY DEF STypeOK, TypeOK
  <1>1. CASE OrphanCk
    <2>1. ASSUME NEW f \in FaultKind, NEW w \in Workers, Orphan(w),
                 FailOrphanedTask(current[w], w, IF f = "update" THEN "none" ELSE f)
          PROVE  \E u \in Tasks, v \in Workers, g \in FaultKind : FailOrphanedTask(u, v, g)
      <3>1. current[w] \in Tasks
        BY <1>0, <2>1 DEF Orphan
      <3>2. (IF f = "update" THEN "none" ELSE f) \in FaultKind
        BY DEF FaultKind
      <3>3. QED
        BY <2>1, <3>1, <3>2, Zenon
    <2>2. QED
      BY <1>1, <2>1, Zenon DEF OrphanCk
  <1>2. CASE FailStuck
    <2>1. drained # <<>>
      BY <1>2 DEF FailStuck
    <2>2. Head(drained) \in StuckTask
      BY <1>0, <2>1, ReceiveFacts
    <2>3. Head(drained).task \in Tasks /\ Head(drained).worker \in Workers
      BY <2>2 DEF StuckTask
    <2>4. QED
      BY <1>2, <2>3, Zenon DEF FailStuck
  <1>3. QED
    BY <1>1, <1>2

\* A step that leaves goroutines, channel and worker records alone.
LEMMA IdleBalanced ==
  ASSUME STypeOK, STypeOK', OutcomesInv,
         UNCHANGED <<monitors, outcomes, current, gaps, aborted>>,
         phase' = "spawn" => phase = "spawn",
         phase' \in {"dispatch", "spawn"} => ~aborted
  PROVE  Balanced
  <1>0. IsFiniteSet(monitors) /\ IsFiniteSet(monitors')
    BY DEF OutcomesInv
  <1>1. AccountOK /\ AccountOK'
    BY <1>0, AccountType, AccountTypeNext
  <1>2. Outstanding' = Outstanding /\ Active' = Active
    BY DEF Outstanding, Active
  <1>3. Owed' <= Owed
    BY <1>1, <1>2 DEF Owed, AccountOK
  <1>4. Active <= Active'
    BY <1>1, <1>2 DEF AccountOK
  <1>5. QED
    BY <1>0, <1>1, <1>3, <1>4, QuietBalanced

LEMMA LaunchBalanced ==
  ASSUME STypeOK, STypeOK', OutcomesInv, Assign \/ AssignFails \/ Spawn \/ SpawnFails
  PROVE  Balanced
  <1>0. /\ IsFiniteSet(monitors) /\ LedgerTypeOK
        /\ phase \in {"dispatch", "spawn"} /\ ~aborted
        /\ UNCHANGED <<outcomes, gaps, aborted>>
        /\ (phase = "spawn") => (spawning.task \in Tasks /\ spawning.worker \in Workers)
    BY TypeSplit
    DEF STypeOK, OutcomesInv, Assign, AssignFails, Spawn, SpawnFails, agents, budgets
  <1>1. \A t \in Tasks : t # NoTask
    BY TasksAssumption DEF NoTask
  <1>2. AccountOK
    BY <1>0, AccountType
  <1>3. CASE Assign
    <2>1. /\ monitors' = monitors /\ phase = "dispatch" /\ phase' = "spawn"
      BY <1>3 DEF Assign, agents
    <2>2. Owed' = Owed + 1
      <3>1. Outstanding' = Outstanding
        BY <1>0, <2>1 DEF Outstanding
      <3>2. QED
        BY <1>2, <2>1, <3>1 DEF Owed, AccountOK
    <2>3. PICK t \in Tasks, w \in Workers : Idle(w) /\ current' = [current EXCEPT ![w] = t]
      BY <1>3 DEF Assign, Allocated
    <2>4. Active' = Active + 1
      <3>1. \A v \in Workers \ {w} : current'[v] = current[v]
        BY <1>0, <2>3 DEF LedgerTypeOK
      <3>2. current[w] = NoTask /\ current'[w] # NoTask
        BY <1>0, <1>1, <2>3 DEF LedgerTypeOK, Idle
      <3>3. QED
        BY <3>1, <3>2, ActiveMoves DEF Active
    <2>5. AccountOK'
      BY <1>0, <2>1, AccountTypeNext
    <2>6. Owed' + Active + gaps <= Owed + Active' + gaps'
      BY <1>0, <1>2, <2>2, <2>4, <2>5, AccountSums DEF AccountOK
    <2>7. GapMoves
      BY <1>0 DEF GapMoves
    <2>8. QED
      BY <1>0, <2>1, <2>6, <2>7 DEF Balanced
  <1>4. CASE AssignFails
    <2>1. monitors' = monitors /\ phase' = phase /\ phase = "dispatch"
      BY <1>4 DEF AssignFails
    <2>2. AccountOK'
      BY <1>0, <2>1, AccountTypeNext
    <2>3. Owed' <= Owed
      <3>1. Outstanding' = Outstanding
        BY <1>0, <2>1 DEF Outstanding
      <3>2. QED
        BY <1>2, <2>1, <3>1 DEF Owed, AccountOK
    <2>4. Active <= Active'
      <3>1. PICK w \in Workers : Idle(w) /\ current' = [current EXCEPT ![w] = NoTask]
        BY <1>4 DEF AssignFails, Allocated, Release
      <3>2. {v \in Workers : current'[v] # NoTask} = {v \in Workers : current[v] # NoTask}
        BY <1>0, <3>1 DEF Idle, LedgerTypeOK
      <3>3. Active' = Active
        BY <3>2 DEF Active
      <3>4. QED
        BY <1>2, <3>3 DEF AccountOK
    <2>5. QED
      BY <1>0, <1>2, <2>1, <2>2, <2>3, <2>4, QuietBalanced
  <1>5. CASE Spawn
    <2> DEFINE t == spawning.task
               w == spawning.worker
               m == [task |-> t, worker |-> w, attempt |-> retries[t], outcome |-> "none"]
    <2>1. /\ phase = "spawn" /\ phase' = "dispatch"
          /\ monitors' = monitors \cup {m}
          /\ current' = [current EXCEPT ![w] = t]
          /\ t \in Tasks /\ w \in Workers
      BY <1>0, <1>5 DEF Spawn, SpawnSession
    <2> HIDE DEF t, w, m
    <2>2. /\ IsFiniteSet(monitors') /\ Cardinality(monitors') \in Nat
          /\ Cardinality(monitors') <= Cardinality(monitors) + 1
          /\ Cardinality(monitors) \in Nat
      <3>1. /\ IsFiniteSet(monitors \cup {m})
            /\ Cardinality(monitors \cup {m}) =
                 IF m \in monitors THEN Cardinality(monitors) ELSE Cardinality(monitors) + 1
        BY <1>0, FS_AddElement
      <3>2. Cardinality(monitors) \in Nat
        BY <1>0, FS_CardinalityType
      <3>3. QED
        BY <2>1, <3>1, <3>2
    <2>3. AccountOK'
      BY <2>2, AccountTypeNext
    <2>4. Owed' <= Owed
      <3>1. Len(outcomes) \in Nat
        BY DEF STypeOK, TypeOK
      <3>2. Outstanding' <= Outstanding + 1
        BY <1>0, <2>2, <3>1 DEF Outstanding
      <3>3. Owed' = Outstanding' /\ Owed = Outstanding + 1
        BY <2>1 DEF Owed
      <3>4. QED
        BY <3>2, <3>3
    <2>5. Active <= Active'
      <3>1. current'[w] # NoTask /\ \A v \in Workers \ {w} : current'[v] = current[v]
        BY <1>0, <1>1, <2>1 DEF LedgerTypeOK
      <3>2. PICK u \in Workers : current'[u] # NoTask /\ \A v \in Workers \ {u} : current'[v] = current[v]
        BY <2>1, <3>1
      <3>3. QED
        BY <3>2, ActiveMoves DEF Active
    <2>6. QED
      BY <1>0, <1>2, <2>1, <2>2, <2>3, <2>4, <2>5, QuietBalanced
  <1>6. CASE SpawnFails
    <2>1. phase = "spawn" /\ phase' = "dispatch" /\ monitors' = monitors
      BY <1>6 DEF SpawnFails
    <2>2. AccountOK'
      BY <1>0, <2>1, AccountTypeNext
    <2>3. Owed' = Owed - 1
      <3>1. Outstanding' = Outstanding
        BY <1>0, <2>1 DEF Outstanding
      <3>2. QED
        BY <1>2, <2>1, <3>1 DEF Owed, AccountOK
    <2>4. Active - 1 <= Active'
      <3>1. PICK f : Release(spawning.worker, f)
        BY <1>6 DEF SpawnFails
      <3>2. \A v \in Workers \ {spawning.worker} : current'[v] = current[v]
        BY <1>0, <2>1, <3>1, ReleaseType
      <3>3. QED
        BY <1>0, <2>1, <3>2, ActiveMoves DEF Active
    <2>5. Owed' + Active + gaps <= Owed + Active' + gaps'
      <3>1. /\ Owed \in Nat /\ Owed' \in Nat /\ Active \in Nat /\ Active' \in Nat
            /\ gaps \in Nat /\ gaps' \in Nat /\ gaps <= gaps'
        BY <1>0, <1>2, <2>2 DEF AccountOK
      <3>2. QED
        BY <2>3, <2>4, <3>1, OnePaidOff
    <2>6. GapMoves
      BY <1>0 DEF GapMoves
    <2>7. QED
      BY <1>0, <2>1, <2>5, <2>6 DEF Balanced
  <1>7. QED
    BY <1>3, <1>4, <1>5, <1>6

LEMMA OutcomesStep ==
  ASSUME STypeOK, STypeOK', OutcomesInv, [SNext]_svars
  PROVE  OutcomesInv'
  <1> SUFFICES Balanced
    BY BalancedKeeps
  <1>0. /\ TypeOK /\ IsFiniteSet(monitors)
        /\ phase \in {"dispatch", "spawn"} => ~aborted
    BY DEF STypeOK, OutcomesInv
  <1> USE DEF ledger, agents, budgets, control
  <1>1. CASE Assign \/ AssignFails \/ Spawn \/ SpawnFails
    BY <1>1, LaunchBalanced
  <1>2. CASE DrainOne
    BY <1>2, DrainBalanced
  <1>3. CASE StartTick \/ DrainDone \/ CheckAbort \/ CreateEscalation \/ DispatchDone
             \/ CheckTermination \/ Cleanup \/ WaitDone \/ OrphansDone
    <2>1. /\ UNCHANGED <<monitors, outcomes, current, gaps, aborted>>
          /\ phase' # "spawn"
          /\ phase' = "dispatch" => ~aborted
      BY <1>0, <1>3 DEF StartTick, DrainDone, CheckAbort, CreateEscalation, DispatchDone,
                        CheckTermination, Cleanup, WaitDone, OrphansDone, Goto, Return
    <2>2. QED
      BY <2>1, IdleBalanced
  <1>4. CASE OrphanCk \/ FailStuck
    <2>1. phase = "orphans" /\ UNCHANGED <<phase, monitors, outcomes>>
      BY <1>4 DEF OrphanCk, FailStuck
    <2>2. CASE NotOrphaned
      <3>1. UNCHANGED <<current, gaps, aborted>>
        BY <2>2 DEF NotOrphaned
      <3>2. QED
        BY <2>1, <3>1, IdleBalanced
    <2>3. CASE \E u \in Tasks, w \in Workers, f \in FaultKind : FailOrphanedTask(u, w, f)
      BY <2>1, <2>3, OrphanBalanced
    <2>4. QED
      BY <1>4, <2>2, <2>3, OrphanCases
  <1>5. CASE WatchdogStep
    <2>1. UNCHANGED <<phase, monitors, outcomes, gaps, aborted>>
      BY <1>5 DEF WatchdogStep, WdList, WdSkip, WdDead, WdStuck, WdRestart, WdRecord, WdDone, vars
    <2>2. CASE current' = current
      BY <1>0, <2>1, <2>2, IdleBalanced
    <2>3. CASE WdRecord /\ current' # current
      <3>1. /\ wdCopy.task \in Tasks /\ wdWorker \in Workers
            /\ current' = [current EXCEPT ![wdWorker] = wdCopy.task]
            /\ current \in [Workers -> Tasks \cup {NoTask}]
        BY <2>3 DEF WdRecord, STypeOK, TypeOK
      <3>2. wdCopy.task # NoTask
        BY <3>1, TasksAssumption DEF NoTask
      <3>3. PICK w \in Workers : current'[w] # NoTask /\ \A v \in Workers \ {w} : current'[v] = current[v]
        BY <3>1, <3>2
      <3>4. Active <= Active'
        BY <3>3, ActiveMoves DEF Active
      <3>5. AccountOK /\ AccountOK'
        BY <1>0, <2>1, AccountType, AccountTypeNext
      <3>6. Owed' <= Owed
        <4>1. Owed' = Owed /\ Owed \in Nat
          BY <2>1, <3>5 DEF Owed, Outstanding, AccountOK
        <4>2. QED
          BY <4>1
      <3>7. QED
        BY <1>0, <2>1, <3>4, <3>5, <3>6, QuietBalanced
    <2>4. QED
      BY <1>5, <2>2, <2>3 DEF WatchdogStep, WdList, WdSkip, WdDead, WdStuck, WdRestart, WdDone, vars
  <1>6. ASSUME NEW m \in monitors, SMonitorStep(m) PROVE Balanced
    <2>1. MonitorStep(m) /\ UNCHANGED <<phase, current, gaps, aborted>>
      BY <1>6 DEF SMonitorStep, MonitorReports, MonitorStep, MonitorExit, MonitorKill, MonitorSend
    <2>2. IsFiniteSet(monitors') /\ Outstanding' \in Nat /\ Outstanding' <= Outstanding
      BY <1>0, <2>1, MonitorOutstanding
    <2>3. AccountOK /\ AccountOK'
      BY <1>0, <2>2, AccountType, AccountTypeNext
    <2>4. Owed' <= Owed
      <3>1. \A n, n1 \in Nat : n1 <= n => n1 + 1 <= n + 1
        OBVIOUS
      <3>2. QED
        BY <2>1, <2>2, <2>3, <3>1 DEF Owed, AccountOK
    <2>5. Active <= Active'
      <3>1. Active' = Active /\ Active \in Nat
        BY <2>1, <2>3 DEF Active, AccountOK
      <3>2. QED
        BY <3>1
    <2>6. QED
      BY <1>0, <2>1, <2>2, <2>3, <2>4, <2>5, QuietBalanced
  <1>7. CASE Environment \/ UNCHANGED svars
    <2>1. UNCHANGED <<phase, monitors, outcomes, current, gaps, aborted>>
      BY <1>7 DEF Environment, SAgentStep, AgentStep, AgentExit, AgentKilled, Signal, Ended,
                  ResolveEscalation, vars, svars
    <2>2. QED
      BY <1>0, <2>1, IdleBalanced
  <1>8. QED
    BY <1>1, <1>2, <1>3, <1>4, <1>5, <1>6, <1>7
    DEF SNext, SDispatch, DispatcherStep, SpawnStep, DrainStep, WaitStep, OtherStep

LEMMA OutcomesInit == SInit => OutcomesInv
  <1> SUFFICES ASSUME SInit PROVE OutcomesInv
    OBVIOUS
  <1>1. /\ monitors = {} /\ outcomes = <<>> /\ gaps = 0 /\ phase = "sleep"
        /\ current = [w \in Workers |-> NoTask]
    BY DEF SInit, Init
  <1>2. ~aborted
    BY Zenon DEF SInit, Init
  <1>3. IsFiniteSet(monitors) /\ Owed = 0
    BY <1>1, FS_EmptySet DEF Outstanding, Owed
  <1>4. Active \in Nat
    BY ActiveType DEF Active
  <1>5. QED
    BY <1>1, <1>2, <1>3, <1>4, GapLimitFacts, LimitsAssumption DEF OutcomesInv

LEMMA OutcomesInvariance == SSpec => [](STypeOK /\ OutcomesInv)
  <1>1. SessionInv => STypeOK
    BY DEF SessionInv
  <1>2. SessionInv /\ SessionInv' /\ OutcomesInv /\ [SNext]_svars => OutcomesInv'
    <2> SUFFICES ASSUME SessionInv, SessionInv', OutcomesInv, [SNext]_svars PROVE OutcomesInv'
      OBVIOUS
    <2>1. STypeOK /\ STypeOK'
      BY DEF SessionInv
    <2>2. QED
      BY <2>1, OutcomesStep
  <1>3. QED
    BY <1>1, <1>2, SInitInv, SNextInv, OutcomesInit, PTL DEF SSpec

\* With the watchdog running there are at most MaxWorkers + GapTolerance - 1
\* outcomes to come, for every pool, tolerance and budget: each goroutine that
\* failOrphanedTask leaves behind has cost a gap, and dispatch goes on only below
\* the tolerance.
THEOREM SupervisedOutcomesBounded == SSpec => []OutcomesBounded
  <1>1. STypeOK /\ OutcomesInv => OutcomesBounded
    <2> SUFFICES ASSUME STypeOK, OutcomesInv PROVE OutcomesBounded
      OBVIOUS
    <2>1. AccountOK /\ GapLimit \in Nat /\ MaxWorkers \in Nat
      BY AccountType, GapLimitFacts, LimitsAssumption DEF OutcomesInv
    <2>2. QED
      BY <2>1 DEF OutcomesBounded, OutcomesInv, AccountOK, Owed
  <1>2. QED
    BY <1>1, OutcomesInvariance, PTL

\* A buffer of MaxWorkers + GapTolerance - 1 is enough for the wait of runLoop to
\* return: no goroutine it waits for is left with a send that blocks.  The code's
\* buffer, max(4, MaxWorkers), is that large only for small pools and tolerances.
THEOREM WaitReturnsWithRoom ==
  ASSUME MaxWorkers + GapLimit - 1 <= BufSize
  PROVE  SSpec => []WaitReturns
  <1>1. STypeOK /\ OutcomesInv => WaitReturns
    <2> SUFFICES ASSUME STypeOK, OutcomesInv PROVE WaitReturns
      OBVIOUS
    <2>1. AccountOK /\ GapLimit \in Nat /\ MaxWorkers \in Nat /\ BufSize \in Nat
      BY AccountType, GapLimitFacts, LimitsAssumption DEF OutcomesInv, BufSize
    <2>2. QED
      BY <2>1 DEF WaitReturns, OutcomesInv, AccountOK, Owed
  <1>2. QED
    BY <1>1, OutcomesInvariance, PTL

-----------------------------------------------------------------------------
(* The end of the lifecycle *)

\* NothingOutlivesLock needs the order of the shutdown: the context is cancelled
\* before the wait, and a cancelled context starts no CheckOnce.
ShutdownInv ==
  /\ phase \in {"wait", "final", "released"} => cancelled
  /\ NothingOutlivesLock

LEMMA ShutdownStep ==
  ASSUME STypeOK, ShutdownInv, [SNext]_svars
  PROVE  ShutdownInv'
  <1> USE DEF ledger, agents, budgets, control, watchdog
  <1>0. /\ phase \in {"wait", "final", "released"} => cancelled
        /\ phase \in {"final", "released"} => monitors = {} /\ wdStep = "idle"
        /\ phase = "released" => outcomes = <<>>
        /\ outcomes \in Seq(TaskOutcome)
    BY DEF ShutdownInv, NothingOutlivesLock, STypeOK, TypeOK
  <1>1. CASE UNCHANGED <<phase, cancelled, monitors, outcomes, wdStep>>
    BY <1>1 DEF ShutdownInv, NothingOutlivesLock
  <1>2. CASE Unsupervised /\ (StartTick \/ DrainDone \/ CheckAbort \/ CheckTermination)
    <2>1. /\ phase' \notin {"final", "released"}
          /\ phase' = "wait" => cancelled'
      BY <1>2, Zenon DEF StartTick, DrainDone, CheckAbort, CheckTermination, Goto, Return
    <2>2. QED
      BY <2>1 DEF ShutdownInv, NothingOutlivesLock
  <1>3. CASE Unsupervised /\ (CreateEscalation \/ Assign \/ AssignFails \/ DispatchDone
                                \/ Spawn \/ SpawnFails)
    <2>1. phase' \in {"dispatch", "spawn", "check"}
      BY <1>3 DEF CreateEscalation, Assign, AssignFails, DispatchDone, Spawn, SpawnFails
    <2>2. QED
      BY <2>1 DEF ShutdownInv, NothingOutlivesLock
  <1>4. CASE Unsupervised /\ DrainOne
    <2>1. /\ phase' = phase /\ cancelled' = cancelled /\ monitors' = monitors /\ wdStep' = wdStep
          /\ phase \in {"drain", "final"}
      BY <1>4 DEF DrainOne, Unsupervised
    <2>2. QED
      BY <1>0, <2>1 DEF ShutdownInv, NothingOutlivesLock
  <1>5. CASE Unsupervised /\ WaitDone /\ wdStep = "idle"
    BY <1>0, <1>5 DEF WaitDone, Goto, Unsupervised, ShutdownInv, NothingOutlivesLock
  <1>6. CASE Unsupervised /\ Cleanup
    BY <1>0, <1>6 DEF Cleanup, Goto, Unsupervised, ShutdownInv, NothingOutlivesLock
  <1>7. CASE OrphanCk \/ FailStuck \/ OrphansDone
    <2>1. phase' \in {"orphans", "abort"}
      BY <1>7 DEF OrphanCk, FailStuck, OrphansDone, Goto
    <2>2. QED
      BY <2>1 DEF ShutdownInv, NothingOutlivesLock
  <1>8. CASE WatchdogStep
    <2>1. /\ UNCHANGED <<phase, cancelled, monitors, outcomes>>
          /\ wdStep = "idle" => ~cancelled
      BY <1>8 DEF WatchdogStep, WdList, WdSkip, WdDead, WdStuck, WdRestart, WdRecord, WdDone, vars
    <2>2. phase \notin {"final", "released"}
      BY <1>0, <2>1
    <2>3. QED
      BY <1>0, <2>1, <2>2 DEF ShutdownInv, NothingOutlivesLock
  <1>9. ASSUME NEW m \in monitors, SMonitorStep(m) PROVE ShutdownInv'
    <2>1. UNCHANGED <<phase, cancelled>>
      BY <1>9 DEF SMonitorStep, MonitorReports, MonitorExit, MonitorKill, MonitorSend
    <2>2. phase \notin {"final", "released"}
      BY <1>0
    <2>3. QED
      BY <1>0, <2>1, <2>2 DEF ShutdownInv, NothingOutlivesLock
  <1>10. CASE Environment
    <2>1. UNCHANGED <<phase, monitors, outcomes, wdStep>>
      BY <1>10 DEF Environment, SAgentStep, AgentStep, AgentExit, AgentKilled, Signal, Ended,
                   ResolveEscalation, Unsupervised, vars
    <2>2. cancelled' = cancelled \/ cancelled' = TRUE
      BY <1>10 DEF Environment, SAgentStep, AgentStep, AgentExit, AgentKilled, Signal, Ended,
                   ResolveEscalation, vars
    <2>3. QED
      BY <1>0, <2>1, <2>2 DEF ShutdownInv, NothingOutlivesLock
  <1>11. CASE UNCHANGED svars
    BY <1>1, <1>11 DEF svars, vars
  <1>12. QED
    BY <1>2, <1>3, <1>4, <1>5, <1>6, <1>7, <1>8, <1>9, <1>10, <1>11
    DEF SNext, SDispatch, DispatcherStep, SpawnStep, DrainStep, WaitStep, OtherStep

\* When the lock is released, and from the final drain on, no runAgent goroutine
\* and no CheckOnce is left, and in the end no outcome either: whatever takes the
\* lock next is alone with the ledger.
THEOREM LockReleasedLast == SSpec => []NothingOutlivesLock
  <1>1. SInit => ShutdownInv
    <2> SUFFICES ASSUME SInit PROVE ShutdownInv
      OBVIOUS
    <2>1. phase = "sleep"
      BY Zenon DEF SInit, Init
    <2>2. QED
      BY <2>1 DEF ShutdownInv, NothingOutlivesLock
  <1>2. SessionInv /\ ShutdownInv /\ [SNext]_svars => ShutdownInv'
    BY ShutdownStep DEF SessionInv
  <1>3. ShutdownInv => NothingOutlivesLock
    BY DEF ShutdownInv
  <1>4. QED
    BY <1>1, <1>2, <1>3, SInitInv, SNextInv, PTL DEF SSpec
=============================================================================
