----------------------------- MODULE Telemetry -----------------------------
(***************************************************************************)
(* The metrics side channel: EventLog.Emit writes one audit record under   *)
(* its mutex and, after unlocking, hands the event to Telemetry.Record.    *)
(* Two goroutines emit while a lifecycle runs, the dispatch loop and the   *)
(* watchdog; the engine emits before and after them.  The module keeps the *)
(* ledger statuses the gauges are meant to report next to the gauges, so   *)
(* that what a dashboard shows can be compared with the truth, through     *)
(* retries, handoffs, orphaned tasks whose agent answers late, restarts    *)
(* that write a task back from an old copy, failed log and store writes,   *)
(* interruptions and a resume in a new process.  A write to the store may  *)
(* fail at any time.                                                       *)
(***************************************************************************)
EXTENDS Integers, Sequences, FiniteSets, SequencesExt

CONSTANTS Tasks,         \* the tasks of the branch
          Tolerance,     \* GapTolerance
          MaxRetries,    \* retries of one task
          MaxResumes,    \* bound: how often the process is started again
          MaxLogFaults,     \* bound: log writes that fail
          MaxHandoffs    \* bound: sessions restarted, by watchdog or loop

ASSUME TelemetryAssumption ==
    /\ IsFiniteSet(Tasks)
    /\ {Tolerance, MaxRetries, MaxResumes, MaxLogFaults, MaxHandoffs} \subseteq Nat

VARIABLES
    status,      \* the ledger's status of each task
    monitored,   \* tasks with a live runAgent goroutine in this process
    retries,    \* RetryState of each task
    handoffs,    \* handoffs recorded so far
    sighted,     \* the task whose copy the watchdog holds, if any
    unreported,  \* history: a task became, or stayed, in progress by a write
                 \* that no event of this process tells of
    gaps,        \* GapTracker.Count
    history,     \* tasks with a terminal event in the log
    engine,      \* where Engine.Run / Resume is
    lock,        \* TRUE: this process holds the lifecycle lock
    out,         \* events a goroutine has yet to emit, in order
    written,     \* the event a goroutine wrote and has yet to record, if any
    spans,       \* taskSpans
    lifecycle,   \* lifecycleSpan # nil
    gauge,       \* the four up-down counters
    terminals,   \* wonka_task_terminal_total, over all outcomes
    resumes, logFaults

telVars == << status, monitored, retries, handoffs, gaps, history,
           engine, lock, out, written, spans, lifecycle, gauge, terminals,
           sighted, unreported, resumes, logFaults >>
truth == << status, monitored, retries, handoffs, gaps, sighted, unreported >>
meters == << spans, lifecycle, gauge, terminals >>

Threads == {"loop", "watchdog"}
Terminal == {"completed", "failed", "blocked"}
Ev(k, t) == << k, t >>
NoEvent == << >>
Zero == [inProgress |-> 0, gap |-> 0, lockHeld |-> 0, workers |-> 0]

Busy(th) == out[th] # << >> \/ written[th] # NoEvent

TelInit ==
    /\ status = [t \in Tasks |-> "open"]
    /\ monitored = {}
    /\ retries = [t \in Tasks |-> 0]
    /\ handoffs = 0
    /\ gaps = 0
    /\ history = {}
    /\ engine = "starting"
    /\ lock = TRUE
    /\ out = [th \in Threads |-> << >>]
    /\ written = [th \in Threads |-> NoEvent]
    /\ spans = {}
    /\ lifecycle = FALSE
    /\ gauge = Zero
    /\ terminals = 0
    /\ sighted = {}
    /\ unreported = FALSE
    /\ resumes = 0
    /\ logFaults = 0

----------------------------------------------------------------------------
(* Telemetry.Record, by kind of event.                                     *)

OnTaskDispatched(t) ==
    /\ spans' = spans \cup {t}
    /\ gauge' = IF t \in spans THEN gauge
                ELSE [gauge EXCEPT !.inProgress = @ + 1]

OnTaskTerminal(t) ==
    /\ spans' = spans \ {t}
    /\ gauge' = IF t \in spans THEN [gauge EXCEPT !.inProgress = @ - 1]
                ELSE gauge

EndsSpanTerminalOnly(kind) == kind \in Terminal
EndsSpan(kind) == kind \in Terminal \cup {"retried"}

GapDelta(kind) ==
    CASE kind = "gap" -> 1 [] kind = "resolved" -> -1 [] OTHER -> 0

Record(e) ==
    LET kind == e[1]
        t    == e[2]
    IN  /\ UNCHANGED lifecycle
        /\ terminals' = terminals + (IF kind \in Terminal THEN 1 ELSE 0)
        /\ CASE kind = "dispatched" -> OnTaskDispatched(t)
             [] EndsSpan(kind)      -> OnTaskTerminal(t)
             [] OTHER               -> /\ gauge' = [gauge EXCEPT !.gap = @ + GapDelta(kind)]
                                       /\ UNCHANGED spans

(* EventLog.Emit: the write, under the log's mutex, may fail; then nothing *)
(* is recorded and the caller only warns.                                  *)
EmitWrite(th) ==
    /\ out[th] # << >> /\ written[th] = NoEvent
    /\ out' = [out EXCEPT ![th] = Tail(@)]
    /\ \/ /\ written' = [written EXCEPT ![th] = Head(out[th])]
          /\ history' = IF Head(out[th])[1] \in Terminal
                        THEN history \cup {Head(out[th])[2]} ELSE history
          /\ UNCHANGED logFaults
       \/ /\ logFaults < MaxLogFaults
          /\ logFaults' = logFaults + 1
          /\ UNCHANGED << written, history >>
    /\ UNCHANGED << truth, meters, engine, lock, resumes >>

(* The telemetry call, after the mutex is released.                        *)
EmitRecord(th) ==
    /\ written[th] # NoEvent
    /\ Record(written[th])
    /\ written' = [written EXCEPT ![th] = NoEvent]
    /\ UNCHANGED << truth, history, engine, lock, out, resumes, logFaults >>

----------------------------------------------------------------------------
(* The dispatch loop's handlers: the ledger write, then the events.        *)

LoopFree == engine \in {"looping", "draining"} /\ ~Busy("loop")

Emits(th, events) == out' = [out EXCEPT ![th] = events]

Dispatch(t) ==
    /\ LoopFree /\ engine = "looping"
    /\ status[t] = "open"
    /\ status' = [status EXCEPT ![t] = "running"]
    /\ monitored' = monitored \cup {t}
    /\ Emits("loop", << Ev("dispatched", t) >>)
    /\ UNCHANGED << retries, handoffs, gaps, sighted, unreported, meters, engine,
                    lock, written, history, resumes, logFaults >>

(* failTaskAndRelease: a spawn that fails, or a worker that cannot be read *)
(* after it, before any task_dispatched.  When the task cannot be written  *)
(* either it keeps the status the dispatch had given it so far.            *)
SpawnFails(t) ==
    /\ LoopFree /\ engine = "looping"
    /\ status[t] = "open"
    /\ \E s \in {"failed", "assigned", "running"} :
         /\ status' = [status EXCEPT ![t] = s]
         /\ unreported' = (unreported \/ s = "running")
    /\ Emits("loop", << Ev("failed", t) >>)
    /\ UNCHANGED << monitored, retries, handoffs, gaps, sighted, meters, engine,
                    lock, written, history, resumes, logFaults >>

(* terminateAndRelease followed, for a failure, by handleTerminalFailure   *)
(* of a task that is not critical: the gap, and from the tolerance on      *)
(* abortCleanup, which blocks every open task it can write without an      *)
(* event of its own, and the end of the loop.                              *)
Terminate(t, s) ==
    LET gap   == s # "completed"
        abort == gap /\ gaps + 1 >= Tolerance
        open  == IF abort THEN {u \in Tasks \ {t} : status[u] = "open"} ELSE {}
    IN  /\ \E aborted \in SUBSET open :
             status' = [u \in Tasks |-> IF u = t THEN s
                                       ELSE IF u \in aborted THEN "blocked"
                                       ELSE status[u]]
        /\ gaps' = IF gap THEN gaps + 1 ELSE gaps
        /\ engine' = IF abort THEN "draining" ELSE engine
        /\ Emits("loop", << Ev(s, t) >>
                   \o (IF gap THEN << Ev("gap", t) >> ELSE << >>)
                   \o (IF abort THEN << Ev("escalation", t) >> ELSE << >>))

(* handleSuccess, handleBlocked, and handleFailure without budget or whose *)
(* retry cannot be written.  The task may have been failed as an orphan    *)
(* while its agent still ran.                                              *)
Finish(t, s) ==
    /\ LoopFree /\ t \in monitored
    /\ monitored' = monitored \ {t}
    /\ Terminate(t, s)
    /\ UNCHANGED << retries, handoffs, sighted, unreported, meters, lock, written,
                    history, resumes, logFaults >>

(* terminateAndRelease cannot write the task: no release, no event, no     *)
(* gap.  The goroutine that sent the outcome has ended all the same.       *)
OutcomeLost(t) ==
    /\ LoopFree /\ t \in monitored
    /\ monitored' = monitored \ {t}
    /\ UNCHANGED << status, retries, handoffs, gaps, sighted, unreported, meters,
                    engine, lock, out, written, history, resumes, logFaults >>

Retry(t) ==
    /\ LoopFree /\ t \in monitored /\ retries[t] < MaxRetries
    /\ monitored' = monitored \ {t}
    /\ status' = [status EXCEPT ![t] = "open"]
    /\ retries' = [retries EXCEPT ![t] = @ + 1]
    /\ Emits("loop", << Ev("retried", t) >>)
    /\ UNCHANGED << handoffs, gaps, sighted, unreported, meters, engine, lock,
                    written, history, resumes, logFaults >>

(* RestartSession's last write: in progress, from the caller's copy of the *)
(* task, whatever the ledger says of it by now.                            *)
RestartSession(t) ==
    /\ status' = [status EXCEPT ![t] = "running"]
    /\ unreported' = (unreported \/ status[t] # "running")

(* handleHandoff within the budget.  A restart that fails, and a handoff   *)
(* beyond the budget, take handleFailure's way: Retry, Finish, OutcomeLost.*)
HandoffOutcome(t) ==
    /\ LoopFree /\ t \in monitored /\ handoffs < MaxHandoffs
    /\ handoffs' = handoffs + 1
    /\ monitored' = monitored \ {t}
    /\ RestartSession(t)
    /\ Emits("loop", << Ev("handoff", t) >>)
    /\ UNCHANGED << retries, gaps, sighted, meters, engine, lock, written, history,
                    resumes, logFaults >>

(* failOrphanedTask: the goroutine of the agent is left running.           *)
FailOrphaned(t) ==
    /\ LoopFree /\ engine = "looping"
    /\ status[t] \notin Terminal
    /\ Terminate(t, "failed")
    /\ UNCHANGED << monitored, retries, handoffs, sighted, unreported, meters, lock,
                    written, history, resumes, logFaults >>

(* Watchdog.CheckOnce reads the task of a dead session and, within the     *)
(* budget, announces the restart; the rounds of one tick go on after the   *)
(* loop has ended.                                                         *)
WatchdogFinds(t) ==
    /\ engine \in {"looping", "draining"} /\ ~Busy("watchdog") /\ sighted = {}
    /\ status[t] \notin Terminal /\ handoffs < MaxHandoffs
    /\ handoffs' = handoffs + 1
    /\ sighted' = {t}
    /\ Emits("watchdog", << Ev("handoff", t) >>)
    /\ UNCHANGED << status, monitored, retries, gaps, unreported, meters, engine,
                    lock, written, history, resumes, logFaults >>

(* Then it restarts the session with the copy it read; a restart that      *)
(* fails writes nothing.                                                   *)
WatchdogRestarts(t) ==
    /\ t \in sighted /\ ~Busy("watchdog")
    /\ sighted' = {}
    /\ RestartSession(t) \/ UNCHANGED << status, unreported >>
    /\ UNCHANGED << monitored, retries, handoffs, gaps, meters, engine, lock, out,
                    written, history, resumes, logFaults >>

----------------------------------------------------------------------------
(* The engine around them.                                                 *)

StartLifecycle ==
    /\ lifecycle' = TRUE
    /\ gauge' = [gauge EXCEPT !.lockHeld = @ + 1]
    /\ UNCHANGED << spans, terminals >>

EndLifecycle ==
    /\ lifecycle' = FALSE
    /\ gauge' = IF lifecycle THEN [gauge EXCEPT !.lockHeld = @ - 1] ELSE gauge
    /\ UNCHANGED << spans, terminals >>

(* emitLifecycleStarted: the span opens only once the audit record is on   *)
(* disk; otherwise Cleanup releases the lock and the engine returns.       *)
EmitLifecycleStarted ==
    /\ engine = "starting" /\ ~Busy("loop")
    /\ \/ /\ engine' = "looping"
          /\ StartLifecycle
          /\ UNCHANGED << logFaults, lock >>
       \/ /\ logFaults < MaxLogFaults
          /\ logFaults' = logFaults + 1
          /\ engine' = "down" /\ lock' = FALSE
          /\ UNCHANGED meters
    /\ UNCHANGED << truth, history, out, written, resumes >>

(* The dispatch loop ends, or a signal ends it; the remaining goroutines   *)
(* are waited for and their outcomes drained.                              *)
LoopEnds ==
    /\ engine = "looping" /\ ~Busy("loop")
    /\ engine' = "draining"
    /\ UNCHANGED << truth, history, meters, lock, out, written, resumes, logFaults >>

Drained == monitored = {} /\ sighted = {} /\ \A th \in Threads : ~Busy(th)

(* A completed, aborted or failed lifecycle: the anchor event, whose write *)
(* failure is only a warning, then EndLifecycle, then Cleanup.             *)
EmitLifecycleCompleted ==
    /\ engine = "draining" /\ Drained
    /\ engine' = "ended"
    /\ EndLifecycle
    /\ UNCHANGED << truth, history, lock, out, written, resumes, logFaults >>

(* The signal path emits nothing.                                          *)
SignalPath ==
    /\ engine = "draining" /\ Drained
    /\ engine' = "ended"
    /\ UNCHANGED << truth, history, meters, lock, out, written, resumes, logFaults >>

Cleanup ==
    /\ engine = "ended" /\ lock
    /\ lock' = FALSE
    /\ UNCHANGED << truth, history, meters, engine, out, written, resumes, logFaults >>

ReturnNoBackstop ==
    /\ engine = "ended" /\ ~lock
    /\ engine' = "returned"
    /\ UNCHANGED << truth, history, meters, lock, out, written, resumes, logFaults >>

(* The deferred EndLifecycle of Run and Resume.                            *)
Return ==
    /\ engine = "ended" /\ ~lock
    /\ engine' = "returned"
    /\ EndLifecycle
    /\ UNCHANGED << truth, history, lock, out, written, resumes, logFaults >>

(* Another process resumes the lifecycle with meters at zero: Reconcile    *)
(* resets what was running, the gap counter is recovered from the log, and *)
(* every open task with a terminal event in the log counts as re-opened by *)
(* a human and is reported as resolved.                                    *)
Resume(reopened) ==
    /\ engine \in {"returned", "down"} /\ resumes < MaxResumes
    /\ resumes' = resumes + 1
    /\ \A t \in reopened : status[t] \in {"failed", "blocked"}
    /\ status' = [t \in Tasks |-> IF status[t] \notin Terminal \/ t \in reopened
                                  THEN "open" ELSE status[t]]
    /\ LET resolved == {t \in history : status'[t] = "open"}
       IN  /\ retries' = [t \in Tasks |-> IF t \in resolved THEN 0 ELSE retries[t]]
           /\ \E events \in SetToSeqs({Ev("resolved", t) : t \in resolved}) :
                Emits("loop", events)
    /\ monitored' = {}
    /\ handoffs' = 0
    /\ spans' = {} /\ lifecycle' = FALSE /\ gauge' = Zero /\ terminals' = 0
    /\ sighted' = {} /\ unreported' = FALSE
    /\ engine' = "starting" /\ lock' = TRUE
    /\ UNCHANGED << gaps, history, written, logFaults >>

Stopped ==
    /\ engine \in {"returned", "down"} /\ resumes = MaxResumes
    /\ UNCHANGED telVars

Handler ==
    \E t \in Tasks :
        \/ Dispatch(t)
        \/ SpawnFails(t)
        \/ \E s \in Terminal : Finish(t, s)
        \/ OutcomeLost(t)
        \/ Retry(t)
        \/ HandoffOutcome(t)
        \/ FailOrphaned(t)

Shutdown ==
    \/ EmitLifecycleCompleted
    \/ SignalPath
    \/ Cleanup
    \/ Return

TelNext ==
    \/ \E th \in Threads : EmitWrite(th) \/ EmitRecord(th)
    \/ Handler
    \/ \E t \in Tasks : WatchdogFinds(t) \/ WatchdogRestarts(t)
    \/ EmitLifecycleStarted
    \/ LoopEnds
    \/ Shutdown
    \/ \E reopened \in SUBSET Tasks : Resume(reopened)
    \/ Stopped

TelSpec == TelInit /\ [][TelNext]_telVars

----------------------------------------------------------------------------

TelTypeOK ==
    /\ status \in [Tasks -> {"open", "assigned", "running"} \cup Terminal]
    /\ {monitored, history, spans, sighted} \subseteq SUBSET Tasks
    /\ retries \in [Tasks -> 0..MaxRetries]
    /\ engine \in {"starting", "looping", "draining", "ended", "returned", "down"}
    /\ {lock, lifecycle, unreported} \subseteq BOOLEAN
    /\ gauge.lockHeld \in 0..1 /\ gauge.workers = 0
    /\ {gaps, terminals} \subseteq Nat

(* wonka_tasks_in_progress reports the ledger (OBS-04): while no log write *)
(* has failed and the ledger shows in progress no task that this process   *)
(* did not report (a task failed or re-opened and then written back by     *)
(* RestartSession from an old copy, or one failTaskAndRelease could not    *)
(* write after its spawn), a loop between two handlers has a span open for *)
(* exactly the tasks in progress, and the gauge counts them.               *)
InProgressExact ==
    logFaults = 0 /\ ~unreported /\ LoopFree =>
        /\ spans = {t \in Tasks : status[t] = "running"}
        /\ gauge.inProgress = Cardinality(spans)

(* An engine that has returned leaves no lifecycle span and no lock gauge  *)
(* behind, signal path included; while the loop runs the gauge shows 1.    *)
LockGaugeHonest ==
    /\ engine \in {"returned", "down"} => ~lifecycle /\ gauge.lockHeld = 0
    /\ engine \in {"looping", "draining"} => gauge.lockHeld = 1 /\ lock

=============================================================================
