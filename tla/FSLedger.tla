------------------------------ MODULE FSLedger ------------------------------
(***************************************************************************)
(* FSStore of orch/ledger_fs.go: one JSON file per task and worker, one    *)
(* file of dependencies, writers serialised by a mutex inside a process    *)
(* and by an flock between processes, readers by nothing.  A step is one   *)
(* lock operation or one file read or written (atomicWriteJSON renames, so *)
(* a file is replaced at once or not at all).                              *)
(*                                                                         *)
(* Clients are the goroutines of the orchestrator and other wonka          *)
(* processes.  A process may be killed between any two steps.              *)
(***************************************************************************)
EXTENDS Naturals

CONSTANTS
  Tasks, Workers, InBranch, NoWorker, NoTask,
  Clients, Process,    \* the process each client runs in
  NoClient, NoProcess,
  Requests,            \* the operations clients call
  MaxFaults            \* bound on kills and failing writes

VARIABLES
  task, worker, deps,  \* the files
  mu,                  \* FSStore.mu of each process
  flock,               \* the process that holds ledger.lock
  pc, call,            \* each client's operation, and how far it is
  orig,                \* Assign: origTask
  loaded,              \* AddDep: deps as loadDeps returned it
  left, seen,          \* ReadyTasks: files still to read, tasks read
  ready,               \* ReadyTasks: the result
  faults

files == <<task, worker, deps>>
locks == <<mu, flock>>
locals == <<orig, loaded, left, seen, ready>>
vars == <<files, locks, pc, call, locals, faults>>

Processes == {Process[c] : c \in Clients}

\* The abstract store, in which an Assign that has written the task and not yet
\* the worker has not happened yet.
AssignHalfDone(t) ==
  \E c \in Clients : /\ pc[c] \in {"worker", "rollback"}
                     /\ call[c].t = t

ToDo == [c \in Clients |->
           IF pc[c] \in {"mu", "flock", "inspect", "write", "worker", "rollback"}
           THEN call[c] ELSE [op |-> "none"]]

AbsTask == [t \in Tasks |->
              IF AssignHalfDone(t) THEN [status |-> "open", assignee |-> NoWorker]
              ELSE task[t]]

Failed == faults > 0

Abstract == INSTANCE Ledger WITH task <- AbsTask, todo <- ToDo, failed <- Failed

\* The contents of the files.
L == INSTANCE Ledger WITH todo <- ToDo, failed <- Failed

Request == L!Request \cup [op: {"ReadyTasks"}]
NoCall == L!NoCall

ASSUME FSAssumption ==
  /\ InBranch \subseteq Tasks
  /\ NoWorker \notin Workers
  /\ NoTask \notin Tasks
  /\ NoClient \notin Clients
  /\ Process \in [Clients -> Processes]
  /\ NoProcess \notin Processes
  /\ Requests \subseteq Request
  /\ MaxFaults \in Nat

Writing == {"inspect", "write", "worker", "rollback", "unlock"}

TypeOK ==
  /\ task \in [Tasks -> L!TaskRec \cup {L!AbsentTask}]
  /\ worker \in [Workers -> L!WorkerRec \cup {L!AbsentWorker}]
  /\ deps \in [Tasks -> SUBSET Tasks]
  /\ mu \in [Processes -> Clients \cup {NoClient}]
  /\ flock \in Processes \cup {NoProcess}
  /\ pc \in [Clients -> {"idle", "mu", "flock", "scan", "return"} \cup Writing]
  /\ call \in [Clients -> Requests \cup {NoCall}]
  /\ orig \in [Clients -> L!TaskRec \cup {L!AbsentTask}]
  /\ loaded \in [Clients -> [Tasks -> SUBSET Tasks]]
  /\ left \in [Clients -> SUBSET Tasks]
  /\ seen \in [Clients -> [Tasks -> L!TaskRec \cup {L!AbsentTask}]]
  /\ ready \in [Clients -> SUBSET Tasks]
  /\ faults \in 0..MaxFaults

\* NewFSStore on an empty directory.  It writes an empty deps.json when there is
\* none, before any lock: every process here has opened the store already.
Init ==
  /\ task = [t \in Tasks |-> L!AbsentTask]
  /\ worker = [w \in Workers |-> L!AbsentWorker]
  /\ deps = [t \in Tasks |-> {}]
  /\ mu = [p \in Processes |-> NoClient]
  /\ flock = NoProcess
  /\ pc = [c \in Clients |-> "idle"]
  /\ call = [c \in Clients |-> NoCall]
  /\ orig = [c \in Clients |-> L!AbsentTask]
  /\ loaded = [c \in Clients |-> [t \in Tasks |-> {}]]
  /\ left = [c \in Clients |-> {}]
  /\ seen = [c \in Clients |-> [t \in Tasks |-> L!AbsentTask]]
  /\ ready = [c \in Clients |-> {}]
  /\ faults = 0

Goto(c, where) == pc' = [pc EXCEPT ![c] = where]

-----------------------------------------------------------------------------
(* Mutations *)

\* A client calls an operation; ReadyTasks lists the task files at once.
Call(c) ==
  /\ pc[c] = "idle"
  /\ \E r \in Requests :
       /\ call' = [call EXCEPT ![c] = r]
       /\ \/ /\ r.op = "ReadyTasks"
             /\ left' = [left EXCEPT ![c] = {t \in Tasks : task[t] # L!AbsentTask}]
             /\ Goto(c, "scan")
          \/ /\ r.op # "ReadyTasks"
             /\ UNCHANGED left
             /\ Goto(c, "mu")
  /\ UNCHANGED <<files, locks, orig, loaded, seen, ready, faults>>

\* s.mu.Lock
LockMu(c) ==
  /\ pc[c] = "mu"
  /\ mu[Process[c]] = NoClient
  /\ mu' = [mu EXCEPT ![Process[c]] = c]
  /\ Goto(c, "flock")
  /\ UNCHANGED <<files, flock, call, locals, faults>>

\* s.lock.Lock, which returns at once when this process already holds the lock.
LockFile(c) ==
  /\ pc[c] = "flock"
  /\ flock \in {NoProcess, Process[c]}
  /\ flock' = Process[c]
  /\ Goto(c, "inspect")
  /\ UNCHANGED <<files, mu, call, locals, faults>>

\* What the operation checks, on the files as they are now.
Accepts(c) == L!Accepts(call[c])

\* The reads of an operation.
Inspect(c) ==
  /\ pc[c] = "inspect"
  /\ orig' = IF call[c].op = "Assign" THEN [orig EXCEPT ![c] = task[call[c].t]] ELSE orig
  /\ loaded' = IF call[c].op = "AddDep" THEN [loaded EXCEPT ![c] = deps] ELSE loaded
  /\ Goto(c, IF Accepts(c) THEN "write" ELSE "unlock")
  /\ UNCHANGED <<files, locks, call, left, seen, ready, faults>>

\* The write of an operation; the first one of Assign.
Write(c) ==
  /\ pc[c] = "write"
  /\ LET r == call[c] IN
     \/ /\ r.op \in {"CreateTask", "UpdateTask"}
        /\ task' = [task EXCEPT ![r.t] = r.r]
        /\ Goto(c, "unlock")
        /\ UNCHANGED <<worker, deps>>
     \/ /\ r.op \in {"CreateWorker", "UpdateWorker"}
        /\ worker' = [worker EXCEPT ![r.w] = r.r]
        /\ Goto(c, "unlock")
        /\ UNCHANGED <<task, deps>>
     \/ /\ r.op = "AddDep"
        /\ deps' = [loaded[c] EXCEPT ![r.t] = @ \cup {r.d}]
        /\ Goto(c, "unlock")
        /\ UNCHANGED <<task, worker>>
     \/ /\ r.op = "Assign"
        /\ task' = [task EXCEPT ![r.t] = L!Assigned(r.w)]
        /\ Goto(c, "worker")
        /\ UNCHANGED <<worker, deps>>
  /\ UNCHANGED <<locks, call, locals, faults>>

\* Assign: the worker file.
WriteWorker(c) ==
  /\ pc[c] = "worker"
  /\ worker' = [worker EXCEPT ![call[c].w] = L!Active(call[c].t)]
  /\ Goto(c, "unlock")
  /\ UNCHANGED <<task, deps, locks, call, locals, faults>>

RollbackStatusOnly(c) ==
  /\ pc[c] = "rollback"
  /\ task' = [task EXCEPT ![call[c].t].status = orig[c].status]
  /\ Goto(c, "unlock")
  /\ UNCHANGED <<worker, deps, locks, call, locals, faults>>

\* Assign: the task is written back after the worker file could not be.
Rollback(c) ==
  /\ pc[c] = "rollback"
  /\ task' = [task EXCEPT ![call[c].t] = orig[c]]
  /\ Goto(c, "unlock")
  /\ UNCHANGED <<worker, deps, locks, call, locals, faults>>

\* atomicWriteJSON returns an error and leaves the file as it was.
WriteFails(c) ==
  /\ pc[c] \in {"write", "worker", "rollback"}
  /\ faults < MaxFaults
  /\ faults' = faults + 1
  /\ Goto(c, IF pc[c] = "worker" THEN "rollback" ELSE "unlock")
  /\ UNCHANGED <<files, locks, call, locals>>

UnlockFileOnly(c) ==
  /\ pc[c] = "unlock"
  /\ flock' = NoProcess
  /\ call' = [call EXCEPT ![c] = NoCall]
  /\ orig' = [orig EXCEPT ![c] = L!AbsentTask]
  /\ loaded' = [loaded EXCEPT ![c] = [t \in Tasks |-> {}]]
  /\ Goto(c, "idle")
  /\ UNCHANGED <<files, mu, left, seen, ready, faults>>

\* The deferred unlocks.
Unlock(c) ==
  /\ pc[c] = "unlock"
  /\ flock' = NoProcess
  /\ mu' = [mu EXCEPT ![Process[c]] = NoClient]
  /\ call' = [call EXCEPT ![c] = NoCall]
  /\ orig' = [orig EXCEPT ![c] = L!AbsentTask]
  /\ loaded' = [loaded EXCEPT ![c] = [t \in Tasks |-> {}]]
  /\ Goto(c, "idle")
  /\ UNCHANGED <<files, left, seen, ready, faults>>

-----------------------------------------------------------------------------
(* ReadyTasks *)

\* allTasks reads the next file.
ReadFile(c) ==
  /\ pc[c] = "scan"
  /\ \E t \in left[c] :
       /\ seen' = [seen EXCEPT ![c][t] = task[t]]
       /\ left' = [left EXCEPT ![c] = @ \ {t}]
  /\ UNCHANGED <<files, locks, pc, call, orig, loaded, ready, faults>>

LoadDepsIgnoresMissing(c) ==
  /\ pc[c] = "scan"
  /\ left[c] = {}
  /\ ready' = [ready EXCEPT ![c] =
       {t \in InBranch : /\ seen[c][t] = L!OpenTask
                         /\ \A d \in deps[t] : seen[c][d].status \in L!Terminal \cup {"absent"}}]
  /\ Goto(c, "return")
  /\ UNCHANGED <<files, locks, call, orig, loaded, left, seen, faults>>

\* loadDeps, then the filter.
LoadDeps(c) ==
  /\ pc[c] = "scan"
  /\ left[c] = {}
  /\ ready' = [ready EXCEPT ![c] =
       {t \in InBranch : /\ seen[c][t] = L!OpenTask
                         /\ \A d \in deps[t] : seen[c][d].status \in L!Terminal}]
  /\ Goto(c, "return")
  /\ UNCHANGED <<files, locks, call, orig, loaded, left, seen, faults>>

Return(c) ==
  /\ pc[c] = "return"
  /\ call' = [call EXCEPT ![c] = NoCall]
  /\ seen' = [seen EXCEPT ![c] = [t \in Tasks |-> L!AbsentTask]]
  /\ ready' = [ready EXCEPT ![c] = {}]
  /\ Goto(c, "idle")
  /\ UNCHANGED <<files, locks, orig, loaded, left, faults>>

\* A process is killed: its mutex is gone and the kernel drops its flock.
Kill(p) ==
  /\ faults < MaxFaults
  /\ faults' = faults + 1
  /\ mu' = [mu EXCEPT ![p] = NoClient]
  /\ flock' = IF flock = p THEN NoProcess ELSE flock
  /\ pc' = [c \in Clients |-> IF Process[c] = p THEN "idle" ELSE pc[c]]
  /\ call' = [c \in Clients |-> IF Process[c] = p THEN NoCall ELSE call[c]]
  /\ left' = [c \in Clients |-> IF Process[c] = p THEN {} ELSE left[c]]
  /\ seen' = [c \in Clients |-> IF Process[c] = p THEN [t \in Tasks |-> L!AbsentTask] ELSE seen[c]]
  /\ ready' = [c \in Clients |-> IF Process[c] = p THEN {} ELSE ready[c]]
  /\ orig' = [c \in Clients |-> IF Process[c] = p THEN L!AbsentTask ELSE orig[c]]
  /\ loaded' = [c \in Clients |-> IF Process[c] = p THEN [t \in Tasks |-> {}] ELSE loaded[c]]
  /\ UNCHANGED files

Step(c) ==
  \/ LockMu(c) \/ LockFile(c) \/ Inspect(c) \/ Write(c) \/ WriteWorker(c)
  \/ Rollback(c) \/ Unlock(c) \/ ReadFile(c) \/ LoadDeps(c) \/ Return(c)

Next ==
  \/ \E c \in Clients : Call(c) \/ Step(c) \/ WriteFails(c)
  \/ \E p \in Processes : Kill(p)

Spec == Init /\ [][Next]_vars

\* Goroutines are scheduled; sync.Mutex and flock(2) do not starve a waiter.  The
\* two lock steps are the only ones that others can disable.
Fairness == \A c \in Clients : SF_vars(Step(c))

-----------------------------------------------------------------------------
(* Properties *)

\* LDG-08..LDG-12: FSStore is linearizable.  Whatever the clients interleave, every
\* call takes effect once, at one moment, on the state it has checked, or is
\* refused with reason; only a kill or a second failing write inside Assign
\* leaves a task assigned to a worker that is not active.
ImplementsLedger == Abstract!Spec

\* Every call returns.
CallsReturn == \A c \in Clients : (pc[c] # "idle") ~> (pc[c] = "idle")

-----------------------------------------------------------------------------
(* What ReadyTasks returns *)

\* A history variable, on which nothing in Spec depends: the dependencies that a
\* task had when ReadyTasks read its file.
VARIABLE wired

hvars == <<vars, wired>>

Observe ==
  wired' = [c \in Clients |-> [t \in Tasks |->
    CASE pc'[c] = "idle" -> {}
      [] pc'[c] = "scan" /\ t \in left[c] \ left'[c] -> deps[t]
      [] OTHER -> wired[c][t]]]

HInit == Init /\ wired = [c \in Clients |-> [t \in Tasks |-> {}]]
HSpec == HInit /\ [][Next /\ Observe]_hvars

\* BVV-S-04: ReadyTasks reads file after file, and the dependencies last, without
\* a lock.  Whatever is created, wired and finished meanwhile, it returns no task
\* before the dependencies that the task had when its file was read are terminal,
\* as long as nobody takes a task out of a terminal status.  A planner that wires
\* a task before it creates it has all its dependencies respected; one that
\* creates the task first may have it dispatched in between.
NeverReadyEarly ==
  \A c \in Clients : pc[c] = "return" =>
    \A t \in ready[c] : \A d \in wired[c][t] : task[d].status \in L!Terminal
=============================================================================
