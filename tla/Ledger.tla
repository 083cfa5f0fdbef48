------------------------------- MODULE Ledger -------------------------------
(***************************************************************************)
(* The Store interface of orch/ledger.go as every backend promises it: a   *)
(* client calls an operation, and at one moment before it returns the      *)
(* operation takes effect or is refused.  This is also literally MockStore *)
(* (orch/testutil/mock_store.go), whose operations run under one mutex on  *)
(* maps.  FSLedger and IssueLedger implement it.                           *)
(***************************************************************************)
CONSTANTS
  Tasks, Workers,
  InBranch,            \* the tasks that carry the branch label of the filter
  NoWorker,            \* an empty Task.Assignee
  NoTask,              \* an empty Worker.CurrentTaskID
  Clients,
  Requests             \* the operations the clients call

Status == {"open", "assigned", "in_progress", "completed", "failed", "blocked"}
Terminal == {"completed", "failed", "blocked"}

TaskRec == [status: Status, assignee: Workers \cup {NoWorker}]
AbsentTask == [status |-> "absent", assignee |-> NoWorker]
OpenTask == [status |-> "open", assignee |-> NoWorker]
Assigned(w) == [status |-> "assigned", assignee |-> w]

WorkerRec == [status: {"idle", "active"}, task: Tasks \cup {NoTask}]
AbsentWorker == [status |-> "absent", task |-> NoTask]
Active(t) == [status |-> "active", task |-> t]

Request ==
  [op: {"CreateTask", "UpdateTask"}, t: Tasks, r: TaskRec]
  \cup [op: {"Assign"}, t: Tasks, w: Workers]
  \cup [op: {"CreateWorker", "UpdateWorker"}, w: Workers, r: WorkerRec]
  \cup [op: {"AddDep"}, t: Tasks, d: Tasks]

NoCall == [op |-> "none"]

VARIABLES
  task,                \* the tasks by ID
  worker,              \* the workers by name
  deps,                \* dependency edges
  todo,                \* the calls that have not taken effect yet
  failed               \* a write has failed or a client was killed

stored == <<task, worker, deps>>
vars == <<stored, todo, failed>>

TypeOK ==
  /\ task \in [Tasks -> TaskRec \cup {AbsentTask}]
  /\ worker \in [Workers -> WorkerRec \cup {AbsentWorker}]
  /\ deps \in [Tasks -> SUBSET Tasks]
  /\ todo \in [Clients -> Requests \cup {NoCall}]
  /\ failed \in BOOLEAN

Closed(edges, S) == \A x \in S : edges[x] \subseteq S

\* What the depth-first search of reachable computes: every closed set that
\* contains from contains to.
Reachable(edges, from, to) ==
  \A S \in SUBSET Tasks : (from \in S /\ Closed(edges, S)) => to \in S

Init ==
  /\ task = [t \in Tasks |-> AbsentTask]
  /\ worker = [w \in Workers |-> AbsentWorker]
  /\ deps = [t \in Tasks |-> {}]
  /\ todo = [c \in Clients |-> NoCall]
  /\ failed = FALSE

\* What an operation checks.  AddDep of an edge that is there is a no-op.
Accepts(r) ==
  CASE r.op = "CreateTask" -> task[r.t] = AbsentTask
    [] r.op = "UpdateTask" -> task[r.t] # AbsentTask
    [] r.op = "Assign" -> task[r.t] = OpenTask /\ worker[r.w].status = "idle"
    [] r.op = "CreateWorker" -> worker[r.w] = AbsentWorker
    [] r.op = "UpdateWorker" -> worker[r.w] # AbsentWorker
    [] r.op = "AddDep" -> r.d \notin deps[r.t] /\ ~Reachable(deps, r.d, r.t)

WriteTask(r) ==
  /\ r.op \in {"CreateTask", "UpdateTask"}
  /\ task' = [task EXCEPT ![r.t] = r.r]
  /\ UNCHANGED <<worker, deps>>

Assign(r) ==
  /\ r.op = "Assign"
  /\ task' = [task EXCEPT ![r.t] = Assigned(r.w)]
  /\ worker' = [worker EXCEPT ![r.w] = Active(r.t)]
  /\ UNCHANGED deps

WriteWorker(r) ==
  /\ r.op \in {"CreateWorker", "UpdateWorker"}
  /\ worker' = [worker EXCEPT ![r.w] = r.r]
  /\ UNCHANGED <<task, deps>>

AddDep(r) ==
  /\ r.op = "AddDep"
  /\ deps' = [deps EXCEPT ![r.t] = @ \cup {r.d}]
  /\ UNCHANGED <<task, worker>>

Invoke(c) ==
  /\ todo[c] = NoCall
  /\ \E r \in Requests : todo' = [todo EXCEPT ![c] = r]
  /\ UNCHANGED <<stored, failed>>

\* The call takes effect - also one whose caller is told that it failed.
Perform(c) ==
  /\ todo[c] # NoCall
  /\ Accepts(todo[c])
  /\ WriteTask(todo[c]) \/ Assign(todo[c]) \/ WriteWorker(todo[c]) \/ AddDep(todo[c])
  /\ todo' = [todo EXCEPT ![c] = NoCall]
  /\ failed' \in {failed, TRUE}

\* The interface does not say whether AddDep takes a task that is not there: the
\* files and MockStore do, the tracker does not.
Dangling(r) == r.op = "AddDep" /\ AbsentTask \in {task[r.t], task[r.d]}

\* The call is refused: ErrTaskExists, ErrNotFound, ErrAlreadyAssigned, ...
Refuse(c) ==
  /\ todo[c] # NoCall
  /\ ~Accepts(todo[c]) \/ Dangling(todo[c])
  /\ todo' = [todo EXCEPT ![c] = NoCall]
  /\ UNCHANGED <<stored, failed>>

\* Calls fail or die with their process, now or, for one that still rolls back,
\* later.  The one trace they may leave is an Assign cut between its two writes.
Cut(S) ==
  /\ failed' = TRUE
  /\ todo' = [c \in Clients |-> IF c \in S THEN NoCall ELSE todo[c]]
  /\ \/ UNCHANGED task
     \/ \E c \in S : /\ todo[c].op = "Assign"
                     /\ Accepts(todo[c])
                     /\ task' = [task EXCEPT ![todo[c].t] = Assigned(todo[c].w)]
  /\ UNCHANGED <<worker, deps>>

\* ReadyTasks: a dependency that does not exist is not terminal.
Ready ==
  {t \in InBranch : /\ task[t] = OpenTask
                    /\ \A d \in deps[t] : task[d].status \in Terminal}

Next ==
  \/ \E c \in Clients : Invoke(c) \/ Perform(c) \/ Refuse(c)
  \/ \E S \in SUBSET Clients : Cut(S)

Spec == Init /\ [][Next]_vars

\* LDG-06: AddDep never closes a cycle.  On a cycle every task has a dependency
\* on the cycle, so in an acyclic graph every set has a task without one.
DepsAcyclic ==
  \A S \in SUBSET Tasks : S # {} => \E x \in S : deps[x] \cap S = {}
=============================================================================
