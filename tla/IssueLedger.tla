---------------------------- MODULE IssueLedger ----------------------------
(***************************************************************************)
(* The two stores that keep tasks as issues of the bd tracker: BDCLIStore  *)
(* (orch/ledger_bdcli.go), which runs the bd command, and BeadsStore       *)
(* (orch/ledger_beads.go), which uses the Beads library.  Workers are      *)
(* JSON files in both.  A step is one bd command or transaction, or one    *)
(* worker file read or written.                                            *)
(*                                                                         *)
(* Mutations are serialised by a mutex of this process only.  Agents and   *)
(* operators use bd on the same issues at the same time (Users).           *)
(***************************************************************************)
EXTENDS Naturals

CONSTANTS
  Tasks, Workers, InBranch, NoWorker, NoTask,
  Clients, NoClient, Requests,
  Unlabelled,          \* tasks with an empty Task.Labels
  UserRequests,        \* what agents and operators do with bd
  MaxFaults            \* bound on failing commands and file writes

VARIABLES
  backend,             \* "bd" or "beads"
  shared,              \* whether agents and operators use bd on the same issues
  issue, deps,         \* the bd database
  worker,              \* the worker files
  mu, pc, call,
  listed,              \* ReadyTasks: the IDs of bd list, the result of GetReadyWork
  ready,               \* ReadyTasks: the result
  faults

stored == <<issue, deps, worker>>
kind == <<backend, shared>>
vars == <<kind, stored, mu, pc, call, listed, ready, faults>>

BdStatus == {"open", "in_progress", "closed", "blocked", "deferred", "pinned", "hooked"}
Issue == [status: BdStatus, assignee: Workers \cup {NoWorker}, failed: BOOLEAN]
AbsentIssue == [status |-> "absent", assignee |-> NoWorker, failed |-> FALSE]

\* orchStatusToBdString, orchStatusToBeads
EncodeStatus(s) ==
  CASE s \in {"open", "assigned"} -> "open"
    [] s = "in_progress" -> "in_progress"
    [] s \in {"completed", "failed"} -> "closed"
    [] s = "blocked" -> "blocked"

\* The tracker's statuses that Task.Status has no word for.
Unmapped == {"deferred", "pinned", "hooked"}

\* bdStringToOrchStatus; beadsStatusToOrch, which panics on an unmapped status
\* (Panics).
DecodeStatus(i) ==
  CASE i.status = "open" -> "open"
    [] i.status = "in_progress" -> "in_progress"
    [] i.status = "closed" -> IF i.failed THEN "failed" ELSE "completed"
    [] i.status = "blocked" -> "blocked"
    [] i.status \in Unmapped -> IF backend = "bd" THEN "blocked" ELSE "panic"
    [] i.status = "absent" -> "absent"

\* toTask: an open issue with an assignee is an assigned task.
ToTask(i) ==
  [status |-> IF DecodeStatus(i) = "open" /\ i.assignee # NoWorker
              THEN "assigned" ELSE DecodeStatus(i),
   assignee |-> i.assignee]

AssignHalfDone(t) ==
  \E c \in Clients : pc[c] \in {"worker", "rollback"} /\ call[c].t = t

CreateHalfDone(t) == \E c \in Clients : pc[c] = "status" /\ call[c].t = t

ToDo == [c \in Clients |->
           IF pc[c] \in {"mu", "inspect", "write", "status", "worker", "rollback"}
           THEN call[c] ELSE [op |-> "none"]]

\* The store as mutations see it, in which an operation between its two commands
\* has not happened yet: they wait for the mutex.  GetTask and ReadyTasks do not,
\* and read the issue as it is: a task that BDCLIStore creates in another status
\* is open to them until the second command.
\* Nothing is claimed of a store that others write to: it is empty here.
SeenTask(t) ==
  IF shared \/ CreateHalfDone(t) THEN [status |-> "absent", assignee |-> NoWorker]
  ELSE IF AssignHalfDone(t) THEN [status |-> "open", assignee |-> NoWorker]
  ELSE ToTask(issue[t])
SeenWorker(w) == IF shared THEN [status |-> "absent", task |-> NoTask] ELSE worker[w]
SeenDeps(t) == IF shared THEN {} ELSE deps[t]
SeenToDo(c) == IF shared THEN [op |-> "none"] ELSE ToDo[c]

Abstract == INSTANCE Ledger WITH
  task <- [t \in Tasks |-> SeenTask(t)],
  worker <- [w \in Workers |-> SeenWorker(w)],
  deps <- [t \in Tasks |-> SeenDeps(t)],
  todo <- [c \in Clients |-> SeenToDo(c)],
  failed <- ~shared /\ faults > 0

L == INSTANCE Ledger WITH
  task <- [t \in Tasks |-> ToTask(issue[t])],
  todo <- ToDo,
  failed <- faults > 0

Request == L!Request \cup [op: {"ReadyTasks"}]
UserRequest ==
  [op: {"create"}, t: Tasks] \cup [op: {"dep"}, t: Tasks, d: Tasks]
  \cup [op: {"status"}, t: Tasks, s: BdStatus]
NoCall == L!NoCall

ASSUME IssueAssumption ==
  /\ InBranch \subseteq Tasks
  /\ Unlabelled \subseteq Tasks
  /\ NoWorker \notin Workers
  /\ NoTask \notin Tasks
  /\ NoClient \notin Clients
  /\ Requests \subseteq Request
  /\ UserRequests \subseteq UserRequest
  /\ MaxFaults \in Nat

TypeOK ==
  /\ backend \in {"bd", "beads"}
  /\ shared \in BOOLEAN
  /\ issue \in [Tasks -> Issue \cup {AbsentIssue}]
  /\ deps \in [Tasks -> SUBSET Tasks]
  /\ worker \in [Workers -> L!WorkerRec \cup {L!AbsentWorker}]
  /\ mu \in Clients \cup {NoClient}
  /\ pc \in [Clients -> {"idle", "mu", "inspect", "write", "status", "worker",
                         "rollback", "unlock", "list", "show", "return", "dead"}]
  /\ call \in [Clients -> Requests \cup {NoCall}]
  /\ listed \in [Clients -> SUBSET Tasks]
  /\ ready \in [Clients -> SUBSET Tasks]
  /\ faults \in 0..MaxFaults

\* NewStore: NewBDCLIStore or NewBeadsStore on an empty database.
Init ==
  /\ backend \in {"bd", "beads"}
  /\ shared \in BOOLEAN
  /\ issue = [t \in Tasks |-> AbsentIssue]
  /\ deps = [t \in Tasks |-> {}]
  /\ worker = [w \in Workers |-> L!AbsentWorker]
  /\ mu = NoClient
  /\ pc = [c \in Clients |-> "idle"]
  /\ call = [c \in Clients |-> NoCall]
  /\ listed = [c \in Clients |-> {}]
  /\ ready = [c \in Clients |-> {}]
  /\ faults = 0

Goto(c, where) == pc' = [pc EXCEPT ![c] = where]

-----------------------------------------------------------------------------
(* Mutations *)

Call(c) ==
  /\ pc[c] = "idle"
  /\ \E r \in Requests :
       /\ call' = [call EXCEPT ![c] = r]
       /\ Goto(c, IF r.op = "ReadyTasks" THEN "list" ELSE "mu")
  /\ UNCHANGED <<kind, stored, mu, listed, ready, faults>>

Lock(c) ==
  /\ pc[c] = "mu"
  /\ mu = NoClient
  /\ mu' = c
  /\ Goto(c, "inspect")
  /\ UNCHANGED <<kind, stored, call, listed, ready, faults>>

\* readTask of BeadsStore.Assign meets an unmapped status.
Undecodable(r) ==
  /\ backend = "beads" /\ r.op = "Assign"
  /\ issue[r.t].status \in Unmapped

\* The panic ends the process with all its goroutines.
Panics(c) ==
  /\ pc[c] = "inspect"
  /\ Undecodable(call[c])
  /\ pc' = [d \in Clients |-> "dead"]
  /\ UNCHANGED <<kind, stored, mu, call, listed, ready, faults>>

\* The operations that look before they write: fetchIssue before bd create, the
\* pre-checks of Assign, os.Stat of a worker file, the graph of BeadsStore.AddDep.
Inspect(c) ==
  /\ pc[c] = "inspect"
  /\ ~Undecodable(call[c])
  /\ LET looks == \/ call[c].op \in {"Assign", "CreateWorker", "UpdateWorker"}
                  \/ call[c].op = "CreateTask" /\ backend = "bd"
                  \/ call[c].op = "AddDep" /\ backend = "beads"
     IN Goto(c, IF looks => L!Accepts(call[c]) THEN "write" ELSE "unlock")
  /\ UNCHANGED <<kind, stored, mu, call, listed, ready, faults>>

\* bd create --force, which overwrites the title and description of an issue
\* that is there; tx.CreateIssue, which refuses.  bd issues are born open.
BornAs(r) ==
  IF issue[r.t] # AbsentIssue THEN issue[r.t]
  ELSE [status |-> IF backend = "bd" THEN "open" ELSE EncodeStatus(r.r.status),
        assignee |-> r.r.assignee,
        failed |-> r.r.status = "failed"]

UpdatedAddingLabels(r) ==
  IF issue[r.t] = AbsentIssue THEN AbsentIssue
  ELSE [status |-> EncodeStatus(r.r.status),
        assignee |-> r.r.assignee,
        failed |-> issue[r.t].failed \/ r.r.status = "failed"]

\* bd update, tx.UpdateIssue.  The labels are replaced, orch:failed included;
\* without labels to set, BDCLIStore leaves the old ones.
Updated(r) ==
  IF issue[r.t] = AbsentIssue THEN AbsentIssue
  ELSE [status |-> EncodeStatus(r.r.status),
        assignee |-> r.r.assignee,
        failed |-> \/ r.r.status = "failed"
                   \/ backend = "bd" /\ r.t \in Unlabelled /\ issue[r.t].failed]

\* Assign: BDCLIStore also writes the status.
Claimed(r) ==
  IF backend = "bd" THEN [issue[r.t] EXCEPT !.status = "open", !.assignee = r.w]
  ELSE [issue[r.t] EXCEPT !.assignee = r.w]

\* bd dep add and AddDependency refuse cycles and unknown issues themselves.
DepAdded(t, d) ==
  IF /\ AbsentIssue \notin {issue[t], issue[d]}
     /\ ~L!Reachable(deps, d, t)
  THEN [deps EXCEPT ![t] = @ \cup {d}] ELSE deps

\* The effect of the command, transaction or file write of an operation.
Effect(r) ==
  \/ /\ r.op = "CreateTask"
     /\ issue' = [issue EXCEPT ![r.t] = BornAs(r)]
     /\ UNCHANGED <<deps, worker>>
  \/ /\ r.op = "UpdateTask"
     /\ issue' = [issue EXCEPT ![r.t] = Updated(r)]
     /\ UNCHANGED <<deps, worker>>
  \/ /\ r.op = "Assign"
     /\ issue' = [issue EXCEPT ![r.t] = Claimed(r)]
     /\ UNCHANGED <<deps, worker>>
  \/ /\ r.op \in {"CreateWorker", "UpdateWorker"}
     /\ worker' = [worker EXCEPT ![r.w] = r.r]
     /\ UNCHANGED <<issue, deps>>
  \/ /\ r.op = "AddDep"
     /\ deps' = DepAdded(r.t, r.d)
     /\ UNCHANGED <<issue, worker>>

Write(c) ==
  /\ pc[c] = "write"
  /\ Effect(call[c])
  /\ Goto(c, CASE call[c].op = "Assign" -> "worker"
               [] call[c].op = "CreateTask" /\ backend = "bd"
                    /\ call[c].r.status # "open" -> "status"
               [] OTHER -> "unlock")
  /\ UNCHANGED <<kind, mu, call, listed, ready, faults>>

\* CreateTask of BDCLIStore: bd update --status after bd create.
SetStatus(c) ==
  /\ pc[c] = "status"
  /\ issue' = [issue EXCEPT ![call[c].t].status = EncodeStatus(call[c].r.status)]
  /\ Goto(c, "unlock")
  /\ UNCHANGED <<kind, deps, worker, mu, call, listed, ready, faults>>

WriteWorker(c) ==
  /\ pc[c] = "worker"
  /\ worker' = [worker EXCEPT ![call[c].w] = L!Active(call[c].t)]
  /\ Goto(c, "unlock")
  /\ UNCHANGED <<kind, issue, deps, mu, call, listed, ready, faults>>

\* Assign: the assignee is cleared after the worker file could not be written.
Rollback(c) ==
  /\ pc[c] = "rollback"
  /\ issue' = [issue EXCEPT ![call[c].t].assignee = NoWorker]
  /\ Goto(c, "unlock")
  /\ UNCHANGED <<kind, deps, worker, mu, call, listed, ready, faults>>

Fault == faults < MaxFaults /\ faults' = faults + 1

\* The command or write has no effect and its error is returned.
Fails(c) ==
  /\ pc[c] \in {"write", "status", "worker", "rollback"}
  /\ Fault
  /\ Goto(c, IF pc[c] = "worker" THEN "rollback" ELSE "unlock")
  /\ UNCHANGED <<kind, stored, mu, call, listed, ready>>

\* bd is killed at bdInvocationTimeout after its commit: the effect is there, and
\* the caller gets ErrStoreUnavailable.
TimesOut(c) ==
  /\ backend = "bd"
  /\ pc[c] = "write"
  /\ call[c].op \notin {"CreateWorker", "UpdateWorker"}
  /\ Fault
  /\ Effect(call[c])
  /\ Goto(c, "unlock")
  /\ UNCHANGED <<kind, mu, call, listed, ready>>

Unlock(c) ==
  /\ pc[c] = "unlock"
  /\ mu' = NoClient
  /\ call' = [call EXCEPT ![c] = NoCall]
  /\ Goto(c, "idle")
  /\ UNCHANGED <<kind, stored, listed, ready, faults>>

-----------------------------------------------------------------------------
(* ReadyTasks *)

DepsDoneClosed(t, known) == \A d \in deps[t] : d \in known /\ issue[d].status = "closed"

\* A dependency that was not listed is not terminal.
DepsDone(t, known) == \A d \in deps[t] : d \in known /\ ToTask(issue[d]).status \in L!Terminal

\* bd list -l <branch>; GetReadyWork, over all issues and filtered here.
List(c) ==
  /\ pc[c] = "list"
  /\ listed' = [listed EXCEPT ![c] =
       IF backend = "bd" THEN {t \in InBranch : issue[t] # AbsentIssue}
       ELSE {t \in InBranch : ToTask(issue[t]) = L!OpenTask /\ DepsDone(t, Tasks)}]
  /\ Goto(c, "show")
  /\ UNCHANGED <<kind, stored, mu, call, ready, faults>>

\* bd show <ids>: status, labels and dependencies of the listed issues, and the
\* filter over them; BeadsStore only reads labels.
Show(c) ==
  /\ pc[c] = "show"
  /\ ready' = [ready EXCEPT ![c] =
       IF backend = "bd"
       THEN {t \in listed[c] : ToTask(issue[t]) = L!OpenTask /\ DepsDone(t, listed[c])}
       ELSE listed[c]]
  /\ listed' = [listed EXCEPT ![c] = {}]
  /\ Goto(c, "return")
  /\ UNCHANGED <<kind, stored, mu, call, faults>>

Return(c) ==
  /\ pc[c] = "return"
  /\ ready' = [ready EXCEPT ![c] = {}]
  /\ call' = [call EXCEPT ![c] = NoCall]
  /\ Goto(c, "idle")
  /\ UNCHANGED <<kind, stored, mu, listed, faults>>

\* An agent or an operator runs bd.
User ==
  /\ shared
  /\ \E r \in UserRequests :
       \/ /\ r.op = "create"
          /\ issue[r.t] = AbsentIssue
          /\ issue' = [issue EXCEPT ![r.t] = [AbsentIssue EXCEPT !.status = "open"]]
          /\ UNCHANGED deps
       \/ /\ r.op = "dep"
          /\ deps' = DepAdded(r.t, r.d)
          /\ UNCHANGED issue
       \/ /\ r.op = "status"
          /\ issue[r.t] # AbsentIssue
          /\ issue' = [issue EXCEPT ![r.t].status = r.s]
          /\ UNCHANGED deps
  /\ UNCHANGED <<kind, worker, mu, pc, call, listed, ready, faults>>

Step(c) ==
  \/ Lock(c) \/ Inspect(c) \/ Panics(c) \/ Write(c) \/ SetStatus(c) \/ WriteWorker(c) \/ Rollback(c)
  \/ Unlock(c) \/ List(c) \/ Show(c) \/ Return(c)

Next ==
  \/ \E c \in Clients : Call(c) \/ Step(c) \/ Fails(c) \/ TimesOut(c)
  \/ User

Spec == Init /\ [][Next]_vars

-----------------------------------------------------------------------------
(* Properties *)

\* The tracker's statuses, its labels and the worker files together behave as the
\* one atomic store of the Store interface: what a client writes is what every
\* client reads back, and Assign decides on the state it changes.
ImplementsLedger == Abstract!Spec

-----------------------------------------------------------------------------
(* What ReadyTasks returns *)

\* History variables, on which nothing in Spec depends.
VARIABLES
  moved,               \* clients in ReadyTasks, an issue having changed since List
  ever                 \* the tasks that were ready at some moment since List

hvars == <<vars, moved, ever>>

Reading(c) == pc[c] \in {"show", "return"}

Observe ==
  /\ moved' = {c \in Clients :
       /\ Reading(c) /\ Reading(c)'
       /\ c \in moved \/ <<issue, deps>>' # <<issue, deps>>}
  /\ ever' = [c \in Clients |->
       IF Reading(c)' THEN (IF Reading(c) THEN ever[c] ELSE {}) \cup L!Ready' ELSE {}]

HInit == Init /\ moved = {} /\ ever = [c \in Clients |-> {}]
HSpec == HInit /\ [][Next /\ Observe]_hvars

\* For BDCLIStore a dependency outside the branch is not listed, hence never
\* terminal.
BranchLocal == backend = "bd" => \A t \in InBranch : deps[t] \subseteq InBranch

\* ReadyTasks looks twice, without the mutex.  Whatever is written in between, by
\* other goroutines, agents or operators, every task it returns was ready at some
\* moment of the call; and the result is all that the Store interface calls ready
\* when nothing was written.
ReadyTruthful ==
  \A c \in Clients : pc[c] = "return" =>
    /\ ready[c] \subseteq ever[c]
    /\ c \notin moved /\ BranchLocal => ready[c] = L!Ready
=============================================================================
