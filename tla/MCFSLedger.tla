---------------------------- MODULE MCFSLedger ----------------------------
(***************************************************************************)
(* Two goroutines c1 and c2 of the orchestrator p, and c3 of a second      *)
(* process q.  A scenario says who calls what and how often a write fails  *)
(* or a process is killed.                                                 *)
(***************************************************************************)
EXTENDS FSLedger, TLC

CONSTANTS c1, c2, c3, p, q, w1, w2

VARIABLE scenario

Trio == {c1, c2, c3}
TrioProcesses == (c1 :> p) @@ (c2 :> p) @@ (c3 :> q)
ThreeTasks == {1, 2, 3}
BothWorkers == {w1, w2}

TaskAs(s) == [status |-> s, assignee |-> NoWorker]
Idle == [status |-> "idle", task |-> NoTask]

\* Create, race to assign to one of W, finish, release.
AssignRequests(W) ==
  [op: {"CreateTask"}, t: {1}, r: {TaskAs("open")}]
  \cup [op: {"UpdateTask"}, t: {1}, r: {TaskAs("open"), TaskAs("completed")}]
  \cup [op: {"Assign"}, t: {1}, w: W]
  \cup [op: {"CreateWorker", "UpdateWorker"}, w: W, r: {Idle}]

\* A cycle of three tasks and the way back from one of them.
DepRequests ==
  {[op |-> "AddDep", t |-> e[1], d |-> e[2]] : e \in {<<1, 2>>, <<2, 3>>, <<3, 1>>, <<2, 1>>}}

\* The planner creates two tasks and wires the second to the first, in any order;
\* the dispatcher looks for ready ones and finishes them.
PlanRequests ==
  [op: {"CreateTask"}, t: {1, 2}, r: {TaskAs("open")}]
  \cup [op: {"AddDep"}, t: {2}, d: {1}]
  \cup [op: {"UpdateTask"}, t: {1, 2}, r: {TaskAs("completed")}]
  \cup [op: {"ReadyTasks"}]

AllRequests == AssignRequests(BothWorkers) \cup DepRequests \cup PlanRequests

Scenarios == {
  [clients |-> {c1, c2}, requests |-> AssignRequests(BothWorkers), faults |-> 0],
  [clients |-> {c1, c3}, requests |-> AssignRequests({w1}), faults |-> 2],
  [clients |-> Trio, requests |-> DepRequests, faults |-> 0],
  [clients |-> {c1, c3}, requests |-> PlanRequests, faults |-> 1]}

Within(s) ==
  /\ \A c \in Clients : call'[c] # call[c] =>
       c \in s.clients /\ call'[c] \in s.requests \cup {NoCall}
  /\ faults' <= s.faults

MCInit == HInit /\ scenario \in Scenarios
MCNext == Next /\ Within(scenario) /\ Observe /\ UNCHANGED scenario
MCSpec == MCInit /\ [][MCNext]_<<hvars, scenario>>
MCFairSpec == MCSpec /\ Fairness
=============================================================================
