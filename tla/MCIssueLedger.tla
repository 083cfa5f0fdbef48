--------------------------- MODULE MCIssueLedger ---------------------------
(***************************************************************************)
(* Two goroutines c1 and c2 of the orchestrator on a store of each kind.   *)
(* A scenario says who calls what, next to which users, and how often a    *)
(* command fails.  Task 3 has no labels, so it is in no branch; only       *)
(* BeadsStore is asked to take it through the life of a task.              *)
(***************************************************************************)
EXTENDS IssueLedger

CONSTANTS c1, c2, w1, w2

VARIABLE scenario

Pair == {c1, c2}
Two == {1, 2}
Three == {1, 2, 3}
ThirdOnly == {3}
BothWorkers == {w1, w2}

TaskAs(s) == [status |-> s, assignee |-> NoWorker]
Idle == [status |-> "idle", task |-> NoTask]

\* The life of a task: created, claimed by one of two workers, run, failed,
\* reopened, completed; the worker released.
LifeRequests(t) ==
  [op: {"CreateTask"}, t: {t}, r: {TaskAs("open")}]
  \cup [op: {"UpdateTask"}, t: {t},
        r: {TaskAs("open"), TaskAs("failed"), TaskAs("completed"),
            [status |-> "in_progress", assignee |-> w1]}]
  \cup [op: {"Assign"}, t: {t}, w: BothWorkers]
  \cup [op: {"CreateWorker", "UpdateWorker"}, w: BothWorkers, r: {Idle}]

\* Two tasks in every status and a dependency between them.
ReadyRequests ==
  [op: {"CreateTask"}, t: Two, r: {TaskAs("open"), TaskAs("failed")}]
  \cup [op: {"UpdateTask"}, t: Two,
        r: {TaskAs(s) : s \in {"open", "in_progress", "completed", "failed", "blocked"}}]
  \cup [op: {"AddDep"}, t: Two, d: Two]
  \cup [op: {"ReadyTasks"}]

\* One goroutine asks for the ready tasks while the other one changes them.
RaceRequests ==
  [op: {"CreateTask"}, t: Two, r: {TaskAs("open")}]
  \cup [op: {"UpdateTask"}, t: {1}, r: {TaskAs("open"), TaskAs("completed")}]
  \cup [op: {"AddDep"}, t: {2}, d: {1}]
  \cup [op: {"ReadyTasks"}]

\* A task is claimed while an operator closes it, or puts it off, by hand.
ClaimRequests ==
  [op: {"CreateTask"}, t: {1}, r: {TaskAs("open")}]
  \cup [op: {"Assign"}, t: {1}, w: {w1}]
  \cup [op: {"CreateWorker", "UpdateWorker"}, w: {w1}, r: {Idle}]
  \cup [op: {"ReadyTasks"}]
Closing == [op: {"status"}, t: {1}, s: {"closed", "deferred"}]
           \cup [op: {"create"}, t: {1}] \cup [op: {"dep"}, t: {1}, d: {1}]

AllRequests == LifeRequests(1) \cup LifeRequests(3) \cup ReadyRequests \cup ClaimRequests

Scenario(b, s, cs, rs, f) ==
  [backend |-> b, shared |-> s, clients |-> cs, requests |-> rs, faults |-> f]

Scenarios == {
  Scenario("bd", FALSE, Pair, LifeRequests(1), 2),
  Scenario("beads", FALSE, Pair, LifeRequests(3), 2),
  Scenario("bd", FALSE, {c1}, ReadyRequests, 0),
  Scenario("beads", FALSE, {c1}, ReadyRequests, 0),
  Scenario("bd", FALSE, Pair, RaceRequests, 0),
  Scenario("bd", TRUE, Pair, ClaimRequests, 0),
  Scenario("beads", TRUE, Pair, ClaimRequests, 1)}

Within(s) ==
  /\ \A c \in Clients : call'[c] # call[c] =>
       c \in s.clients /\ call'[c] \in s.requests \cup {NoCall}
  /\ faults' <= s.faults

MCInit ==
  /\ HInit
  /\ scenario \in Scenarios
  /\ backend = scenario.backend
  /\ shared = scenario.shared
MCNext == Next /\ Within(scenario) /\ Observe /\ UNCHANGED scenario
MCSpec == MCInit /\ [][MCNext]_<<hvars, scenario>>
=============================================================================
