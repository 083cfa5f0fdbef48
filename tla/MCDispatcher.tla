---------------------------- MODULE MCDispatcher ----------------------------
(***************************************************************************)
(* A small branch for Dispatcher: 2 and 3 wait for the planner 1, the      *)
(* critical 4 for both, and 5, whose role is not configured, for 4.  The   *)
(* scenario a behaviour starts in says which exit codes its agents use and *)
(* how many calls may fail: agents that block, agents that hand off, and   *)
(* agents that succeed or are killed while a call fails.                   *)
(***************************************************************************)
EXTENDS Dispatcher

VARIABLE scenario

BranchTasks == 1..5
BranchDeps ==
  [t \in BranchTasks |-> CASE t \in {2, 3} -> {1} [] t = 4 -> {2, 3} [] t = 5 -> {4} [] OTHER -> {}]

Scenarios == {[codes |-> {0, 2}, faults |-> 0],
              [codes |-> {0, 3}, faults |-> 0],
              [codes |-> {0}, faults |-> 1]}

MCInit ==
  /\ scenario \in Scenarios
  /\ status = [t \in Tasks |-> "open"]
  /\ assignee = [t \in Tasks |-> NoWorker]
  /\ Init
MCNext ==
  /\ Next
  /\ faults' <= scenario.faults
  /\ \A t \in Tasks : sidecar'[t] \in scenario.codes \cup {-1}
  /\ UNCHANGED scenario
MCSpec == MCInit /\ [][MCNext]_<<vars, scenario>>
=============================================================================
