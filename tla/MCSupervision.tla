--------------------------- MODULE MCSupervision ---------------------------
(***************************************************************************)
(* One worker under Supervision.  The scenario says which tasks are open   *)
(* at the start, which exit codes the agents use, how many calls may fail, *)
(* and how the actors' paces compare:                                      *)
(*   any     everything may happen at any time;                            *)
(*   alone   no signal, kill or timeout disturbs the agents;               *)
(*   calm    the same, followed only while no worker passes on under       *)
(*           somebody's hands;                                             *)
(*   late    the watchdog sees dead sessions before runAgent's polls do;   *)
(*   prompt  runAgent's polls see them before the watchdog does.           *)
(***************************************************************************)
EXTENDS Supervision

CONSTANT Scenarios

VARIABLE scenario

OneTask == {1}
TwoTasks == 1..2
FiveTasks == 1..5
NoDeps == [t \in Tasks |-> {}]

Scene(open, codes, calls, pace) ==
  [open |-> open, codes |-> codes, faults |-> calls, pace |-> pace]

Supervised == {Scene({1}, {0, 3}, 0, "any"), Scene({1}, {}, 1, "any"),
               Scene({1}, {3}, 1, "alone"),
               Scene({1, 2}, {0}, 0, "calm"), Scene({1, 2}, {3}, 0, "calm"),
               Scene({1, 2}, {}, 0, "late")}
Hanging == {Scene({1, 2}, {0}, 0, "alone")}
Blocking == {Scene(1..5, {}, 0, "late")}
HandingOff == {Scene({1}, {0, 3}, 0, "prompt")}

MCInit ==
  /\ scenario \in Scenarios
  /\ status = [t \in Tasks |-> IF t \in scenario.open THEN "open" ELSE "completed"]
  /\ assignee = [t \in Tasks |-> NoWorker]
  /\ SInit

Pace ==
  /\ scenario.pace \in {"alone", "calm"} =>
       /\ cancelled' # cancelled => phase' = "wait"
       /\ \A w \in Workers : ~AgentKilled(w)
       /\ \A m \in monitors : MonitorKill(m) => session[m.worker] = NoTask \/ cancelled
  /\ scenario.pace \in {"calm", "late"} =>
       /\ SpawnFails => session[spawning.worker] # NoTask
       /\ WdRestart => wdStep' = "record"
  /\ scenario.pace = "late" => cancelled \/ \A m \in monitors' : m.outcome = "none"
  /\ scenario.pace = "prompt" =>
       (WdDead \/ WdStuck => \A m \in monitors : m.worker = wdWorker => m.outcome # "none")

Followed == scenario.pace = "calm" => Undisturbed

MCNext ==
  /\ \/ Followed /\ SNext
     \/ ~Followed /\ UNCHANGED svars
  /\ Pace
  /\ faults' <= scenario.faults
  /\ \A t \in Tasks : sidecar'[t] \in scenario.codes \cup {-1}
  /\ UNCHANGED scenario
MCSpec == MCInit /\ [][MCNext]_<<svars, scenario>> /\ SFairness
=============================================================================
