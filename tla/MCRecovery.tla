---------------------------- MODULE MCRecovery ----------------------------
(***************************************************************************)
(* A planner and the two tasks it creates, on two workers.  A scenario     *)
(* bounds what may happen in a behaviour, in the order they are listed:    *)
(* agents fail and are retried; agents hand off; a human re-opens a task;  *)
(* the work order changes and wonka run plans again; it does so after a    *)
(* human re-opened the plan task; a session cannot be spawned; the         *)
(* watchdog leaves a goroutine behind, of a task that succeeds, or is      *)
(* blocked; the circuit breaker trips; everything at once, to a plan task  *)
(* that creates no others.                                                 *)
(* All with crashes and resumes.                                           *)
(***************************************************************************)
EXTENDS Recovery

VARIABLE scenario

PlanAndTwo == {1, 2, 3}

Scenario(d, r, h, o, rt, hf, sp, st, tr, gs, cs) ==
  [downs |-> d, runs |-> r, reopens |-> h, orders |-> o, retries |-> rt,
   handoffs |-> hf, spawns |-> sp, strays |-> st, trips |-> tr, graphs |-> gs, codes |-> cs]

Graphs == {"valid", "invalid"}

Scenarios == {
  Scenario(2, 1, 0, 1, 1, 0, 0, 0, 0, {"valid"}, {"success", "failure"}),
  Scenario(2, 1, 0, 1, 0, 1, 0, 0, 0, {"valid"}, {"success", "handoff"}),
  Scenario(2, 1, 1, 1, 0, 0, 0, 0, 0, Graphs, {"success", "blocked"}),
  Scenario(3, 2, 0, 2, 0, 0, 0, 0, 0, Graphs, {"success"}),
  Scenario(3, 2, 1, 1, 0, 0, 0, 0, 0, Graphs, {"success"}),
  Scenario(2, 1, 0, 1, 0, 0, 1, 0, 0, {"valid"}, {"success", "blocked"}),
  Scenario(2, 1, 0, 1, 0, 1, 0, 1, 0, {"valid"}, {"success"}),
  Scenario(1, 1, 0, 1, 0, 1, 0, 1, 0, {"valid"}, {"success", "blocked"}),
  Scenario(2, 1, 0, 1, 0, 0, 0, 1, 1, {"valid"}, {"success", "blocked"}),
  Scenario(3, 1, 0, 1, 1, 1, 1, 1, 1, {}, Code)}

Within(s) ==
  /\ downs' <= s.downs
  /\ mode = "down" /\ mode' # "down" => downs < s.downs
  /\ spawnFailures' <= s.spawns /\ strays' <= s.strays
  /\ trips' <= s.trips
  /\ graph' \in s.graphs \cup {"absent"}
  /\ runs' <= s.runs /\ humanReopens' <= s.reopens /\ order' <= s.orders
  /\ \A t \in Tasks :
       /\ sidecar'[t] \in s.codes \cup {"none"}
       /\ retries'[t] <= s.retries
       /\ handoffs'[t] <= s.handoffs

\* The bounds of the scenario are reached.
ScenarioOver == mode = "down" /\ downs = scenario.downs /\ UNCHANGED vars

MCInit == Init /\ scenario \in Scenarios
MCNext ==
  /\ (Next /\ Within(scenario)) \/ ScenarioOver
  /\ UNCHANGED scenario
MCSpec == MCInit /\ [][MCNext]_<<vars, scenario>>
=============================================================================
