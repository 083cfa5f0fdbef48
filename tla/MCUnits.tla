------------------------------ MODULE MCUnits ------------------------------
(***************************************************************************)
(* Seven parts that share no state with each other, each checked by itself:*)
(* a bd command, the circuit breaker, the pull-request gate, telemetry     *)
(* (both with lost log writes and across a resume), the validation of the  *)
(* task graph, the lifecycle lock and the starts of engines.  Only the     *)
(* chosen unit moves.                                                      *)
(***************************************************************************)
EXTENDS BdCommand, CircuitBreaker, Gate, Telemetry, MCGraphValidation, MCLifecycleLock,
        MCEngineStart

VARIABLES unit, scenario

Units == {"command", "breaker", "gate", "telemetry", "resumed telemetry", "graph", "lock",
          "engines"}

MCInit ==
  /\ unit \in Units
  /\ GvInit
  /\ unit = "graph" \/ (role = FourRoles /\ deps = [t \in Nodes |-> {}])
  /\ BdInit /\ (unit = "command" \/ release = 0)
  /\ GateInit /\ (unit = "gate" \/ dep = [d \in Deps |-> "completed"])
  /\ CbInit /\ TelInit /\ Init /\ EsInit
  /\ scenario \in Scenarios /\ (unit = "engines" \/ scenario = Contention)

Command ==
  /\ unit = "command" /\ BdNext
  /\ UNCHANGED <<cbVars, gateVars, telVars, gvVars, vars, esVars, unit, scenario>>
BreakerStep ==
  /\ unit = "breaker" /\ CbNext
  /\ UNCHANGED <<bdVars, gateVars, telVars, gvVars, vars, esVars, unit, scenario>>
GateStep ==
  /\ unit = "gate" /\ GateNext
  /\ UNCHANGED <<bdVars, cbVars, telVars, gvVars, vars, esVars, unit, scenario>>
TelemetryStep ==
  /\ \/ unit = "telemetry" /\ TelNext /\ resumes' = 0
     \/ unit = "resumed telemetry" /\ TelNext /\ logFaults' = 0 /\ handoffs' = 0
  /\ UNCHANGED <<bdVars, cbVars, gateVars, gvVars, vars, esVars, unit, scenario>>
GraphStep ==
  /\ unit = "graph" /\ GvNext
  /\ UNCHANGED <<bdVars, cbVars, gateVars, telVars, vars, esVars, unit, scenario>>
LockStep ==
  /\ unit = "lock" /\ Next
  /\ UNCHANGED <<bdVars, cbVars, gateVars, telVars, gvVars, esVars, unit, scenario>>
EngineStep ==
  /\ unit = "engines" /\ EsNext /\ Within(scenario)
  /\ UNCHANGED <<bdVars, cbVars, gateVars, telVars, gvVars, vars, unit, scenario>>

mcvars == <<bdVars, cbVars, gateVars, telVars, gvVars, vars, esVars, unit, scenario>>

\* The run's resumes are used up; or every process has ended and time is up.
AtRest ==
  /\ \/ unit = "telemetry" /\ engine \in {"returned", "down"}
     \/ unit = "lock" /\ now = MaxClock /\ \A p \in Procs : pc[p] \in Ended
     \/ unit = "engines" /\ \A e \in scenario.engines : stage[e] \in Finished
  /\ UNCHANGED mcvars

MCNext ==
  Command \/ BreakerStep \/ GateStep \/ TelemetryStep \/ GraphStep \/ LockStep \/ EngineStep
  \/ AtRest

MCSpec == MCInit /\ [][MCNext]_mcvars
=============================================================================
