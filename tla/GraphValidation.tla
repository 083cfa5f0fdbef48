-------------------------- MODULE GraphValidation --------------------------
(***************************************************************************)
(* ValidateLifecycleGraph of orch/validate.go, as the engine runs it after *)
(* the planner: role checks, the three-colour depth-first search of        *)
(* firstCycle, and bfsReach once from the gate along dependencies and once *)
(* from the plan task against them.  One step is one node visited or one   *)
(* edge looked at.  The input is any set of tasks with any dependencies.   *)
(*                                                                         *)
(* The order of a dependency slice and of the breadth-first queue does not *)
(* show in the results; both are sets here.                                *)
(***************************************************************************)
EXTENDS Integers, Sequences

CONSTANTS
  Nodes,       \* the tasks of the branch, numbered in the order of their IDs
  Foreign,     \* tasks of other branches that dependencies may name
  Inputs       \* the task graphs to validate

Role == {"planner", "gate", "verifier", "builder", "escalation", "configured",
         "unrecognized"}

ASSUME NodesAssumption == Nodes \subseteq Nat /\ Nodes \cap Foreign = {}
ASSUME InputsAssumption ==
  Inputs \subseteq [role: [Nodes -> Role], deps: [Nodes -> SUBSET (Nodes \cup Foreign)]]

VARIABLES
  role,        \* Task.Role
  deps,        \* Store.GetDeps
  check,       \* the check under way
  color,       \* firstCycle: white, gray, black
  stack,       \* firstCycle: the calls of visit under way
  rest,        \* firstCycle: the dependencies their loops have still to look at
  cycle,       \* firstCycle: the edge reported
  reached,     \* bfsReach
  queue,       \* bfsReach
  verdict      \* the requirement violated, "valid", or "store" for a store error

input == <<role, deps>>
dfs == <<color, stack, rest, cycle>>
bfs == <<reached, queue>>
gvVars == <<input, check, dfs, bfs, verdict>>

GvTypeOK ==
  /\ role \in [Nodes -> Role]
  /\ deps \in [Nodes -> SUBSET (Nodes \cup Foreign)]
  /\ check \in {"roles", "cycle", "gates", "verifiers", "orphans", "done"}
  /\ color \in [Nodes -> {"white", "gray", "black"}]
  /\ stack \in Seq(Nodes)
  /\ rest \in [Nodes -> SUBSET Nodes]
  /\ cycle \in Seq(Nodes)
  /\ reached \in SUBSET Nodes
  /\ queue \in SUBSET Nodes
  /\ verdict \in {"none", "valid", "store", "TG-07", "TG-08", "TG-09", "TG-10"}

Planners == {t \in Nodes : role[t] = "planner"}
Gates == {t \in Nodes : role[t] = "gate"}
Verifiers == {t \in Nodes : role[t] = "verifier"}

\* forward: only the dependencies inside the branch.
Forward(t) == deps[t] \cap Nodes

\* reverse
Backward(t) == {u \in Nodes : t \in Forward(u)}

GvInit ==
  /\ \E in \in Inputs : role = in.role /\ deps = in.deps
  /\ check = "roles"
  /\ color = [t \in Nodes |-> "white"]
  /\ stack = <<>>
  /\ rest = [t \in Nodes |-> {}]
  /\ cycle = <<>>
  /\ reached = {}
  /\ queue = {}
  /\ verdict = "none"

Answer(v) == check' = "done" /\ verdict' = v

\* Cardinality of planners, BVV-TG-07, and the dependency maps.
CheckRoles ==
  /\ check = "roles"
  /\ \/ Planners = {} /\ Answer("valid") /\ UNCHANGED rest
     \/ /\ Planners # {}
        /\ ~ \E p \in Nodes : Planners = {p}
        /\ Answer("TG-10") /\ UNCHANGED rest
     \/ /\ \E p \in Nodes : Planners = {p}
        /\ \E t \in Nodes : role[t] = "unrecognized"
        /\ Answer("TG-07") /\ UNCHANGED rest
     \/ /\ \E p \in Nodes : Planners = {p}
        /\ \A t \in Nodes : role[t] # "unrecognized"
        /\ rest' = [t \in Nodes |-> Forward(t)]
        /\ check' = "cycle"
        /\ UNCHANGED verdict
     \/ Answer("store") /\ UNCHANGED rest         \* ListTasks or GetDeps failed
  /\ UNCHANGED <<input, color, stack, cycle, bfs>>

-----------------------------------------------------------------------------
(* firstCycle *)

White == {t \in Nodes : color[t] = "white"}

\* The outer loop, in ID order.
VisitRoot ==
  /\ check = "cycle"
  /\ stack = <<>>
  /\ \E t \in White :
       /\ \A u \in White : t <= u
       /\ color' = [color EXCEPT ![t] = "gray"]
       /\ stack' = <<t>>
  /\ UNCHANGED <<input, check, rest, cycle, bfs, verdict>>

VisitTreatsGrayAsDone ==
  /\ check = "cycle"
  /\ stack # <<>>
  /\ LET x == stack[Len(stack)] IN
     \E d \in rest[x] :
       /\ rest' = [rest EXCEPT ![x] = @ \ {d}]
       /\ \/ color[d] # "white" /\ UNCHANGED <<color, stack>>
          \/ /\ color[d] = "white"
             /\ color' = [color EXCEPT ![d] = "gray"]
             /\ stack' = Append(stack, d)
  /\ UNCHANGED <<input, check, cycle, bfs, verdict>>

\* The innermost visit looks at its next dependency.
Visit ==
  /\ check = "cycle"
  /\ stack # <<>>
  /\ LET x == stack[Len(stack)] IN
     \E d \in rest[x] :
       /\ rest' = [rest EXCEPT ![x] = @ \ {d}]
       /\ \/ /\ color[d] = "gray"
             /\ cycle' = <<x, d>>
             /\ Answer("TG-08")
             /\ UNCHANGED <<color, stack>>
          \/ /\ color[d] = "white"
             /\ color' = [color EXCEPT ![d] = "gray"]
             /\ stack' = Append(stack, d)
             /\ UNCHANGED <<check, cycle, verdict>>
          \/ /\ color[d] = "black"
             /\ UNCHANGED <<check, color, stack, cycle, verdict>>
  /\ UNCHANGED <<input, bfs>>

\* The innermost visit returns false.
VisitReturns ==
  /\ check = "cycle"
  /\ stack # <<>>
  /\ LET x == stack[Len(stack)] IN
     /\ rest[x] = {}
     /\ color' = [color EXCEPT ![x] = "black"]
     /\ stack' = SubSeq(stack, 1, Len(stack) - 1)
  /\ UNCHANGED <<input, check, rest, cycle, bfs, verdict>>

NoCycle ==
  /\ check = "cycle"
  /\ stack = <<>>
  /\ White = {}
  /\ check' = "gates"
  /\ UNCHANGED <<input, dfs, bfs, verdict>>

-----------------------------------------------------------------------------
(* bfsReach and the rules that use it *)

\* BVV-TG-09: one gate; bfsReach(gateID, forward) starts.
CheckGates ==
  /\ check = "gates"
  /\ \/ /\ ~ \E g \in Nodes : Gates = {g}
        /\ Answer("TG-09")
        /\ UNCHANGED bfs
     \/ /\ \E g \in Nodes : Gates = {g}
        /\ reached' = Gates
        /\ queue' = Gates
        /\ check' = "verifiers"
        /\ UNCHANGED verdict
  /\ UNCHANGED <<input, dfs>>

\* The dependencies of one node, from the gate on.
ReachForward ==
  /\ check = "verifiers"
  /\ \E cur \in queue :
       /\ reached' = reached \cup Forward(cur)
       /\ queue' = (queue \ {cur}) \cup (Forward(cur) \ reached)
  /\ UNCHANGED <<input, check, dfs, verdict>>

\* BVV-TG-09: every verifier is reached; bfsReach(planID, reverse) starts.
CheckVerifiers ==
  /\ check = "verifiers"
  /\ queue = {}
  /\ \/ ~(Verifiers \subseteq reached) /\ Answer("TG-09") /\ UNCHANGED bfs
     \/ /\ Verifiers \subseteq reached
        /\ reached' = Planners
        /\ queue' = Planners
        /\ check' = "orphans"
        /\ UNCHANGED verdict
  /\ UNCHANGED <<input, dfs>>

\* The dependents of one node, from the plan task on.
ReachReverse ==
  /\ check = "orphans"
  /\ \E cur \in queue :
       /\ reached' = reached \cup Backward(cur)
       /\ queue' = (queue \ {cur}) \cup (Backward(cur) \ reached)
  /\ UNCHANGED <<input, check, dfs, verdict>>

\* BVV-TG-10: every task but the plan and the escalations is reached.
CheckOrphans ==
  /\ check = "orphans"
  /\ queue = {}
  /\ Answer(IF \A t \in Nodes \ Planners : role[t] # "escalation" => t \in reached
            THEN "valid" ELSE "TG-10")
  /\ UNCHANGED <<input, dfs, bfs>>

Decided == check = "done" /\ UNCHANGED gvVars

GvNext ==
  \/ CheckRoles
  \/ VisitRoot \/ Visit \/ VisitReturns \/ NoCycle
  \/ CheckGates \/ ReachForward \/ CheckVerifiers \/ ReachReverse \/ CheckOrphans
  \/ Decided

GvSpec == GvInit /\ [][GvNext]_gvVars

-----------------------------------------------------------------------------
(* Reference definitions *)

Closed(S) == \A x \in S : Forward(x) \subseteq S

\* b is a, or a depends on b directly or transitively.
DependsOn(a, b) == \A S \in SUBSET Nodes : (a \in S /\ Closed(S)) => b \in S

\* On a cycle every task of it depends on another one of it.
Acyclic == \A S \in SUBSET Nodes : S # {} => \E x \in S : Forward(x) \cap S = {}

WellGated ==
  \E g \in Nodes : Gates = {g} /\ \A v \in Verifiers : DependsOn(g, v)

Rooted ==
  \E p \in Nodes : Planners = {p} /\
    \A t \in Nodes : role[t] # "escalation" => DependsOn(t, p)

Expected ==
  CASE Planners = {} -> "valid"
    [] Planners # {} /\ ~(\E p \in Nodes : Planners = {p}) -> "TG-10"
    [] OTHER -> IF \E t \in Nodes : role[t] = "unrecognized" THEN "TG-07"
                ELSE IF ~Acyclic THEN "TG-08"
                ELSE IF ~WellGated THEN "TG-09"
                ELSE IF ~Rooted THEN "TG-10"
                ELSE "valid"

-----------------------------------------------------------------------------
(* Properties *)

\* The edge that firstCycle reports is one, and lies on a cycle.
CycleReal ==
  verdict = "TG-08" => cycle[2] \in Forward(cycle[1]) /\ DependsOn(cycle[2], cycle[1])

\* ValidateLifecycleGraph reports exactly the first requirement of BVV-TG-07..10
\* that the graph violates, a cycle with an edge of it: both searches find what
\* the definitions of a cycle and of a dependency say, on every graph.
VerdictExact ==
  /\ verdict \notin {"none", "store"} => verdict = Expected
  /\ CycleReal
=============================================================================
