------------------------ MODULE MCGraphValidation ------------------------
(***************************************************************************)
(* Every graph on four tasks, one of each role a branch needs; every graph *)
(* on three tasks with every choice of three out of five roles, next to an *)
(* escalation; and graphs on three tasks with dependencies on themselves   *)
(* and outside the branch.                                                 *)
(***************************************************************************)
EXTENDS GraphValidation

Outside == {9}
Three == 1..3
Four == 1..4

NoLoops(T) == {d \in [T -> SUBSET T] : \A t \in T : t \notin d[t]}

FourRoles == <<"planner", "gate", "verifier", "builder">>
FourInputs == {[role |-> FourRoles, deps |-> d] : d \in NoLoops(Four)}

\* The graph of three tasks with a fourth, unconnected escalation.
WithEscalation(r, d) == [role |-> Append(r, "escalation"), deps |-> Append(d, {})]

\* Roles up to the order of the tasks: the graphs come in every order.
SomeRoles == <<"planner", "gate", "verifier", "escalation", "unrecognized">>
ThreeRoles == {<<SomeRoles[i], SomeRoles[j], SomeRoles[k]>> :
                 <<i, j, k>> \in {c \in (1..5) \X (1..5) \X (1..5) : c[1] <= c[2] /\ c[2] <= c[3]}}
ThreeInputs == {WithEscalation(r, d) : r \in ThreeRoles, d \in NoLoops(Three)}

OutsideRoles == <<"planner", "gate", "configured">>
OutsideInputs ==
  {WithEscalation(OutsideRoles, d) : d \in [Three -> SUBSET (Three \cup Outside)]}

AllInputs == FourInputs \cup ThreeInputs \cup OutsideInputs
=============================================================================
