--------------------------- MODULE MCEngineStart ---------------------------
(***************************************************************************)
(* Three processes for one branch.  A scenario says which of them are      *)
(* started, which of these with `wonka resume`, and how often a process    *)
(* dies or an operation of a start fails.                                  *)
(***************************************************************************)
EXTENDS EngineStart

CONSTANTS e1, e2, e3

ThreeEngines == {e1, e2, e3}

Scenario(es, rs, c, f) == [engines |-> es, resumers |-> rs, crashes |-> c, faults |-> f]

\* A resume racing with two fresh runs, a resume after a crash, failing starts.
Contention == Scenario(ThreeEngines, {e2}, 2, 0)
AfterCrash == Scenario({e1, e2}, {e2}, 2, 0)
Failing == Scenario(ThreeEngines, {e2, e3}, 1, 1)
Scenarios == {Contention, AfterCrash, Failing}

Within(s) ==
  /\ \A e \in Engines : stage[e] = "idle" /\ stage'[e] # "idle" =>
       e \in s.engines /\ (e \in s.resumers <=> stage'[e] # "store")
  /\ crashes' <= s.crashes
  /\ faults' <= s.faults
=============================================================================
