-------------------------- MODULE MCPlanExecution --------------------------
(* Instances of PlanExecution for TLC. *)
EXTENDS PlanExecution, TLC

CONSTANTS m1, m2

FirstModel == [s \in Stages |-> m1]
WorkerSymmetry == Permutations(Workers)
=============================================================================
