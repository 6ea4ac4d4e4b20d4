-------------------------- MODULE MCPlanRepository --------------------------
(* Instances of PlanRepository for TLC. *)
EXTENDS PlanRepository, TLC

CONSTANTS e1, e2, pane1, plan1, plan2

\* Two requests for one pane.
SharedPane == [e \in Executions |-> pane1]
OwnPlan == [e \in Executions |-> IF e = e1 THEN plan1 ELSE plan2]
RepositorySymmetry == Permutations(Workers) \cup Permutations(Publishers)
=============================================================================
