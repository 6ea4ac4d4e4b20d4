\* Two workers, an operator and two publishers on one execution.
CONSTANTS
  NoWorker = nobody
  e1 = e1
  e2 = e2
  pane1 = pane1
  plan1 = plan1
  plan2 = plan2
  Executions = {e1}
  PaneOf <- SharedPane
  PlanOf <- OwnPlan
  Workers = {w1, w2}
  Operators = {o1}
  Publishers = {p1, p2}
  MaxRevision = 2
  MaxEpoch = 2
SPECIFICATION FairSpec
INVARIANTS TypeOK RelayInOrder
PROPERTIES FinishedIsFinal ImplementsFencing EverythingRelayed
\* Revisions and epochs are bounded.
CHECK_DEADLOCK FALSE
