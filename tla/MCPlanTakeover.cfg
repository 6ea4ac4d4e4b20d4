\* Two controllers, a stage of two attempts, a crash or a lapsed lease.
CONSTANTS
  NoWorker = nobody
  m1 = m1
  m2 = m2
  Workers = {w1, w2}
  Models = {m1}
  NStages = 1
  StageModel <- FirstModel
  MaxStageAttempts = 2
  MaxUserTurns = 0
  MaxRequests = 0
  MaxFaults = 1
SPECIFICATION Spec
SYMMETRY WorkerSymmetry
INVARIANTS TypeOK OneOutstanding TurnBudget
PROPERTIES KeepsPromise
\* A finished or resting execution may stay as it is.
CHECK_DEADLOCK FALSE
