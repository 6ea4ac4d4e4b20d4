\* Two controllers, one attempt, two operator requests and a fault.
CONSTANTS
  NoWorker = nobody
  m1 = m1
  m2 = m2
  Workers = {w1, w2}
  Models = {m1}
  NStages = 1
  StageModel <- FirstModel
  MaxStageAttempts = 1
  MaxUserTurns = 0
  MaxRequests = 2
  MaxFaults = 1
SPECIFICATION Spec
SYMMETRY WorkerSymmetry
INVARIANTS QuietAtRest
PROPERTIES PauseHolds
\* A finished or resting execution may stay as it is.
CHECK_DEADLOCK FALSE
