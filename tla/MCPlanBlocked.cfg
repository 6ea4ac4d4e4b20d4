\* Resuming a blocked execution.
CONSTANTS
  NoWorker = nobody
  m1 = m1
  m2 = m2
  Workers = {w1}
  Models = {m1}
  NStages = 1
  StageModel <- FirstModel
  MaxStageAttempts = 1
  MaxUserTurns = 0
  MaxRequests = 1
  MaxFaults = 1
SPECIFICATION Spec
INVARIANTS BlockedCanResume
\* A finished or resting execution may stay as it is.
CHECK_DEADLOCK FALSE
