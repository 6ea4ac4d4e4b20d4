\* Two stages and two models, an operator request, a user turn, a fault.
CONSTANTS
  NoWorker = nobody
  m1 = m1
  m2 = m2
  Workers = {w1}
  Models = {m1, m2}
  NStages = 2
  StageModel <- FirstModel
  MaxStageAttempts = 1
  MaxUserTurns = 1
  MaxRequests = 1
  MaxFaults = 1
SPECIFICATION Spec
INVARIANTS CompletionProven ChoiceHonoured InterruptsOwnTurn
PROPERTIES KeepsPromise
\* A finished or resting execution may stay as it is.
CHECK_DEADLOCK FALSE
