\* A signal that is sent again by the recovery at the start of the API.
CONSTANTS
  MaxRequests = 1
  MaxGeneration = 1
  MaxPauses = 0
  MaxFaults = 1
SPECIFICATION Spec
INVARIANTS InterruptedOnRequest
\* A mission that has ended stays as it is.
CHECK_DEADLOCK FALSE
