\* Two requests, one automatic continuation, one pause, one fault.
CONSTANTS
  MaxRequests = 2
  MaxGeneration = 1
  MaxPauses = 1
  MaxFaults = 1
SPECIFICATION FairSpec
INVARIANTS TypeOK ContinuesTheNewest RequestsAreKept InterruptedInOrder
PROPERTIES EndedStaysEnded NewestTurnDecides RecordedIsFinal CompletedAfterWork Settles
\* A mission that has ended stays as it is.
CHECK_DEADLOCK FALSE
