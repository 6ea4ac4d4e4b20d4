\* An executor that is slower than the age at which a lock counts as stale.
CONSTANTS
  ChangeSets = {c1}
  Attempts = {a1}
  Savers = {s1}
  Editors = {}
  Index = Index
  Monthly = Monthly
  Free = Free
  Orphan = Orphan
  NoSources = NoSources
  NoTarget = NoTarget
  NoChange = NoChange
  MayStall = TRUE
  MaxFaults = 0
SPECIFICATION Spec
INVARIANTS OneInside
\* What is applied, rolled back or failed stays as it is.
CHECK_DEADLOCK FALSE
