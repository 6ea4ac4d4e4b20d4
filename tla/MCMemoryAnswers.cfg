\* A change set, two savers that race for the lock file, another editor, one fault.
CONSTANTS
  ChangeSets = {c1}
  Attempts = {a1}
  Savers = {s1, s2}
  Editors = {e1}
  Index = Index
  Monthly = Monthly
  Free = Free
  Orphan = Orphan
  NoSources = NoSources
  NoTarget = NoTarget
  NoChange = NoChange
  MayStall = FALSE
  MaxFaults = 1
SPECIFICATION FairSpec
INVARIANTS OneInsideUnlessRobbed SavesKept
PROPERTIES Answered
\* What is applied, rolled back or failed stays as it is.
CHECK_DEADLOCK FALSE
