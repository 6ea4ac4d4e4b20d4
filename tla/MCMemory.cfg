\* Two change sets that write one index, two attempts, one saver, one fault.
CONSTANTS
  ChangeSets = {c1, c2}
  Attempts = {a1, a2}
  Savers = {s1}
  Editors = {}
  Index = Index
  Monthly = Monthly
  Free = Free
  Orphan = Orphan
  NoSources = NoSources
  NoTarget = NoTarget
  NoChange = NoChange
  MayStall = FALSE
  MaxFaults = 1
SPECIFICATION Spec
SYMMETRY Symmetry
INVARIANTS TypeOK SavesKept FailedNeverWritten AppliedIsWritten EvidenceKept
PROPERTIES RenamedOnce
\* What is applied, rolled back or failed stays as it is.
CHECK_DEADLOCK FALSE
