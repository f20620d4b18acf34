SPECIFICATION Spec
CONSTANTS
  a1 = a1  a2 = a2  d1 = d1  d2 = d2
  None = none  Stale = stale
  Agent <- TwoAgents
  Doer <- TwoDoers
  Files <- FiveFiles
  LockFails = TRUE
  MaxDone = 3
  MaxFaults = 1
SYMMETRY Symmetric
VIEW View
INVARIANTS
  TypeOK
  SavedNotLost
  UpIsAwake
PROPERTIES
  EndedStaysEnded
  EndNeverCrossesWake
CHECK_DEADLOCK FALSE
