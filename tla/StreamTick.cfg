SPECIFICATION Spec
CONSTANTS
  v1 = v1  v2 = v2  relay = relay  local = local  None = none
  Viewer <- TwoViewers
  Link <- WithLocal
  Via <- Beside
  Tallies <- Fresh
  Keep = 2  CursorCap = 4  RestartGap = 32
  MaxSeq = 2  MaxTurns = 2  MaxDown = 2
CHECK_DEADLOCK FALSE
INVARIANTS
  NoTickMissed
