SPECIFICATION FairSpec
CONSTANTS
  v1 = v1  v2 = v2  relay = relay  local = local  None = none
  Viewer <- TwoViewers
  Link <- RelayOnly
  Via <- BothRemote
  Tallies <- FromFar
  Keep = 1  CursorCap = 1  RestartGap = 1
  MaxSeq = 2  MaxTurns = 2  MaxDown = 1
CHECK_DEADLOCK FALSE
INVARIANTS
  TypeOK
  NoTickMissed
  NoViewerStranded
PROPERTIES
  FirstCatchesUp
