SPECIFICATION Spec
CONSTANTS
  v1 = v1  v2 = v2  relay = relay  local = local  None = none
  Viewer <- OneViewer
  Link <- RelayOnly
  Via <- OneRemote
  Tallies <- NearOnly
  Keep = 8  CursorCap = 4  RestartGap = 32
  MaxSeq = 3  MaxTurns = 1  MaxDown = 2
CHECK_DEADLOCK FALSE
INVARIANTS
  NotFilteredAfterRestart
