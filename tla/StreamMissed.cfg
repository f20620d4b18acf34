SPECIFICATION Spec
CONSTANTS
  v1 = v1  v2 = v2  relay = relay  local = local  None = none
  Viewer <- OneViewer
  Link <- RelayOnly
  Via <- OneRemote
  Tallies <- Fresh
  Keep = 8  CursorCap = 4  RestartGap = 32
  MaxSeq = 4  MaxTurns = 2  MaxDown = 2
CHECK_DEADLOCK FALSE
INVARIANTS
  NothingMissed
