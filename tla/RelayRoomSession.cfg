SPECIFICATION Spec
CONSTANTS
  a1 = a1  a2 = a2  v1 = v1  v2 = v2
  mine = mine  other = other
  r1 = r1  r2 = r2  t1 = t1  t2 = t2
  None = none  none = none
  AgentConn <- TwoAgents
  ViewerConn <- NoViewer
  Process <- TwoProcesses
  ProcessOf <- Stranger
  Presents <- TokenOrBoth
  RoomId <- TwoRooms
  TimerId <- TwoTimers
SYMMETRY SymRooms
VIEW View
INVARIANTS
  AgentIsHolder
  HolderGetsIn
  NoLeakedRoom
PROPERTIES
  HolderKeepsSession
