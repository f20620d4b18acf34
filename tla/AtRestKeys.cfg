SPECIFICATION Spec
CONSTANTS
  p1 = p1  p2 = p2  k1 = k1  k2 = k2  k3 = k3
  None = none  Locked = locked
  Process <- Processes
  Key <- TwoKeys
  Host <- Hosts
  MaxLosses = 1
SYMMETRY SymKeys
VIEW View
INVARIANTS
  TypeOK
  NamedKeyHeld
  GoneOnlyWhenGone
PROPERTIES
  NothingOverwritten
  AgreeOnOneKey
