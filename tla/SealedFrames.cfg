SPECIFICATION Spec
CONSTANTS
  v1 = v1  v2 = v2  relay = relay  local = local
  rd1 = rd1  rd2 = rd2  w1 = w1  w2 = w2  None = none
  Viewer <- Viewers
  Link <- Links
  Via <- AtRelay
  Reader <- Readers
  ReaderOn <- InTurn
  Writer <- Writers
  MaxKnown = 1
  MaxConn = 2
  MaxStream = 2
  MaxCtr = 2
  MaxOut = 2
  MaxDown = 1
CHECK_DEADLOCK FALSE
SYMMETRY Sym
INVARIANTS
  TypeOK
  AcceptedInOrder
  RefusedOnlyOvertaken
  StreamIsOwn
