SPECIFICATION FormatsSpec
CONSTANTS
  ToSwitch <- MCToSwitch
  ToController <- MCToController
  Afterwards <- MCAfterwards
  MaxItems = 2
  Chunks = {3, 9, 70}
  MaxPieces = 1
  Conns = {s1, s2}
  NoConn = NoConn
  Room = 3
  MaxSent = 6
  MaxDead = 1
  LinkEvents = TRUE
INVARIANTS InStep AnsweredOnce PacketsKept AddressKept NothingLost
PROPERTIES AllHandled WrittenIfAllStay
CHECK_DEADLOCK FALSE
