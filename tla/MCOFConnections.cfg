CONSTANTS
  Conns <- TwoConns
  Dpids <- OneSwitch
  SwitchOf <- ComesBack
  Ports <- OnePort
  NoConn = NoConn
  StrayBarrier = TRUE
  MaxGone = 2
  MaxExtra = 2
SPECIFICATION Spec
CHECK_DEADLOCK FALSE
INVARIANTS SwitchesAsKnown
PROPERTIES ImplementsSwitchSessions LossIsAnnounced
