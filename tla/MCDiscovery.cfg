CONSTANTS
  Dpids <- TwoSwitches
  Wires <- Cable
  PortsOf <- CablePorts
  Early <- TwoSwitches
  OFPP_MAX = 65280
  link_timeout = 4
  check_period = 2
  shortest = 1
  MaxDelay = 1
  MaxEvents = 2
SPECIFICATION Spec
INVARIANTS EveryPortOnce SentEveryCycle StaleLinksGo
PROPERTIES NoFalseTimeout ImplementsLinkLayer Converges
