CONSTANTS
  Threads <- MCThreads
  Events <- MCEvents
  Handlers = {h1}
  MaxPriority = 1
  MaxListeners = 2
  Components = {"a", "b"}
  Sinks = {"callback", "sink"}
  Needs <- MCNeeds
  Binds <- MCBinds
  CommandLines <- MCCommandLines
  ListenTo = {"ComponentRegistered"}
  Styles <- MCStyles
  Quitters = {"quitter"}
  MaxOps = 3
  MaxSignals = 1
SPECIFICATION Spec
INVARIANTS HeardByAll CalledWhenReady
PROPERTY QuitEnds
CHECK_DEADLOCK FALSE
