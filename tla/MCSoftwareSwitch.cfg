SPECIFICATION Spec
CONSTANTS
  PortNos = {"1", "2"}
  Packets <- MCPackets
  Mods <- MCMods
  ActionLists <- MCActionLists
  PacketOuts <- MCPacketOuts
  PortBits <- MCPortBits
  MaxBuffers = 2
  MaxEntries = 2
  Period = 1
  MaxTime = 2
  MaxInputs = 5
INVARIANTS TableAsBooked PictureIsTrue
CHECK_DEADLOCK FALSE
