CONSTANTS
  Stations <- MCStations
  Peer <- MCPeer
  Keys <- MCOneKey
  Cancels = {1, 2}
  MaxTimeout = 2
  Flips = 2
  None = None
  Err = Err
SPECIFICATION FairSpec
INVARIANTS
  HeardWasTyped
  StuckHasPacket
PROPERTIES
  Confirmed
  WaitEnds
CHECK_DEADLOCK FALSE
