CONSTANTS
  Stations <- MCStations
  Peer <- MCPeer
  Keys <- MCOneKey
  Cancels = {}
  MaxTimeout = 2
  Flips = 0
  None = None
  Err = Err
SPECIFICATION FairSpec
PROPERTIES
  BackToReceiving
CHECK_DEADLOCK FALSE
