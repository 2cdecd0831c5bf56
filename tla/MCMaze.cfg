CONSTANTS
  Rows = 3
  Cols = 4
  Games <- MCGames
  MaxTurns = 4
  SimpleMoves = 3
  Delay = 1
  StaleStatus <- MCStale
SPECIFICATION FairSpec
INVARIANTS
  TypeOK
  SafePositions
  InStep
  SlowTrails
PROPERTIES
  WallerKeepsWall
  GameEnds
CHECK_DEADLOCK FALSE
