CONSTANTS
  Clients <- MCClients
  Names = {a, b}
  Garbage = Garbage
  NoClient = 0
  Seats = 2
  MayHangUp = TRUE
SPECIFICATION FairSpec
INVARIANTS
  SeatedOnce
  TablesFill
PROPERTIES
  EveryoneSeated
CHECK_DEADLOCK FALSE
