CONSTANTS
  Clients <- MCClients
  Names = {a, b}
  Garbage = Garbage
  NoClient = 0
  Seats = 2
  MayHangUp = FALSE
SPECIFICATION Spec
INVARIANTS
  OwnPlayers
CHECK_DEADLOCK FALSE
