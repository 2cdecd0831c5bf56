CONSTANTS
  Conns = {1, 2, 3}
  Requests <- MCRequests
  Files <- MCFiles
  Unreadable <- MCUnreadable
  Invalid <- MCInvalid
  Fds = 2
  PacketSize = 2
SPECIFICATION FairSpec
INVARIANTS
  TypeOK
  Watched
  WholeResponses
PROPERTIES
  Answered
CHECK_DEADLOCK FALSE
