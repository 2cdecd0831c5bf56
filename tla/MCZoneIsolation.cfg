CONSTANTS
  init = init
  sh = sh
  t1 = t1
  t2 = t2
  t3 = t3
  Nodes = {n1, n2}
  NULL = NULL
  Names = {a, b}
  NoName = NoName
  Procs = {init, sh}
  NoProc = NoProc
  Threads = {t1, t2}
  NoThread = NoThread
  Boot <- MCBoot
  InitProc = init
  MaxZones = 2
  IdMin <- MCIdMin
  IdMax = 2
  CountMax = 5
  StalePr <- MCStale
  TotalBound = 1
  ThreadsPerProc = 1
SPECIFICATION IFairSpec
INVARIANTS
  PidSignalsStayInZone
  LiveListingInZone
  RegistryOK
PROPERTIES
  SyscallReturns
