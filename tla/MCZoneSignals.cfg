CONSTANTS
  init = init
  sh = sh
  t1 = t1
  t2 = t2
  t3 = t3
  Nodes = {n1}
  NULL = NULL
  Names = {a}
  NoName = NoName
  Procs = {init, sh}
  NoProc = NoProc
  Threads = {t1, t2}
  NoThread = NoThread
  Boot <- MCBoot
  InitProc = init
  MaxZones = 1
  IdMin <- MCIdMin
  IdMax = 2
  CountMax = 5
  StalePr = {}
  TotalBound = 2
  ThreadsPerProc = 1
SPECIFICATION ISpec
INVARIANTS
  SignalsStayInZone
