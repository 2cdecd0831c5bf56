CONSTANTS
  init = init
  sh = sh
  t1 = t1
  t2 = t2
  t3 = t3
  Nodes = {n1, n2}
  NULL = NULL
  Names = {a}
  NoName = NoName
  Procs = {init, sh}
  NoProc = NoProc
  Threads = {t1, t2, t3}
  NoThread = NoThread
  Boot <- MCBootInit
  InitProc = init
  MaxZones = 1
  IdMin <- MCIdMin
  IdMax = 1
  CountMax = 5
  StalePr <- MCStale
  TotalBound = 2
  ThreadsPerProc = 2
SPECIFICATION Spec
SYMMETRY Symmetric
INVARIANTS
  NoDangling
  CountCoversMembers
  HeldAcrossSleep
PROPERTIES
  KeepsContract
  StaysSealed
