CONSTANTS
  Ifs = {e1, e2}
  Paths = {p1}
  None = None
  VNets = {0, 1}
  SoftcId <- MCSoftcId
  TunId <- MCTunId
SPECIFICATION Spec
SYMMETRY Symmetric
INVARIANTS
  LinkWatched
  PingsWatched
  NothingOutlives
