CONSTANTS
  Clients = {c, d}
  Images = {x, y}
  Texts = {s}
  Revisions = {1, 3}
  FirstBundles <- TwoBuilds
  MaxApplies = 2
  MaxBundles = 3
  None = None
  Scenarios <- ScenariosAtWork
SPECIFICATION Spec
SYMMETRY Symmetry
CHECK_DEADLOCK FALSE
INVARIANT PairAgrees
INVARIANT JournalRecovers
INVARIANT RevNamesOneBackground
PROPERTY NoLostUpdate
