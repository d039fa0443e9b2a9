CONSTANTS
  BundleCount = 3
  Readers = {r1, r2}
  Keep = 2
  None = None
  Scenarios <- ScenariosAtWork
SPECIFICATION Spec
SYMMETRY ReaderSymmetry
INVARIANT HandlesFollowLeases
INVARIANT ServedIsRetained
PROPERTY PinHolds
PROPERTY ServiceSurvives
