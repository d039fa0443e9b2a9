CONSTANTS
  pa = pa
  pb = pb
  pc = pc
  same = same
  other = other
  Profiles <- ThreeProfiles
  Identities = {same, other}
  IdentityOf <- IdentityOfThree
  MaxRuns = 2
  None = None
  Scenarios <- ScenariosAtWork
SPECIFICATION Spec
SYMMETRY ProfileSymmetry
INVARIANT RegistryServes
INVARIANT CancelWins
INVARIANT FailedLeavesPrior
INVARIANT ReindexSettles
CHECK_DEADLOCK FALSE
