CONSTANTS
  Threads = {t1, t2, t3}
  Nobody = Nobody
  Capacity = 1
  Weight <- MCWeight
SPECIFICATION PermitsFairSpec
INVARIANT PermitsConserved
INVARIANT BoundedBypass
PROPERTY WaitEnds
