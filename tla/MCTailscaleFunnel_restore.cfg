CONSTANTS
  ca = ca
  cb = cb
  Callers = {ca, cb}
  MaxRestores = 1
  MaxEvents = 2
  None = None
SPECIFICATION Spec
INVARIANT RestoreIsWhole
INVARIANT SwapIsQuiet
INVARIANT OutcomeIsTold
PROPERTY FunnelTold
PROPERTY MaintenanceEnds
CHECK_DEADLOCK FALSE
