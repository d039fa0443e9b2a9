CONSTANTS
  Requests = {r, s}
  Capacity = 1
  Configs = {c, d}
  None = None
  Events = {"bind", "death", "crash", "settings"}
SPECIFICATION FairSpec
INVARIANT TypeOK
INVARIANT WorkersBounded
INVARIANT OwnerIsTold
INVARIANT ReleasedWhenIdle
PROPERTY RequestEnds
