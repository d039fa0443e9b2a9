CONSTANTS
  ItemCount = 2
  Slots = 1
  MaxAttempts = 2
  Events = {"error", "rate_limit", "timeout", "restart"}
SPECIFICATION FairSpec
CHECK_DEADLOCK FALSE
PROPERTY BatchEnds
