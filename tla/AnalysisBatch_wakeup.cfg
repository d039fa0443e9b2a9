CONSTANTS
  ItemCount = 2
  Slots = 1
  MaxAttempts = 1
  Events = {"pause"}
SPECIFICATION Spec
CHECK_DEADLOCK FALSE
INVARIANT RunningIsServed
