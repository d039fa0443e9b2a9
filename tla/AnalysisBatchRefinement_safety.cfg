CONSTANTS
  ItemCount = 2
  Slots = 2
  MaxAttempts = 2
  Events = {"error", "timeout", "pause", "retry", "restart"}
SPECIFICATION Spec
CHECK_DEADLOCK FALSE
INVARIANT TypeOK
INVARIANT RowsMatchThreads
PROPERTY CancelIsFinal
PROPERTY ImplementsLifecycle
PROPERTY ConsentBeforeResend
