CONSTANTS
  Cancellers = {c1, c2}
  MaxItems = 2
SPECIFICATION Spec
INVARIANT SubscribedOnce
CHECK_DEADLOCK FALSE
