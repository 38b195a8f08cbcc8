CONSTANTS
  Cancellers = {c1, c2}
  MaxItems = 2
SPECIFICATION FairSpec
PROPERTY ErrorDelivered
CHECK_DEADLOCK FALSE
