CONSTANTS
  Cancellers = {c1, c2}
  MaxItems = 2
SPECIFICATION FairSpec
INVARIANTS TypeOK FinishedOnce
PROPERTIES SpansSettle CompletionDelivered
CHECK_DEADLOCK FALSE
