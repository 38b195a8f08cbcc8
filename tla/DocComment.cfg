CONSTANTS
  Char = {"*", "/", "space", "newline", "@", "x"}
  Locations <- AllLocations
  MaxLength = 5
SPECIFICATION Spec
INVARIANTS ClosedByFooter TextKept
CHECK_DEADLOCK FALSE
