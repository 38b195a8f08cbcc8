CONSTANTS
  ByteSize = 4
  InitialCapacity = 8
  Capacities = {8, 16, 32, 48}
  KeyLengths = {0, 1, 2, 3, 5, 8, 15}
  ValueLengths = {0, 1, 2, 5, 8, 13, 17}
  NameLengths = {0, 1, 2, 6, 7, 8, 9, 12, 14, 15, 16, 17, 18}
  BodyLengths = {0, 3}
  Inputs <- AllInputs
SPECIFICATION Spec
INVARIANT AcceptedIsReadable
CHECK_DEADLOCK FALSE
