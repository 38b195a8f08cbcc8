CONSTANTS
  Upper <- AsciiUpper
  Files <- AllFiles
SPECIFICATION Spec
INVARIANTS LayoutMatches ClientTypes ServerTypes TracersAssigned
  CallsReachTheirMethod ConflictOnlyByCase FilesDistinct
CHECK_DEADLOCK FALSE
