CONSTANTS
  d = d
  h = h
  r = r
  Calls = {d, h, r}
  Kind <- OneOfEach
  MaxPayloads = 2
  EMPTY_BUFFER = EMPTY_BUFFER
  NoBuffer = NoBuffer
SPECIFICATION Spec
INVARIANTS NoUseAfterRelease LeaksOnlyByFailure MetadataForEveryAttempt
CHECK_DEADLOCK FALSE
