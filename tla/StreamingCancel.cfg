\* A paced request whose callback asks to stop generates to the end.
SPECIFICATION Spec
CONSTANTS
  SamplesPerFrame = 2
  DecoderTrim = 1
  DefaultSteady = 2
  RawRequests <- PacedRequests
INVARIANTS
  StopCancelsGeneration
