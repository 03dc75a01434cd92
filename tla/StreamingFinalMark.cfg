\* An unpaced request whose last frame ends a window makes no final callback.
SPECIFICATION Spec
CONSTANTS
  SamplesPerFrame = 2
  DecoderTrim = 1
  DefaultSteady = 2
  RawRequests <- UnpacedRequests
INVARIANTS
  FinalIsMarked
