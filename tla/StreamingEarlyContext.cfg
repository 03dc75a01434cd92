\* early_context_frames = 0 with early windows left loses the trim at joins.
SPECIFICATION Spec
CONSTANTS
  SamplesPerFrame = 2
  DecoderTrim = 1
  DefaultSteady = 2
  RawRequests <- EarlyOffRequests
INVARIANTS
  EarlyContextIsOptional
