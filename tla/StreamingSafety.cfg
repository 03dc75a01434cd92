\* Every mode and every kind of request, safety.
SPECIFICATION Spec
CONSTANTS
  SamplesPerFrame = 2
  DecoderTrim = 1
  DefaultSteady = 2
  RawRequests <- AllRequests
INVARIANTS
  TypeOK
  IInv
  AudioInOrder
  HeardIsPrefix
  JobsReadGeneratedCodes
  BacklogBelowOneWindow
  SuccessIsComplete
  StopIsReported
  ErrorEndsGeneration
PROPERTIES
  NothingHeardAfterStop
  FinalChunkIsLast
