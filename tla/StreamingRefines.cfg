\* The request implements PcmStream, returning included.
SPECIFICATION FairSpec
CONSTANTS
  SamplesPerFrame = 2
  DecoderTrim = 1
  DefaultSteady = 2
  RawRequests <- ContextedRequests
PROPERTIES
  StreamSpec
