\* Writer, worker and device in every order, with refused buffers.
SPECIFICATION FairSpec
CONSTANTS
  Rates <- TwoRates
  Prerolls <- UpToTwo
  ChunkSizes <- OneOrTwo
  MaxSamples = 5
  MaxRequests = 3
INVARIANTS
  TypeOK
  IInv
  IdleIsClean
PROPERTIES
  DeviceOutlivesBuffers
  PlaybackSpec
