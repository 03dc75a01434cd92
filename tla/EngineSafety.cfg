\* Two models, every order of loads and requests, every place a load can fail.
SPECIFICATION Spec
CONSTANTS
  Base = Base
  Other = Other
  Models <- TwoModels
  NoModel = NoModel
  Texts = {"calm", "loud"}
  NoText = ""
  ModelType <- TwoTypes
  HiddenSize <- TwoSizes
  EncoderDim <- TwoSizes
  MaxRefs = 4
INVARIANTS
  TypeOK
  IInv
  NothingUsedUnloaded
  CacheIsCurrent
  BackendOutlivesUsers
  OneModelSpeaks
  LowMemoryHoldsOneModel
