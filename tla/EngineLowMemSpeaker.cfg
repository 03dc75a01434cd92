\* Named speakers in low-memory mode.
SPECIFICATION Spec
CONSTANTS
  Base = Base
  Other = Other
  Models <- TwoModels
  NoModel = NoModel
  Texts = {"calm"}
  NoText = ""
  ModelType <- TwoTypes
  HiddenSize <- TwoSizes
  EncoderDim <- TwoSizes
  MaxRefs = 4
INVARIANTS
  UnloadIsTransparent
