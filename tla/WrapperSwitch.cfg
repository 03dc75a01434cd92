\* A request that names the model, after a switch that failed.
SPECIFICATION SpecWrapper
CONSTANTS
  Base = Base
  Design = Design
  Models <- TwoModels
  NoModel = NoModel
  DefaultModel = Base
  Texts = {"calm"}
  NoText = ""
  ModelType <- TwoTypes
  HiddenSize <- TwoSizes
  EncoderDim <- TwoSizes
  MaxRefs = 4
INVARIANTS
  RequestedModelSpeaks
