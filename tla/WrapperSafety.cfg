\* The wrapper over its engine, with loads that fail anywhere.
SPECIFICATION SpecWrapper
CONSTANTS
  Base = Base
  Design = Design
  Models <- TwoModels
  NoModel = NoModel
  DefaultModel = Base
  Texts = {"calm"}
  NoText = ""
  ModelType <- TwoTypes
  HiddenSize <- TwoSizes
  EncoderDim <- TwoSizes
  MaxRefs = 4
INVARIANTS
  WrapperTypeOK
  WrapperKnowsTheModel
  DesignIsInstructed
