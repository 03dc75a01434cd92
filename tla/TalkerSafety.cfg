\* Any two or three requests in a row, with reloads, failures and stops.
SPECIFICATION FairSpec
CONSTANTS
  Requests <- SmallRequests
  MaxRequests = 3
  Slack = 1
  KeepCtx = 16
  PredictorCtx = 4
  Residuals = 3
INVARIANTS
  TypeOK
  IInv
  HiddenIsOfUtterance
  CodesAreOfThisFrame
  ContextSuffices
  ReservedGraphsFit
PROPERTIES
  SourceSpec
