\* Both modes, failing calls and kills, and a second run in the same directory.
SPECIFICATION FairSpec
CONSTANTS
  Inputs <- SomeInputs
  BatchSizes <- UpToThree
  FrameCounts <- OneOrTwo
  MaxRuns = 2
INVARIANTS
  TypeOK
  IndexNamesFiles
  LossIsBounded
  VoiceLoadedOnce
  FailsOnlyOnFaults
PROPERTIES
  BatchSpec
CHECK_DEADLOCK FALSE
