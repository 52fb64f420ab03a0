SPECIFICATION Spec
CONSTANTS
  MaxGpr = 5
  NumRanges = 4
  MaxPoint = 5
  Inputs <- MixedRanges
INVARIANTS NoSharingBeforeFallback Conserved
PROPERTIES UnmappedOnlyUnderPressure NoPairOnlyUnderPressure
CHECK_DEADLOCK FALSE
