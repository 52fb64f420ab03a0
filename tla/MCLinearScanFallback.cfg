SPECIFICATION Spec
CONSTANTS
  MaxGpr = 3
  NumRanges = 5
  MaxPoint = 5
  Inputs <- MixedRanges
INVARIANT NoSharing
CHECK_DEADLOCK FALSE
