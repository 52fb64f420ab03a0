SPECIFICATION Spec
CONSTANTS
  NumRegs = 4
  MaxLen = 4
  Blocks <- WideBlocks
INVARIANTS ComputesTheSame
CHECK_DEADLOCK FALSE
