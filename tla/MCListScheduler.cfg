SPECIFICATION Spec
CONSTANTS
  NumRegs = 2
  MaxLen = 4
  Blocks <- PlainBlocks
INVARIANTS NeverStuck IssuedInOrder ComputesTheSame
PROPERTIES NothingSinksBelowABarrier ImplementsReorder
CHECK_DEADLOCK FALSE
