SPECIFICATION ProgramSpec
CONSTANTS
  NumRegs = 2
  Size = 5
  Programs <- MCPrograms
  Blocks <- MCBlocks
INVARIANTS ControlStaysInPlace CutBlocksEndAtControl BlocksKeepTheirInstructions
PROPERTIES ProgramReturns
CHECK_DEADLOCK FALSE
