SPECIFICATION AllocSpec
CONSTANTS
  EntryLabel = "entry"
  MaxGpr = 3
  Vregs = {1, 2}
  Pairs = {}
  Programs <- MCPrograms
  Shapes <- MCShapes
  Inputs = {}
INVARIANTS NoClobber
CHECK_DEADLOCK FALSE
