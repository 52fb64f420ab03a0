SPECIFICATION FairSpec
CONSTANTS
  EntryLabel = "entry"
  DataRegs = {"r1", "r2", "r3", "r4", "r5", "c1", "c2"}
  PredRegs = {"p"}
  Width = 2
  MemoryWords = 2
  MaxIterations = 20
  Steps = 28
  LaunchWords = {0, 1}
  LabelOrder <- MCLabelOrder
  FreshNames <- MCFreshNames
  Sources <- GuardedPrograms
  Programs <- NoPrograms
INVARIANT PredicatedStopsConstants
CHECK_DEADLOCK FALSE
