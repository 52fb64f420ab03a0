SPECIFICATION FairSpec
CONSTANTS
  EntryLabel = "entry"
  DataRegs = {"a", "i", "n", "o", "t", "tid", "ctaid"}
  PredRegs = {"p", "q"}
  Width = 2
  MemoryWords = 4
  UniformSpecials = {"ctaid"}
  VaryingSpecials = {"tid"}
  PredNumber <- MCPredNumber
  RegNumber <- MCRegNumber
  SpecialNumber <- MCSpecialNumber
  SpecialValues <- MCSpecialValues
  TempBase = 240
  WordValues = 1073741824
  RegisterFile = {1, 2, 3, 4, 5, 240, 241, 242}
  Threads = 3
  WarpSize = 2
  MaxSteps = 48
  LaneSteps = 48
  Inputs <- MCInputs
  Memory <- MCMemory
  Programs <- MCPrograms
INVARIANTS ThreadsStoreTheSame UniformBranchesAgree BranchesLandOnTheirLabels BinaryIsTheCode
PROPERTIES KernelsReturn
CHECK_DEADLOCK FALSE
