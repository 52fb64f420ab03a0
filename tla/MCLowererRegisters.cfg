SPECIFICATION Spec
CONSTANTS
  Vregs = {1, 2, 3, 4}
  Pairs = {3, 4}
  ByName = {3, 4}
  TempBase = 8
  LastReg = 10
  PreMappings <- MCPreMappings
INVARIANTS NoSharedRegister
CHECK_DEADLOCK FALSE
