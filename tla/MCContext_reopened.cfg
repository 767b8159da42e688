CONSTANTS
  A = A
  V1 = V1
  V2 = V2
  F1 = F1
  NsNames <- MCNsNames
  VarNames <- MCVarNames2
  FunNames <- MCFunNames
  MaxNodes = 6
  MaxFns = 1
  MaxDepth = 3
  MaxVars = 2
  MaxIndex = 4
  AnonLimit = 100000
  AnonBase = 10
  PreIndices = {1000}
  Features = {"reopen"}
SPECIFICATION Spec
INVARIANTS
  ReturnClosesOnlyLocals
CHECK_DEADLOCK FALSE
