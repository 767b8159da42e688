CONSTANTS
  A = A
  V1 = V1
  V2 = V2
  F1 = F1
  NsNames <- MCNsNames
  VarNames <- MCVarNames1
  FunNames <- MCFunNames
  MaxNodes = 5
  MaxFns = 2
  MaxDepth = 4
  MaxVars = 2
  MaxIndex = 6
  AnonLimit = 100000
  AnonBase = 10
  PreIndices = {0, 1000}
  Features = {"anon_fn", "call", "reopen", "using"}
SPECIFICATION Spec
INVARIANTS
  OwnLocalsVisible
  IInv
  NoDanglingNode
  StackDiscipline
  ReturnClosesLocals
PROPERTIES
  RestoreUndoesVariables
  FreshScope
CHECK_DEADLOCK FALSE
