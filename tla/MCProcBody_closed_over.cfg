CONSTANTS
  A = A
  V1 = V1
  V2 = V2
  F1 = F1
  L1 = L1
  L2 = L2
  NsNames <- MCNsNames
  VarNames <- MCVarNames1
  FunNames <- MCFunNames
  LabelNames = {}
  MaxNodes = 8
  MaxFns = 1
  AnonLimit = 100000
  AnonBase = 10
  MaxForms = 5
  MaxScopes = 2
  Uses = {"closed_over"}
SPECIFICATION Spec
CHECK_DEADLOCK FALSE
PROPERTIES
  Lifetimes
