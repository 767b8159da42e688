CONSTANTS
  A = A
  V1 = V1
  V2 = V2
  F1 = F1
  L1 = L1
  L2 = L2
  NsNames <- MCNsNames
  VarNames <- MCVarNames2
  FunNames <- MCFunNames
  LabelNames <- MCLabelNames
  MaxNodes = 8
  MaxFns = 1
  AnonLimit = 100000
  AnonBase = 10
  MaxForms = 5
  MaxScopes = 2
  Uses = {"dead", "goto_back", "goto_ahead", "lost", "call"}
SPECIFICATION Spec
CHECK_DEADLOCK FALSE
PROPERTIES
  RestoreUndoesForms
  Lifetimes
